----------------------------- MODULE UpnpProofs -----------------------------
(***************************************************************************)
(* Proofs about Upnp for every timeout, length of the rounds and time a    *)
(* fetch takes. The inductive invariant keeps the account of the search:   *)
(* real time and cut off time are together the counted time and that of    *)
(* the fetches, the round under way included while a fetch runs.           *)
(***************************************************************************)
EXTENDS Upnp, TLAPS

Numbers == elapsed \in 0 .. Timeout /\ clock \in Nat /\ early \in Nat
             /\ fetching \in Nat

Account ==
  /\ pc = "search" => clock + early = elapsed + fetching
  /\ pc = "fetch" => /\ elapsed < Timeout
                     /\ clock + early = elapsed + Wait + fetching
  /\ pc = "add" => clock + early <= Timeout + fetching
  /\ pc = "done" => clock + early <= Timeout + fetching
  /\ pc = "idle" => clock = 0 /\ early = 0 /\ fetching = 0
  /\ ended = "time" => pc = "done" /\ clock + early = Timeout + fetching

Report ==
  /\ pc \in {"search", "fetch", "add"} =>
       ok = FALSE /\ lastError = "none" /\ confirmed = FALSE
  /\ OutcomeIsTrue

IInv == TypeOK /\ Account /\ Report

LEMMA WaitType ==
  ASSUME TypeOK
  PROVE  /\ Wait \in Nat
         /\ elapsed + Wait \in 0 .. Timeout
BY UpnpAssumption DEF TypeOK, Wait

LEMMA InitIInv == Init => IInv
<1> SUFFICES ASSUME Init PROVE IInv
  OBVIOUS
<1> USE UpnpAssumption DEF Init
<1>1. TypeOK
  <2>1. Numbers
    BY DEF Numbers
  <2> QED BY <2>1 DEF TypeOK, Numbers, Errors, Answers, NoAnswer
<1>2. Account
  BY DEF Account
<1>3. Report
  BY DEF Report, OutcomeIsTrue
<1> QED BY <1>1, <1>2, <1>3 DEF IInv

LEMMA NextIInv == IInv /\ [Next]_vars => IInv'
<1> SUFFICES ASSUME IInv, [Next]_vars PROVE IInv'
  OBVIOUS
<1> USE UpnpAssumption DEF IInv
<1>0. Wait \in Nat /\ elapsed + Wait \in 0 .. Timeout
  BY WaitType
<1>00. Numbers /\ Account
  BY Zenon DEF TypeOK, Numbers
<1>1. CASE Prepare
  <2>1. TypeOK'
    <3>1. Numbers'
      <4>1. elapsed' = 0 /\ clock' = 0 /\ early' = 0 /\ fetching' = 0
        BY <1>1, Zenon DEF Prepare
      <4> QED BY <4>1 DEF Numbers
    <3> QED BY <1>1, <3>1 DEF Prepare, Fail, TypeOK, Numbers, Errors, Answers, NoAnswer
  <2>2. Account'
    <3>1. /\ pc' \in {"search", "done"}
          /\ ended' \in {"not", "failed"}
      BY <1>1 DEF Prepare, Fail
    <3>2. elapsed' = 0 /\ clock' = 0 /\ early' = 0 /\ fetching' = 0
      BY <1>1 DEF Prepare
    <3> QED BY <3>1, <3>2 DEF Account
  <2>3. Report'
    BY <1>1 DEF Prepare, Fail, TypeOK, Report,
               OutcomeIsTrue
  <2> QED BY <2>1, <2>2, <2>3
<1>2. CASE Silence
  <2>1. TypeOK'
    BY <1>0, <1>2
       DEF Silence, Searching, Count, TypeOK, outcome, history
  <2>2. Account' /\ Report'
    BY <1>0, <1>2
       DEF Silence, Searching, Count, TypeOK, Account, Report, OutcomeIsTrue,
           outcome, history
  <2> QED BY <2>1, <2>2
<1>3. CASE \E t \in 0 .. Poll : Hear(t)
  <2>1. PICK t \in 0 .. Poll : Hear(t)
    BY <1>3
  <2>2. t \in Nat /\ Wait - t \in Nat
    BY <1>0, <2>1 DEF Hear
  <2>3. TypeOK'
    BY <1>0, <2>1, <2>2 DEF Hear, Searching, Count, TypeOK, outcome, history
  <2>4. Account'
    <3>1. CASE pc' = pc /\ Count
      BY <1>0, <2>1, <2>2, <3>1
         DEF Hear, Searching, Count, TypeOK, Account, outcome, history
    <3>2. CASE pc' = "fetch" /\ UNCHANGED elapsed
      <4>1. Wait' = Wait
        BY <3>2 DEF Wait
      <4> QED BY <1>0, <2>1, <2>2, <3>2, <4>1
                 DEF Hear, Searching, TypeOK, Account, outcome, history
    <3> QED BY <2>1, <3>1, <3>2 DEF Hear
  <2>5. Report'
    BY <2>1 DEF Hear, Searching, Report, OutcomeIsTrue, outcome, history
  <2> QED BY <2>3, <2>4, <2>5
<1>4. CASE \E t \in 0 .. MaxFetch : Fetch(t)
  <2>1. PICK t \in 0 .. MaxFetch : Fetch(t)
    BY <1>4
  <2>2. TypeOK'
    BY <1>0, <2>1 DEF Fetch, Count, TypeOK, outcome, history
  <2>3. Account'
    BY <1>0, <2>1 DEF Fetch, Count, TypeOK, Account, outcome, history
  <2>4. Report'
    BY <2>1 DEF Fetch, Report, OutcomeIsTrue, outcome, history
  <2> QED BY <2>2, <2>3, <2>4
<1>5. CASE GiveUp
  <2>1. TypeOK'
    BY <1>5 DEF GiveUp, Fail, times, TypeOK, Errors, Answers
  <2>2. Account'
    <3>1. /\ pc = "search" /\ elapsed >= Timeout
          /\ pc' = "done" /\ clock' = clock /\ early' = early
          /\ fetching' = fetching
      BY <1>5, Zenon DEF GiveUp, Fail, times
    <3> QED BY <1>00, <3>1 DEF Numbers, Account
  <2>3. Report'
    BY <1>5 DEF GiveUp, Fail, times, TypeOK, Report,
               OutcomeIsTrue
  <2> QED BY <2>1, <2>2, <2>3
<1>6. CASE SelectFails
  <2>1. TypeOK'
    BY <1>6 DEF SelectFails, Searching, Fail, times, history, TypeOK, Errors
  <2>2. Account'
    <3>1. /\ pc = "search" /\ elapsed < Timeout
          /\ pc' = "done" /\ ended' = "failed" /\ clock' = clock
          /\ early' = early /\ fetching' = fetching
      BY <1>6, Zenon DEF SelectFails, Searching, Fail, times
    <3> QED BY <1>00, <3>1 DEF Numbers, Account
  <2>3. Report'
    BY <1>6 DEF SelectFails, Searching, Fail, times, history, TypeOK, Report,
               OutcomeIsTrue
  <2> QED BY <2>1, <2>2, <2>3
<1>7. CASE NoLocalAddress
  <2>1. TypeOK'
    BY <1>7 DEF NoLocalAddress, Fail, times, history, TypeOK, Errors
  <2>2. Account'
    BY <1>7 DEF NoLocalAddress, Fail, times, history, TypeOK, Account
  <2>3. Report'
    BY <1>7 DEF NoLocalAddress, Fail, times, history, TypeOK, Report,
               OutcomeIsTrue
  <2> QED BY <2>1, <2>2, <2>3
<1>8. CASE AddUnanswered
  <2>1. TypeOK'
    BY <1>8 DEF AddUnanswered, Conclude, Fail, times, TypeOK, Errors, Answers
  <2>2. Account'
    BY <1>8 DEF AddUnanswered, Conclude, Fail, times, TypeOK, Account
  <2>3. Report'
    BY <1>8 DEF AddUnanswered, Conclude, Fail, times, TypeOK, Report,
               OutcomeIsTrue
  <2> QED BY <2>1, <2>2, <2>3
<1>9. CASE AddTaken
  <2>1. TypeOK'
    BY <1>9 DEF AddTaken, Conclude, Fail, times, TypeOK, Errors, Answers
  <2>2. Account'
    BY <1>9 DEF AddTaken, Conclude, Fail, times, TypeOK, Account
  <2>3. Report'
    BY <1>9 DEF AddTaken, Conclude, Fail, times, TypeOK, Report,
               OutcomeIsTrue, Answers
  <2> QED BY <2>1, <2>2, <2>3
<1>10. CASE AddRefused
  <2>1. TypeOK'
    BY <1>10 DEF AddRefused, Conclude, Fail, times, history, TypeOK, Errors
  <2>2. Account'
    BY <1>10 DEF AddRefused, Conclude, Fail, times, history, TypeOK, Account
  <2>3. Report'
    BY <1>10 DEF AddRefused, Conclude, Fail, times, history, TypeOK, Report,
               OutcomeIsTrue
  <2> QED BY <2>1, <2>2, <2>3
<1>11. CASE Forget
  <2>1. TypeOK'
    BY <1>11 DEF Forget, times, TypeOK, Errors, Answers
  <2>2. Account'
    BY <1>11 DEF Forget, times, TypeOK, Account
  <2>3. Report'
    BY <1>11 DEF Forget, times, TypeOK, Report,
               OutcomeIsTrue
  <2> QED BY <2>1, <2>2, <2>3
<1>12. CASE UNCHANGED vars
  BY <1>12 DEF vars, TypeOK, Account, Report, OutcomeIsTrue, Wait
<1> QED
  BY <1>1, <1>2, <1>3, <1>4, <1>5, <1>6, <1>7, <1>8, <1>9, <1>10, <1>11,
     <1>12 DEF Next

LEMMA Inductive == Spec => []IInv
BY InitIInv, NextIInv, PTL DEF Spec

(* However long the timeout and the rounds are, the counted time never     *)
(* passes the timeout (elapsed in rr_upnp_discover).                       *)
THEOREM TypeCorrect == Spec => []TypeOK
<1>1. IInv => TypeOK
  BY DEF IInv
<1> QED BY <1>1, Inductive, PTL

(* The search of rr_upnp_discover ends at most the time of its fetches too *)
(* late, and gives up at most the time cut off from its waits too early.   *)
THEOREM SearchTimeBounded == Spec => []SearchTime
<1>1. IInv => SearchTime
  <2> SUFFICES ASSUME IInv PROVE SearchTime
    OBVIOUS
  <2>1. Wait \in Nat /\ elapsed + Wait \in 0 .. Timeout
    BY WaitType DEF IInv
  <2>2. clock <= Timeout + fetching
    BY <2>1, UpnpAssumption DEF IInv, TypeOK, Account
  <2>3. ended = "time" => clock - fetching >= Timeout - early
    BY UpnpAssumption DEF IInv, TypeOK, Account
  <2> QED BY <2>2, <2>3 DEF SearchTime
<1> QED BY <1>1, Inductive, PTL

(* Whatever the router answers, rr_upnp_prepare_mkwii_mapping returns true *)
(* only over a 200 in an answer of this call, leaves an error exactly when *)
(* it fails, and shows a SOAP error code only of a refusal in this call.   *)
THEOREM OutcomeTrue == Spec => []OutcomeIsTrue
<1>1. IInv => OutcomeIsTrue
  BY DEF IInv, Report
<1> QED BY <1>1, Inductive, PTL
=============================================================================
