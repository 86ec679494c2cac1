-------------------------------- MODULE Upnp --------------------------------
(***************************************************************************)
(* The UPnP port mapping (source/upnp.c): before each launch of the game,  *)
(* and from the menu, the launcher looks for the router with one multicast *)
(* question and asks the device it finds to forward the port of the game.  *)
(*                                                                         *)
(* Any device may answer the question, any number of times.  For an answer *)
(* that says where the device describes itself the description is fetched, *)
(* which may take long.  The search counts the time it meant to wait; here *)
(* that count runs beside the real time.                                   *)
(***************************************************************************)
EXTENDS Naturals

CONSTANTS
  Timeout,   \* timeout_ms, as a number of ticks
  Poll,      \* poll_ms, the same
  MaxFetch   \* the longest time a fetch takes (a bound of the model)

ASSUME UpnpAssumption ==
  /\ Timeout \in Nat /\ Poll \in Nat \ {0} /\ MaxFetch \in Nat

VARIABLES
  pc,         \* "idle", "search", "fetch", "add" or "done"
  elapsed,    \* of the search: the time it has counted
  clock,      \* the time since it began
  early,      \* history: the part of its waits that answers cut off
  fetching,   \* history: the time spent on fetches
  mapped,     \* the router forwards the port to the console
  ok,         \* what prepare returns
  lastError,  \* rr_upnp_last_error_info: what is shown after a failure
  confirmed,  \* history: in this call the router has taken the mapping
  answer,     \* history: what has come of the router's answer in this call
  ended       \* history: how the search ended, "not" if it has not

vars == <<pc, elapsed, clock, early, fetching, mapped, ok, lastError,
          confirmed, answer, ended>>
times == <<elapsed, clock, early, fetching>>
outcome == <<ok, lastError>>
history == <<confirmed, answer, ended>>

Errors == {"none", "port", "no device", "no address", "no response",
           "rejected", "no code"}

(* The answer to the request: whether it is a yes, and whether what has    *)
(* come of it has " 200 " anywhere and a SOAP error code that can be read. *)
(* A yes that is cut off may lack its 200; a refusal may have a 200 in its *)
(* text.                                                                   *)
Answers == {a \in [taken : BOOLEAN, says200 : BOOLEAN, code : BOOLEAN] :
              a.taken => ~a.code}
NoAnswer == [taken |-> FALSE, says200 |-> FALSE, code |-> FALSE]

Init ==
  /\ pc = "idle"
  /\ elapsed = 0 /\ clock = 0 /\ early = 0 /\ fetching = 0
  /\ mapped \in BOOLEAN
  /\ ok = FALSE /\ lastError = "none"
  /\ confirmed = FALSE /\ answer = NoAnswer /\ ended = "not"

Fail(error) ==
  /\ pc' = "done"
  /\ ok' = FALSE /\ lastError' = error

(* The serial number gives the port; the question is sent once.            *)
Prepare ==
  /\ pc \in {"idle", "done"}
  /\ elapsed' = 0 /\ clock' = 0 /\ early' = 0 /\ fetching' = 0
  /\ confirmed' = FALSE /\ answer' = NoAnswer
  /\ \/ pc' = "search" /\ ok' = FALSE /\ lastError' = "none" /\ ended' = "not"
     \/ Fail("port") /\ ended' = "failed"
     \/ Fail("no device") /\ ended' = "failed"
  /\ UNCHANGED mapped

-----------------------------------------------------------------------------
(* rr_upnp_discover *)

Wait == IF Timeout - elapsed < Poll THEN Timeout - elapsed ELSE Poll

Searching == pc = "search" /\ elapsed < Timeout

(* The last wait is a whole one.                                           *)
CountWhole == elapsed' = elapsed + Poll

(* An answer is not counted.                                               *)
CountIfSilent == elapsed' = IF clock' = clock + Wait THEN elapsed + Wait
                                                    ELSE elapsed

(* At the end of a round it counts as if all of its wait had been waited,  *)
(* and as if there had been nothing else.                                  *)
Count == elapsed' = elapsed + Wait

Silence ==
  /\ Searching
  /\ clock' = clock + Wait
  /\ Count
  /\ UNCHANGED <<pc, early, fetching, mapped>>
  /\ UNCHANGED outcome /\ UNCHANGED history

(* An answer comes after time t of the wait, without a LOCATION or with    *)
(* one.                                                                    *)
Hear(t) ==
  /\ Searching /\ t \in 0 .. Wait
  /\ clock' = clock + t
  /\ early' = early + (Wait - t)
  /\ \/ pc' = pc /\ Count
     \/ pc' = "fetch" /\ UNCHANGED elapsed
  /\ UNCHANGED <<fetching, mapped>>
  /\ UNCHANGED outcome /\ UNCHANGED history

(* rr_fetch_control_url: there is a gateway's service in what was fetched, *)
(* or not, or nothing came.                                                *)
Fetch(t) ==
  /\ pc = "fetch"
  /\ clock' = clock + t
  /\ fetching' = fetching + t
  /\ \/ pc' = "add" /\ ended' = "found" /\ UNCHANGED elapsed
     \/ pc' = "search" /\ Count /\ UNCHANGED ended
  /\ UNCHANGED <<early, mapped, confirmed, answer>>
  /\ UNCHANGED outcome

GiveUp ==
  /\ pc = "search" /\ elapsed >= Timeout
  /\ Fail("no device")
  /\ ended' = "time"
  /\ UNCHANGED <<mapped, confirmed, answer>> /\ UNCHANGED times

SelectFails ==
  /\ Searching
  /\ Fail("no device")
  /\ ended' = "failed"
  /\ UNCHANGED <<mapped, confirmed, answer>> /\ UNCHANGED times

-----------------------------------------------------------------------------
(* rr_upnp_add_udp_mapping *)

(* A faulty Conclude: any answer is taken for a yes.                       *)
ConcludeAny(a) == pc' = "done" /\ ok' = TRUE /\ UNCHANGED lastError

(* A 200 anywhere in the answer is taken for a yes.                        *)
Conclude(a) ==
  \/ a.says200 /\ pc' = "done" /\ ok' = TRUE /\ UNCHANGED lastError
  \/ ~a.says200 /\ a.code /\ Fail("rejected")
  \/ ~a.says200 /\ ~a.code /\ Fail("no code")

NoLocalAddress ==
  /\ pc = "add"
  /\ Fail("no address")
  /\ UNCHANGED mapped /\ UNCHANGED times /\ UNCHANGED history

(* The request or its answer is lost: the router may have done it or not.  *)
AddUnanswered ==
  /\ pc = "add"
  /\ \/ mapped' = TRUE /\ confirmed' = TRUE
     \/ UNCHANGED <<mapped, confirmed>>
  /\ Fail("no response")
  /\ UNCHANGED <<answer, ended>> /\ UNCHANGED times

AddTaken ==
  /\ pc = "add"
  /\ mapped' = TRUE /\ confirmed' = TRUE
  /\ \E a \in Answers : a.taken /\ answer' = a /\ Conclude(a)
  /\ UNCHANGED ended /\ UNCHANGED times

AddRefused ==
  /\ pc = "add"
  /\ \E a \in Answers : ~a.taken /\ answer' = a /\ Conclude(a)
  /\ UNCHANGED <<mapped, confirmed, ended>> /\ UNCHANGED times

(* The lease is over, or the router restarts.                              *)
Forget ==
  /\ pc \in {"idle", "done"}
  /\ mapped /\ mapped' = FALSE
  /\ UNCHANGED <<pc, ok, lastError, confirmed, answer, ended>> /\ UNCHANGED times

Next ==
  \/ Prepare \/ Silence \/ GiveUp \/ SelectFails
  \/ \E t \in 0 .. Poll : Hear(t)
  \/ \E t \in 0 .. MaxFetch : Fetch(t)
  \/ NoLocalAddress \/ AddUnanswered \/ AddTaken \/ AddRefused \/ Forget

Spec == Init /\ [][Next]_vars

-----------------------------------------------------------------------------
(* Type invariant.                                                         *)
TypeOK ==
  /\ pc \in {"idle", "search", "fetch", "add", "done"}
  /\ elapsed \in 0 .. Timeout
  /\ clock \in Nat /\ early \in Nat /\ fetching \in Nat
  /\ mapped \in BOOLEAN /\ ok \in BOOLEAN
  /\ confirmed \in BOOLEAN /\ answer \in Answers
  /\ ended \in {"not", "found", "failed", "time"}
  /\ lastError \in Errors

(* The search ends at most the time of its fetches later than it was asked *)
(* to, and gives up at most the time sooner that answers came early: the   *)
(* counting of time in rr_upnp_discover, its last, shorter wait included.  *)
SearchTime ==
  /\ clock <= Timeout + fetching
  /\ ended = "time" => clock - fetching >= Timeout - early

(* rr_upnp_prepare_mkwii_mapping returns true only over an answer of this  *)
(* very call that says 200, there is an error to show exactly after a      *)
(* failure, never one of an earlier call, and an error code that is shown  *)
(* is one with which the router has just refused (upnp.c:17, 408-417,      *)
(* settings.c:308-337).                                                    *)
OutcomeIsTrue ==
  pc = "done" => /\ ok => answer.says200
                 /\ ok <=> lastError = "none"
                 /\ lastError = "rejected" => answer.code /\ ~confirmed

(* upnp.h:24: "Most recent UPnP diagnostic. Code 0 means no router SOAP    *)
(* error code."                                                            *)
ZeroMeansNoCode == pc = "done" /\ lastError # "rejected" => ~answer.code

(* What the comment in rr_upnp_discover says: "we keep listening until the *)
(* timeout actually elapses".                                              *)
ListensUntilTimeout == ended = "time" => clock >= Timeout
=============================================================================
