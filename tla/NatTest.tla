------------------------------ MODULE NatTest ------------------------------
(***************************************************************************)
(* The NAT test (source/nat_test.c, source/stun.c): from the answers to a  *)
(* few STUN requests over UDP the launcher concludes how the NAT in front  *)
(* of the console maps and filters, and whether direct play will work.     *)
(*                                                                         *)
(* Two servers are asked for the console's public address, each once more  *)
(* if no answer came; then a third one, which can answer from another port *)
(* or address, shows what the NAT lets in. UDP may lose, delay, repeat and *)
(* reorder everything, so an answer may come in the wait for a later one.  *)
(***************************************************************************)
EXTENDS Naturals

CONSTANT NoAddress  \* no public address was found

Stages == {"server1", "server1again", "server2", "server2again", "binding",
           "change_ip_port", "change_port"}
Servers == {"server1", "server2", "behavior"}
Endpoints ==
  [ip : Servers \cup {"other", "any"}, port : {"main", "other", "any"}]

ASSUME NatTestAssumption == NoAddress \notin Endpoints

ServerOf(s) == CASE s \in {"server1", "server1again"} -> "server1"
                 [] s \in {"server2", "server2again"} -> "server2"
                 [] OTHER -> "behavior"

(* Where the request of a stage goes.                                      *)
Destination(s) == [ip |-> ServerOf(s), port |-> "main"]

(* The two flags are mixed up.                                             *)
SourceSwapped(s) ==
  CASE s = "change_port" -> [ip |-> "other", port |-> "other"]
    [] s = "change_ip_port" -> [ip |-> "behavior", port |-> "other"]
    [] OTHER -> Destination(s)

(* Where its answer comes from, as CHANGE-REQUEST asks.                    *)
Source(s) == CASE s = "change_ip_port" -> [ip |-> "other", port |-> "other"]
               [] s = "change_port" -> [ip |-> "behavior", port |-> "other"]
               [] OTHER -> Destination(s)

Mappings == {"independent", "symmetric"}
Filters == {"independent", "address", "port"}

VARIABLES
  nat,        \* the NAT: how it maps and what it lets in
  resolved,   \* the servers whose addresses were found
  offers,     \* the third server says where else it can answer from
  stage,      \* the request under way, or "done"
  waiting,    \* it has been sent
  sent,       \* the requests whose answers may be on their way
  public1,    \* public_ip_server1 and its port, or NoAddress
  public2,    \* the same of server 2
  filter,     \* nat_filter_type
  behavior,   \* stun_behavior
  missed      \* history: a request or an answer the NAT let in was lost

vars == <<nat, resolved, offers, stage, waiting, sent, public1, public2,
          filter, behavior, missed>>
network == <<nat, resolved, offers>>
results == <<public1, public2, filter, behavior>>

-----------------------------------------------------------------------------
(* The NAT *)

(* The public address of what the console sends to dst. All sockets of the *)
(* test are bound to the port of the game, so they share mappings.         *)
Mapped(dst) == IF nat.mapping = "independent"
               THEN [ip |-> "any", port |-> "any"] ELSE dst

(* Whom the console has written to from the mapping that dst sees.         *)
Contacted(dst) == IF nat.mapping = "independent"
                  THEN {Destination(s) : s \in sent} ELSE {dst}

LetsIn(from, dst) ==
  \/ nat.filter = "independent"
  \/ nat.filter = "address" /\ \E c \in Contacted(dst) : c.ip = from.ip
  \/ nat.filter = "port" /\ from \in Contacted(dst)

CanArrive(s) == s \in sent /\ LetsIn(Source(s), Destination(s))

-----------------------------------------------------------------------------
(* The test *)

Init ==
  /\ nat \in [mapping : Mappings, filter : Filters]
  /\ resolved \in SUBSET Servers
  /\ offers \in BOOLEAN
  /\ stage = "server1" /\ waiting = FALSE
  /\ sent = {}
  /\ public1 = NoAddress /\ public2 = NoAddress
  /\ filter = "unknown" /\ behavior = FALSE
  /\ missed = FALSE

Send ==
  /\ stage # "done" /\ ~waiting
  /\ ServerOf(stage) \in resolved
  /\ waiting' = TRUE
  /\ sent' = sent \cup {stage}
  /\ UNCHANGED <<stage, missed>> /\ UNCHANGED network /\ UNCHANGED results

(* The transaction ID is not looked at.                                    *)
AcceptsAny(s) == s \in Stages

(* Only the answer with the transaction ID of the request under way counts;*)
(* each request has its own.                                               *)
Accepts(s) == s = stage

(* The answer to request s is taken for the one to the request under way.  *)
Conclude(s) ==
  LET to == Destination(s)
  IN CASE stage \in {"server1", "server1again"} ->
            /\ public1' = Mapped(to)
            /\ stage' = "server2"
            /\ UNCHANGED <<public2, filter, behavior>>
       [] stage \in {"server2", "server2again"} ->
            /\ public2' = Mapped(to)
            /\ stage' = "binding"
            /\ UNCHANGED <<public1, filter, behavior>>
       [] stage = "binding" ->
            /\ stage' = IF offers THEN "change_ip_port" ELSE "done"
            /\ UNCHANGED results
       [] stage = "change_ip_port" ->
            /\ filter' = "independent" /\ behavior' = TRUE
            /\ stage' = "done"
            /\ UNCHANGED <<public1, public2>>
       [] stage = "change_port" ->
            /\ filter' = "address" /\ behavior' = TRUE
            /\ stage' = "done"
            /\ UNCHANGED <<public1, public2>>

(* A packet arrives; one that is not the answer is thrown away, and the    *)
(* wait goes on.                                                           *)
Receive(s) ==
  /\ stage # "done" /\ waiting
  /\ CanArrive(s) /\ Accepts(s)
  /\ Conclude(s)
  /\ waiting' = FALSE
  /\ UNCHANGED <<sent, missed>> /\ UNCHANGED network

OnlyPortFilter ==
  /\ stage' = "done"
  /\ filter' = "port" /\ behavior' = TRUE
  /\ UNCHANGED <<public1, public2>>

(* There is no answer: the first two servers are asked once more if their  *)
(* addresses are known, the test of the filter goes on or concludes.       *)
GiveUp ==
  LET GoOn(next) == stage' = next /\ UNCHANGED results
      known == ServerOf(stage) \in resolved
  IN CASE stage = "server1" /\ known -> GoOn("server1again")
       [] stage = "server1again" \/ (stage = "server1" /\ ~known) ->
            GoOn("server2")
       [] stage = "server2" /\ known -> GoOn("server2again")
       [] stage = "server2again" \/ (stage = "server2" /\ ~known) ->
            GoOn("binding")
       [] stage = "binding" -> GoOn("done")
       [] stage = "change_ip_port" -> GoOn("change_port")
       [] stage = "change_port" -> OnlyPortFilter

(* The ten seconds are over.                                               *)
Timeout ==
  /\ stage # "done" /\ waiting
  /\ GiveUp
  /\ waiting' = FALSE
  /\ missed' = (missed \/ CanArrive(stage))
  /\ UNCHANGED sent /\ UNCHANGED network

(* The server's address is not known, or the request cannot be sent.       *)
NotSent ==
  /\ stage # "done" /\ ~waiting
  /\ GiveUp
  /\ missed' = TRUE
  /\ UNCHANGED <<waiting, sent>> /\ UNCHANGED network

Done == stage = "done" /\ UNCHANGED vars

Next == Send \/ (\E s \in Stages : Receive(s)) \/ Timeout \/ NotSent \/ Done

Spec == Init /\ [][Next]_vars

-----------------------------------------------------------------------------
(* What is shown *)

NatType ==
  IF public1 = NoAddress \/ public2 = NoAddress THEN "unknown"
  ELSE IF public1 = public2 THEN "independent" ELSE "symmetric"

(* Only a filter by port is told apart.                                    *)
CompatibilityLoose ==
  CASE NatType = "symmetric" -> "bad"
    [] NatType = "independent" /\ filter = "port" -> "fair"
    [] NatType = "independent" /\ filter # "port" -> "good"
    [] OTHER -> "unknown"

P2PCompatibility ==
  CASE NatType = "symmetric" -> "bad"
    [] NatType = "independent" /\ filter \in {"independent", "address"}
         -> "good"
    [] NatType = "independent" /\ filter = "port" -> "fair"
    [] OTHER -> "unknown"

(* What the same rules say of the NAT as it is.                            *)
TrueCompatibility ==
  IF nat.mapping = "symmetric" THEN "bad"
  ELSE IF nat.filter = "port" THEN "fair" ELSE "good"

Strictness(f) == CASE f = "independent" -> 0
                   [] f = "address" -> 1
                   [] f = "port" -> 2

(* Whatever the network loses, repeats or delivers late, a mapping that is *)
(* shown is the NAT's (nat_test.c:197-204).                                *)
MappingIsTrue == NatType # "unknown" => NatType = nat.mapping

(* A filter that is shown is never more open than the NAT's: losses can    *)
(* only make it look stricter (nat_test.c:209-221).                        *)
FilterNotTooOpen ==
  filter # "unknown" => Strictness(filter) >= Strictness(nat.filter)

(* "GOOD" is only shown when direct play works, "BAD" only when it does not*)
(* (nat_test.c:224-234).                                                   *)
VerdictNotTooGood ==
  /\ P2PCompatibility = "good" => TrueCompatibility = "good"
  /\ P2PCompatibility = "bad" => TrueCompatibility = "bad"

(* When nothing was lost and the third server can answer from elsewhere,   *)
(* the test concludes what is true.                                        *)
ExactWithoutLoss ==
  stage = "done" /\ ~missed /\ offers =>
    /\ NatType = nat.mapping
    /\ filter = nat.filter
    /\ P2PCompatibility = TrueCompatibility
=============================================================================
