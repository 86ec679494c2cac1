--------------------------- MODULE NatTestProofs ---------------------------
(***************************************************************************)
(* What the NAT test shows is true whatever the network does: the proof    *)
(* does not bound how often a packet is repeated or how late it comes.     *)
(*                                                                         *)
(* The verdict is computed from the answers, so the invariant says of each *)
(* recorded result what must have been so for it to be recorded.           *)
(***************************************************************************)
EXTENDS NatTest, TLAPS

(* A recorded address is the one the NAT shows that server.                *)
AddressesTrue ==
  /\ public1 \in {NoAddress, Mapped(Destination("server1"))}
  /\ public2 \in {NoAddress, Mapped(Destination("server2"))}

(* A recorded filter let in what it is named after.                        *)
FilterTrue ==
  /\ filter \in Filters \cup {"unknown"}
  /\ filter = "independent" => nat.filter = "independent"
  /\ filter = "address" => nat.filter # "port"

StageInv == stage \in Stages \cup {"done"} /\ sent \subseteq Stages

NatInv == nat \in [mapping : Mappings, filter : Filters]

IInv == NatInv /\ StageInv /\ AddressesTrue /\ FilterTrue

(* The console only writes to the main ports of the three servers.         *)
LEMMA DestinationsMain ==
  \A s \in Stages : /\ Destination(s).port = "main"
                    /\ Destination(s).ip \in Servers
                    /\ Destination(s).ip # "other"
BY DEF Stages, Destination, ServerOf, Servers

(* An answer from another address and port comes in only through a NAT     *)
(* that lets in everything.                                                *)
LEMMA OtherAddressNeedsOpen ==
  ASSUME NatInv, StageInv, CanArrive("change_ip_port")
  PROVE  nat.filter = "independent"
<1>1. Source("change_ip_port") = [ip |-> "other", port |-> "other"]
  BY DEF Source
<1>2. Destination("change_ip_port").ip # "other"
  BY DestinationsMain DEF Stages
<1>3. \A c \in Contacted(Destination("change_ip_port")) : c.ip # "other"
  BY <1>2, DestinationsMain DEF Contacted, StageInv
<1> QED BY <1>1, <1>3 DEF CanArrive, LetsIn

(* An answer from another port comes in only through a NAT that does not   *)
(* filter by port.                                                         *)
LEMMA OtherPortNeedsAddress ==
  ASSUME NatInv, StageInv, CanArrive("change_port")
  PROVE  nat.filter # "port"
<1>1. Source("change_port") = [ip |-> "behavior", port |-> "other"]
  BY DEF Source
<1>2. Destination("change_port").port # "other"
  BY DestinationsMain DEF Stages
<1>3. \A c \in Contacted(Destination("change_port")) : c.port # "other"
  BY <1>2, DestinationsMain DEF Contacted, StageInv
<1> QED BY <1>1, <1>3 DEF CanArrive, LetsIn

LEMMA InitInv == Init => IInv
BY DEF Init, IInv, NatInv, StageInv, AddressesTrue, FilterTrue, Stages

(* Giving up records nothing but the strictest filter.                     *)
LEMMA GiveUpInv ==
  ASSUME IInv, stage # "done", GiveUp, UNCHANGED <<nat, sent>>
  PROVE  IInv'
<1>1. NatInv'
  BY DEF IInv, NatInv
<1>2. StageInv' /\ UNCHANGED <<public1, public2>>
           /\ (filter' = "port" \/ UNCHANGED filter)
  BY DEF IInv, StageInv, Stages, GiveUp, OnlyPortFilter, results, ServerOf
<1>3. AddressesTrue'
  BY <1>2 DEF IInv, AddressesTrue, Mapped, Destination, ServerOf
<1>4. FilterTrue'
  BY <1>2 DEF IInv, FilterTrue, Filters
<1> QED BY <1>1, <1>2, <1>3, <1>4 DEF IInv

(* An answer is recorded as what it shows.                                 *)
LEMMA ReceiveInv ==
  ASSUME IInv, NEW s \in Stages, Receive(s)
  PROVE  IInv'
<1>1. s = stage /\ CanArrive(s) /\ Conclude(s) /\ UNCHANGED <<nat, sent>>
  BY DEF Receive, Accepts, network
<1>2. NatInv'
  BY <1>1 DEF IInv, NatInv
<1>3. CASE stage \in {"server1", "server1again"}
  <2>1. /\ public1' = Mapped(Destination("server1"))
        /\ stage' = "server2" /\ UNCHANGED <<public2, filter>>
    BY <1>1, <1>3 DEF Conclude, Destination, ServerOf
  <2> QED BY <1>1, <1>2, <2>1
          DEF IInv, StageInv, AddressesTrue, FilterTrue, Stages, Mapped
<1>4. CASE stage \in {"server2", "server2again"}
  <2>1. /\ public2' = Mapped(Destination("server2"))
        /\ stage' = "binding" /\ UNCHANGED <<public1, filter>>
    BY <1>1, <1>4 DEF Conclude, Destination, ServerOf
  <2> QED BY <1>1, <1>2, <2>1
          DEF IInv, StageInv, AddressesTrue, FilterTrue, Stages, Mapped
<1>5. CASE stage = "binding"
  <2>1. /\ stage' \in {"change_ip_port", "done"}
        /\ UNCHANGED <<public1, public2, filter>>
    BY <1>1, <1>5 DEF Conclude, results
  <2> QED BY <1>1, <1>2, <2>1
          DEF IInv, StageInv, AddressesTrue, FilterTrue, Stages, Mapped
<1>6. CASE stage = "change_ip_port"
  <2>1. /\ filter' = "independent" /\ stage' = "done"
        /\ UNCHANGED <<public1, public2>>
    BY <1>1, <1>6 DEF Conclude
  <2>2. nat.filter = "independent"
    BY <1>1, <1>6, OtherAddressNeedsOpen DEF IInv
  <2> QED BY <1>1, <1>2, <2>1, <2>2
          DEF IInv, StageInv, AddressesTrue, FilterTrue, Filters, Mapped
<1>7. CASE stage = "change_port"
  <2>1. /\ filter' = "address" /\ stage' = "done"
        /\ UNCHANGED <<public1, public2>>
    BY <1>1, <1>7 DEF Conclude
  <2>2. nat.filter # "port"
    BY <1>1, <1>7, OtherPortNeedsAddress DEF IInv
  <2> QED BY <1>1, <1>2, <2>1, <2>2
          DEF IInv, StageInv, AddressesTrue, FilterTrue, Filters, Mapped
<1> QED BY <1>1, <1>3, <1>4, <1>5, <1>6, <1>7 DEF Stages

LEMMA NextInv == IInv /\ [Next]_vars => IInv'
<1> SUFFICES ASSUME IInv, [Next]_vars PROVE IInv'
    OBVIOUS
<1>1. CASE Send
  BY <1>1 DEF Send, IInv, NatInv, StageInv, AddressesTrue, FilterTrue, Mapped,
              network, results
<1>2. ASSUME NEW s \in Stages, Receive(s) PROVE IInv'
  BY <1>2, ReceiveInv
<1>3. CASE Timeout
  BY <1>3, GiveUpInv DEF Timeout, network
<1>4. CASE NotSent
  BY <1>4, GiveUpInv DEF NotSent, network
<1>5. CASE UNCHANGED vars
  BY <1>5 DEF vars, IInv, NatInv, StageInv, AddressesTrue, FilterTrue, Mapped
<1> QED BY <1>1, <1>2, <1>3, <1>4, <1>5 DEF Next, Done

LEMMA Invariance == Spec => []IInv
BY InitInv, NextInv, PTL DEF Spec

(* Two servers see one address exactly when the NAT maps independently.    *)
LEMMA MappingFollows == IInv => MappingIsTrue
BY NatTestAssumption DEF IInv, NatInv, AddressesTrue, MappingIsTrue, NatType,
   Mapped, Destination, ServerOf, Mappings, Endpoints, Servers

(* However packets are lost, repeated, delayed and reordered, the mapping  *)
(* shown is that of the NAT (nat_test.c:197-204).                          *)
THEOREM MappingShownIsTrue == Spec => []MappingIsTrue
<1>1. IInv => MappingIsTrue
  BY MappingFollows
<1> QED BY <1>1, Invariance, PTL

(* The filter shown is never more open than that of the NAT                *)
(* (nat_test.c:209-221).                                                   *)
THEOREM FilterShownNotTooOpen == Spec => []FilterNotTooOpen
<1>1. IInv => FilterNotTooOpen
  BY DEF IInv, NatInv, FilterTrue, FilterNotTooOpen, Strictness, Filters
<1> QED BY <1>1, Invariance, PTL

(* "GOOD" and "BAD" are only shown where they are true                     *)
(* (nat_test.c:224-234).                                                   *)
THEOREM VerdictShownNotTooGood == Spec => []VerdictNotTooGood
<1>1. IInv => MappingIsTrue
  BY MappingFollows
<1>2. IInv /\ MappingIsTrue => VerdictNotTooGood
  BY DEF IInv, NatInv, FilterTrue, MappingIsTrue, VerdictNotTooGood,
     P2PCompatibility, TrueCompatibility, Filters, Mappings
<1> QED BY <1>1, <1>2, Invariance, PTL

-----------------------------------------------------------------------------
(* Without losses the verdict is exact: what had to come did come, so an   *)
(* answer that did not come was kept out by the NAT.                       *)

Asking1 == {"server1", "server1again"}
Asking2 == {"server2", "server2again"}

(* What the stage tells of an exchange in which nothing was missed.        *)
LossFree ==
  /\ stage \notin Asking1 => public1 = Mapped(Destination("server1"))
  /\ stage \notin Asking1 \cup Asking2 =>
       public2 = Mapped(Destination("server2"))
  /\ stage = "change_port" => nat.filter # "independent"
  /\ stage = "done" /\ offers => filter = nat.filter

ExactInv ==
  /\ waiting => stage \in sent
  /\ missed \in BOOLEAN
  /\ ~missed => LossFree

(* The answer of a server from where it was asked always comes in.         *)
LEMMA DirectAnswersComeIn ==
  ASSUME NatInv, NEW s \in Stages, s \in sent, Source(s) = Destination(s)
  PROVE  CanArrive(s)
<1>1. Destination(s) \in Contacted(Destination(s))
  BY DEF Contacted
<1> QED BY <1>1 DEF CanArrive, LetsIn, NatInv, Filters

(* A NAT that filters by address lets the third server's other port in.    *)
LEMMA OtherPortComesIn ==
  ASSUME NatInv, "change_port" \in sent, nat.filter # "port"
  PROVE  CanArrive("change_port")
<1>1. Destination("change_port") \in Contacted(Destination("change_port"))
  BY DEF Contacted
<1>2. Destination("change_port").ip = Source("change_port").ip
  BY DEF Destination, Source, ServerOf
<1> QED BY <1>1, <1>2 DEF CanArrive, LetsIn, NatInv, Filters

LEMMA TimeoutExact ==
  ASSUME IInv, ExactInv, Timeout
  PROVE  ExactInv'
<1>1. /\ stage \in Stages /\ stage \in sent /\ GiveUp
      /\ waiting' = FALSE /\ missed' = (missed \/ CanArrive(stage))
      /\ UNCHANGED <<nat, offers>>
  BY DEF Timeout, network, IInv, StageInv, ExactInv
<1>2. SUFFICES ASSUME ~missed, ~CanArrive(stage) PROVE LossFree'
  BY <1>1 DEF ExactInv
<1>3. Source(stage) # Destination(stage)
  BY <1>1, <1>2, DirectAnswersComeIn DEF IInv
<1>4. stage \in {"change_ip_port", "change_port"}
  BY <1>1, <1>3 DEF Source, Stages
<1>5. LossFree
  BY <1>2 DEF ExactInv
<1>6. CASE stage = "change_ip_port"
  <2>1. stage' = "change_port" /\ UNCHANGED <<public1, public2, filter>>
    BY <1>1, <1>6 DEF GiveUp, results
  <2>2. nat.filter # "independent"
    BY <1>1, <1>2, <1>6 DEF CanArrive, LetsIn
  <2> QED BY <1>1, <1>5, <1>6, <2>1, <2>2
          DEF LossFree, Mapped, Asking1, Asking2
<1>7. CASE stage = "change_port"
  <2>1. /\ stage' = "done" /\ filter' = "port"
        /\ UNCHANGED <<public1, public2>>
    BY <1>1, <1>7 DEF GiveUp, OnlyPortFilter
  <2>2. nat.filter = "port"
    BY <1>1, <1>2, <1>7, OtherPortComesIn DEF IInv
  <2> QED BY <1>1, <1>5, <1>7, <2>1, <2>2
          DEF LossFree, Mapped, Asking1, Asking2
<1> QED BY <1>4, <1>6, <1>7

LEMMA ReceiveExact ==
  ASSUME IInv, ExactInv, NEW s \in Stages, Receive(s)
  PROVE  ExactInv'
<1>1. /\ s = stage /\ CanArrive(s) /\ Conclude(s) /\ waiting' = FALSE
      /\ UNCHANGED <<nat, offers, missed>>
  BY DEF Receive, Accepts, network
<1>2. SUFFICES ASSUME LossFree PROVE LossFree'
  BY <1>1 DEF ExactInv
<1> USE DEF LossFree, Mapped, Asking1, Asking2
<1>3. CASE stage \in Asking1
  <2>1. public1' = Mapped(Destination("server1")) /\ stage' = "server2"
    BY <1>1, <1>3 DEF Conclude, Destination, ServerOf
  <2> QED BY <1>1, <2>1
<1>4. CASE stage \in Asking2
  <2>1. /\ public2' = Mapped(Destination("server2"))
        /\ stage' = "binding" /\ public1' = public1
    BY <1>1, <1>4 DEF Conclude, Destination, ServerOf
  <2> QED BY <1>1, <1>2, <1>4, <2>1
<1>5. CASE stage = "binding"
  <2>1. /\ stage' = IF offers THEN "change_ip_port" ELSE "done"
        /\ UNCHANGED <<public1, public2, filter>>
    BY <1>1, <1>5 DEF Conclude, results
  <2> QED BY <1>1, <1>2, <1>5, <2>1
<1>6. CASE stage = "change_ip_port"
  <2>1. /\ filter' = "independent" /\ stage' = "done"
        /\ UNCHANGED <<public1, public2>>
    BY <1>1, <1>6 DEF Conclude
  <2>2. nat.filter = "independent"
    BY <1>1, <1>6, OtherAddressNeedsOpen DEF IInv
  <2> QED BY <1>1, <1>2, <1>6, <2>1, <2>2
<1>7. CASE stage = "change_port"
  <2>1. /\ filter' = "address" /\ stage' = "done"
        /\ UNCHANGED <<public1, public2>>
    BY <1>1, <1>7 DEF Conclude
  <2>2. nat.filter # "port"
    BY <1>1, <1>7, OtherPortNeedsAddress DEF IInv
  <2>3. nat.filter = "address"
    BY <1>2, <1>7, <2>2 DEF IInv, NatInv, Filters
  <2> QED BY <1>1, <1>2, <1>7, <2>1, <2>3
<1> QED BY <1>1, <1>3, <1>4, <1>5, <1>6, <1>7 DEF Stages

LEMMA NextExact == IInv /\ ExactInv /\ [Next]_vars => ExactInv'
<1> SUFFICES ASSUME IInv, ExactInv, [Next]_vars PROVE ExactInv'
    OBVIOUS
<1>1. CASE Send
  BY <1>1 DEF Send, ExactInv, LossFree, Mapped, network, results
<1>2. ASSUME NEW s \in Stages, Receive(s) PROVE ExactInv'
  BY <1>2, ReceiveExact
<1>3. CASE Timeout
  BY <1>3, TimeoutExact
<1>4. CASE NotSent
  BY <1>4 DEF NotSent, ExactInv
<1>5. CASE UNCHANGED vars
  BY <1>5 DEF vars, ExactInv, LossFree, Mapped
<1> QED BY <1>1, <1>2, <1>3, <1>4, <1>5 DEF Next, Done

(* When no request and no answer that the NAT lets in is lost, and the     *)
(* third server can answer from elsewhere, the mapping, the filter and the *)
(* verdict are those of the NAT (nat_test.c:197-234).                      *)
THEOREM VerdictExactWithoutLoss == Spec => []ExactWithoutLoss
<1>1. Init => ExactInv
  BY DEF Init, ExactInv, LossFree, Asking1
<1>2. IInv /\ ExactInv => ExactWithoutLoss
  <2> SUFFICES ASSUME IInv, LossFree, stage = "done", offers
      PROVE  /\ NatType = nat.mapping
             /\ filter = nat.filter
             /\ P2PCompatibility = TrueCompatibility
    BY DEF ExactInv, ExactWithoutLoss
  <2>1. /\ public1 = Mapped(Destination("server1"))
        /\ public2 = Mapped(Destination("server2"))
        /\ filter = nat.filter
    BY DEF LossFree, Asking1, Asking2
  <2>2. NatType = nat.mapping
    BY <2>1, NatTestAssumption DEF IInv, NatInv, NatType, Mapped, Destination,
       ServerOf, Mappings, Endpoints, Servers
  <2> QED BY <2>1, <2>2
          DEF IInv, NatInv, P2PCompatibility, TrueCompatibility, Filters, Mappings
<1> QED BY <1>1, <1>2, NextExact, Invariance, InitInv, NextInv, PTL DEF Spec
=============================================================================
