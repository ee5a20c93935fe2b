-------------------------- MODULE RequestFsmProofs --------------------------
(***************************************************************************)
(* Facts about the table of arrows shared by the proofs about its users.   *)
(***************************************************************************)
EXTENDS RequestFsm, TLAPS

\* A status leads to itself and along at most four arrows.
LEMMA LeadsAlong ==
    ASSUME NEW a \in RequestStatus
    PROVE  /\ a \in Leads[a]
           /\ \A b \in RequestStatus : CanTransition(a, b) => b \in Leads[a]
           /\ \A b, c \in RequestStatus :
                CanTransition(a, b) /\ CanTransition(b, c) => c \in Leads[a]
           /\ \A b, c, d \in RequestStatus :
                CanTransition(a, b) /\ CanTransition(b, c) /\ CanTransition(c, d) => d \in Leads[a]
<1>1. Leads[a] = Hops(Hops(Hops(Hops({a}))))
  BY DEF Leads
<1>2. ASSUME NEW S, NEW x \in S PROVE x \in Hops(S)
  BY DEF Hops
<1>3. ASSUME NEW S, NEW x \in S, NEW y \in RequestStatus, CanTransition(x, y) PROVE y \in Hops(S)
  BY <1>3 DEF Hops
<1> DEFINE H1 == Hops({a})
           H2 == Hops(H1)
           H3 == Hops(H2)
<1>4. a \in H1 /\ \A b \in RequestStatus : CanTransition(a, b) => b \in H1
  BY <1>2, <1>3
<1> HIDE DEF H1
<1>5. /\ a \in H2 /\ \A b \in H1 : b \in H2
      /\ \A b \in H1, c \in RequestStatus : CanTransition(b, c) => c \in H2
  BY <1>2, <1>3, <1>4
<1> HIDE DEF H2
<1>6. /\ \A b \in H2 : b \in H3
      /\ \A c \in H2, d \in RequestStatus : CanTransition(c, d) => d \in H3
  BY <1>2, <1>3
<1> HIDE DEF H3
<1>7. Leads[a] = Hops(H3) /\ \A b \in H3 : b \in Leads[a]
  BY <1>1, <1>2 DEF H1, H2, H3
<1> QED BY <1>4, <1>5, <1>6, <1>7
=============================================================================
