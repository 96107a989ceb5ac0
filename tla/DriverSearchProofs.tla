------------------------- MODULE DriverSearchProofs --------------------------
(***************************************************************************)
(* The search loops compute Fleet!Find, for a table of any size.           *)
(***************************************************************************)
EXTENDS DriverSearch, TLAPS

\* The drivers of the current pass that the loop has already passed by.
Seen == {j \in 1..(i - 1) : Candidate(drivers[j])}

\* best_index is the nearest of them, the earliest among equals, and min_dist is
\* how far it is.
HoldsNearest ==
    /\ best_index = 0 => Seen = {} /\ min_dist = Infinity
    /\ best_index # 0 => best_index \in Nearest(drivers, Seen)
                         /\ min_dist = FromBase(drivers[best_index])

TopFree == {j \in EligibleSlots(drivers, driver_count) : drivers[j].top = 1}

LoopInv ==
    /\ pass = "vip" => dispatch_mode # 0 /\ is_vip
    /\ pass = "basic" => dispatch_mode = 0 \/ ~is_vip \/ TopFree = {}
    /\ pass # "done" => HoldsNearest

IInv == TypeOK /\ LoopInv /\ AnswerIsNearest

\* Distances to base are natural numbers below the initial min_dist.
LEMMA Distances ==
    ASSUME TypeOK, NEW j \in 1..driver_count
    PROVE  /\ drivers[j] \in Driver
           /\ FromBase(drivers[j]) \in Nat
           /\ FromBase(drivers[j]) < Infinity
<1>1. drivers[j] \in Driver
  BY SizesAssumption DEF TypeOK, Slot
<1>2. drivers[j].place \in Place /\ Base \in Place
  BY <1>1, PlaceAssumption DEF Driver
<1> QED
  BY <1>1, <1>2, PlaceAssumption, SearchAssumption DEF FromBase

LEMMA InitInv == Init => IInv
<1> SUFFICES ASSUME Init PROVE IInv
  OBVIOUS
<1>1. TypeOK
  BY SearchAssumption, SizesAssumption DEF Init, TypeOK
<1>2. Seen = {}
  BY DEF Init, Seen
<1>3. LoopInv /\ AnswerIsNearest
  BY <1>2 DEF Init, LoopInv, HoldsNearest, AnswerIsNearest
<1> QED
  BY <1>1, <1>3 DEF IInv

\* One record of the loop.
LEMMA LookKeeps == ASSUME IInv, Look PROVE IInv'
<1>1. /\ i \in 1..driver_count /\ i \in Nat /\ driver_count \in Nat /\ i' = i + 1
      /\ UNCHANGED <<drivers, driver_count, dispatch_mode, is_vip, pass>>
  BY SizesAssumption DEF IInv, TypeOK, Look, input
<1>2. FromBase(drivers[i]) \in Nat /\ FromBase(drivers[i]) < Infinity
  BY <1>1, Distances DEF IInv
<1>3. TypeOK'
  BY <1>1, <1>2, SizesAssumption DEF IInv, TypeOK, Look
<1>4. \A j \in 1..(i - 1) : FromBase(drivers[j]) \in Nat
  BY <1>1, Distances DEF IInv
<1>5. Seen' = IF Candidate(drivers[i]) THEN Seen \cup {i} ELSE Seen
  <2>1. \A d : Candidate(d)' <=> Candidate(d)
    BY <1>1 DEF Candidate
  <2> QED
    BY <1>1 DEF Seen, Candidate
<1>6. /\ \A j \in Seen : j \in 1..(i - 1)
      /\ i \notin Seen
      /\ HoldsNearest
  BY <1>1 DEF Seen, IInv, LoopInv, Look
<1>7. HoldsNearest'
  <2>1. CASE Better(drivers[i])
    <3>1. /\ best_index' = i /\ min_dist' = FromBase(drivers[i])
          /\ Seen' = Seen \cup {i}
      BY <1>5, <2>1 DEF Look, Better
    <3>2. \A j \in Seen : FromBase(drivers[i]) < FromBase(drivers[j])
      <4>1. CASE best_index = 0
        BY <1>6, <4>1 DEF HoldsNearest
      <4>2. CASE best_index # 0
        <5>1. FromBase(drivers[i]) < FromBase(drivers[best_index])
          BY <1>6, <2>1, <4>2 DEF HoldsNearest, Better
        <5>2. \A j \in Seen : FromBase(drivers[best_index]) <= FromBase(drivers[j])
          BY <1>2, <1>4, <1>6, <4>2 DEF HoldsNearest, Nearest
        <5>3. best_index \in Seen
          BY <1>6, <4>2 DEF HoldsNearest, Nearest
        <5> QED
          BY <1>2, <1>4, <1>6, <5>1, <5>2, <5>3
      <4> QED
        BY <4>1, <4>2
    <3>3. i \in Nearest(drivers, Seen \cup {i})
      BY <1>1, <1>2, <3>2 DEF Nearest
    <3> QED
      BY <1>1, <3>1, <3>3 DEF HoldsNearest
  <2>2. CASE ~Better(drivers[i])
    <3>1. UNCHANGED <<best_index, min_dist>>
      BY <2>2 DEF Look
    <3>2. CASE ~Candidate(drivers[i])
      BY <1>1, <1>5, <1>6, <3>1, <3>2 DEF HoldsNearest
    <3>3. CASE Candidate(drivers[i])
      <4>1. ~(FromBase(drivers[i]) < min_dist)
        BY <2>2, <3>3 DEF Better
      <4>2. best_index # 0
        BY <1>2, <1>6, <4>1 DEF HoldsNearest
      <4>3. best_index \in Seen /\ FromBase(drivers[best_index]) <= FromBase(drivers[i])
        BY <1>2, <1>4, <1>6, <4>1, <4>2 DEF HoldsNearest, Nearest
      <4>4. best_index \in Nearest(drivers, Seen \cup {i})
        BY <1>1, <1>2, <1>4, <1>6, <4>2, <4>3 DEF HoldsNearest, Nearest
      <4> QED
        BY <1>1, <1>5, <1>6, <3>1, <3>3, <4>2, <4>4 DEF HoldsNearest
    <3> QED
      BY <3>2, <3>3
  <2> QED
    BY <2>1, <2>2
<1>8. LoopInv'
  BY <1>1, <1>7 DEF IInv, LoopInv, TopFree
<1>9. AnswerIsNearest'
  BY <1>1 DEF Look, AnswerIsNearest
<1> QED
  BY <1>3, <1>8, <1>9 DEF IInv

\* When the loop is over it has seen every candidate.
LEMMA SeenAll ==
    ASSUME IInv, pass # "done", i > driver_count
    PROVE  /\ pass = "basic" => Seen = EligibleSlots(drivers, driver_count)
           /\ pass = "vip" => Seen = TopFree
<1>1. i - 1 = driver_count
  BY SizesAssumption DEF IInv, TypeOK
<1> QED
  BY <1>1 DEF Seen, Candidate, TopFree, EligibleSlots

\* The VIP pass has found nobody.
LEMMA FallBackKeeps == ASSUME IInv, FallBack PROVE IInv'
<1>1. TopFree = {}
  BY SeenAll DEF FallBack, IInv, LoopInv, HoldsNearest
<1>2. TypeOK'
  BY SearchAssumption, SizesAssumption DEF IInv, TypeOK, FallBack, input
<1>3. Seen' = {}
  BY DEF FallBack, Seen
<1>4. LoopInv' /\ AnswerIsNearest'
  BY <1>1, <1>3 DEF FallBack, input, LoopInv, HoldsNearest, TopFree, AnswerIsNearest
<1> QED
  BY <1>2, <1>4 DEF IInv

\* The search is over.
LEMMA ReturnKeeps == ASSUME IInv, Return PROVE IInv'
<1>1. TypeOK'
  BY DEF IInv, TypeOK, Return, input
<1>2. LoopInv'
  BY DEF Return, LoopInv
<1>3. AnswerIsNearest'
  <2> DEFINE found == Find(dispatch_mode, drivers, driver_count, is_vip)
  <2>1. IF best_index = 0 THEN found = {} ELSE best_index \in found
    <3>1. CASE pass = "vip"
      <4>1. best_index \in Nearest(drivers, TopFree) /\ TopFree # {}
        BY <3>1, SeenAll DEF Return, IInv, LoopInv, HoldsNearest, Nearest
      <4>2. found = Nearest(drivers, TopFree)
        BY <3>1, <4>1 DEF IInv, LoopInv, Find, FindSmart, TopFree
      <4>3. best_index # 0
        BY <3>1 DEF Return
      <4> QED
        BY <4>1, <4>2, <4>3
    <3>2. CASE pass = "basic"
      <4>1. found = FindBasic(drivers, driver_count)
        BY <3>2 DEF IInv, LoopInv, Find, FindSmart, TopFree
      <4>2. found = Nearest(drivers, Seen)
        BY <3>2, <4>1, SeenAll DEF Return, FindBasic
      <4>3. HoldsNearest
        BY <3>2 DEF IInv, LoopInv
      <4> QED
        BY <4>2, <4>3 DEF HoldsNearest, Nearest
    <3> QED
      BY <3>1, <3>2 DEF Return, IInv, TypeOK
  <2> QED
    BY <2>1 DEF Return, input, AnswerIsNearest
<1> QED
  BY <1>1, <1>2, <1>3 DEF IInv

LEMMA InvAlways == Spec => []IInv
<1>1. IInv /\ [Next]_vars => IInv'
  <2> SUFFICES ASSUME IInv, [Next]_vars PROVE IInv'
    OBVIOUS
  <2>1. CASE UNCHANGED vars
    BY <2>1 DEF vars, input, IInv, TypeOK, LoopInv, HoldsNearest, Seen, TopFree,
                Candidate, AnswerIsNearest
  <2> QED
    BY <2>1, LookKeeps, FallBackKeeps, ReturnKeeps DEF Next
<1> QED
  BY <1>1, InitInv, PTL DEF Spec

\* The index stays inside the table and the answer is a slot of the table
\* (dispatch_algorithms.c:14-58).
THEOREM TypeCorrect == Spec => []TypeOK
<1>1. IInv => TypeOK
  BY DEF IInv
<1> QED
  BY <1>1, InvAlways, PTL

\* For every table of every size, basic and smart search answer with the nearest
\* free driver, of the VIP tier first when a VIP asks in smart mode.
THEOREM SearchCorrect == Spec => []AnswerIsNearest
<1>1. IInv => AnswerIsNearest
  BY DEF IInv
<1> QED
  BY <1>1, InvAlways, PTL

=============================================================================
