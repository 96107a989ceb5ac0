--------------------------- MODULE NavigationProofs --------------------------
(***************************************************************************)
(* Where a driver can be, for any destinations and any of the starts main, *)
(* ipc_init and a join give it: on the map from its first tick on, in a    *)
(* wall for two reasons only, and never there for longer than a tick.      *)
(***************************************************************************)
EXTENDS Navigation, TLAPS

Point == [Axis -> Int]
Driver == [at : Point, cell : Point, has_target : BOOLEAN, target : Destination \cup {Base}]

\* WallOnlyBy of a driver in the middle of a tick.
Excused(d) ==
    IsObstacle(d.cell) =>
        \/ d.at \in Start \cup Destination
        \/ /\ \A a \in Axis : d.at[a] % Unit = 0
           /\ ~IsObstacle([a \in Axis |-> d.at[a] \div Unit])
\* What is read back is at most a cell off.
Near(d) == \A a \in Axis : d.at[a] - Unit * d.cell[a] \in -Unit..Unit
Sound(d) == d \in Driver /\ Excused(d) /\ Near(d)

-----------------------------------------------------------------------------
LEMMA SizeIs == Size["x"] = 40 /\ Size["y"] = 20 /\ Axis = {"x", "y"} /\ Size.x = 40 /\ Size.y = 20
  BY DEF Size, Axis

\* Starts are points, and destinations points between the map's lines.
LEMMA Drawn ==
    /\ \A p \in Destination \cup {Base} :
          p \in Point /\ \A a \in Axis : p[a] \in 0..(Unit * Size[a] - 1)
    /\ Start \subseteq Point
    /\ Base \in Point
<1>1. Start \subseteq Point
  <2>1. Square \subseteq Point /\ Line \subseteq Point /\ Unset \in Point
    BY DEF Square, Line, Unset, Point, Axis
  <2> QED
    BY <2>1, NavigationAssumption
<1>2. \A p \in Destination : p \in Point /\ p["x"] \in 0..179 /\ p["y"] \in 0..89
  BY NavigationAssumption DEF Point, Axis
<1>3. Base \in Point /\ \A a \in Axis : Base[a] = 0
  BY DEF Base, Point, Axis
<1> QED
  BY <1>1, <1>2, <1>3, SizeIs DEF Unit

\* (int) drops less than a cell, toward zero.
LEMMA Truncated ==
    ASSUME NEW n \in Int
    PROVE  /\ Truncate(10 * n) \in Int
           /\ n - 5 * Truncate(10 * n) \in -4..4
           /\ n >= 0 => Truncate(10 * n) = n \div 5
<1>1. n >= 0 => (10 * n) \div 50 = n \div 5
  OBVIOUS
<1>2. ~(n >= 0) => (-(10 * n)) \div 50 = (-n) \div 5
  OBVIOUS
<1> QED
  BY <1>1, <1>2 DEF Truncate, Unit

\* A coordinate reads as a cell it is in, or at the edge of.
LEMMA ReadsNear ==
    ASSUME NEW p \in Point
    PROVE  /\ CellOf(p) \in Point
           /\ \A a \in Axis : p[a] - Unit * CellOf(p)[a] \in -Unit..Unit
<1>1. ASSUME NEW a \in Axis
      PROVE  CellOf(p)[a] \in Int /\ p[a] - Unit * CellOf(p)[a] \in -Unit..Unit
  <2>1. PICK n \in Int : n = p[a]
    BY DEF Point
  <2>2. PICK c \in Int : c = Truncate(10 * n) /\ n - 5 * c \in -4..4
    BY Truncated
  <2>3. CellOf(p)[a] = IF n % Unit = 0 /\ c \in Short[a] THEN c - 1 ELSE c
    BY <2>1, <2>2 DEF CellOf
  <2>4. n % 5 = 0 => n - 5 * c = 0
    BY <2>2
  <2> QED
    BY <2>1, <2>2, <2>3, <2>4 DEF Unit
<1>2. CellOf(p) \in Point
  BY <1>1 DEF CellOf, Point
<1> QED
  BY <1>1, <1>2

\* A coordinate between the lines reads as a cell of the map.
LEMMA ReadsOnMap ==
    ASSUME NEW p \in Point, \A a \in Axis : p[a] \in 0..(Unit * Size[a] - 1)
    PROVE  /\ CellOf(p) \in Point
           /\ \A a \in Axis : /\ CellOf(p)[a] \in 0..(Size[a] - 1)
                             /\ p[a] - Unit * CellOf(p)[a] \in 0..Unit
<1>1. \A a \in Axis : p[a] \in Int /\ p[a] \div 5 \in 0..(Size[a] - 1)
  BY SizeIs DEF Point, Unit
<1>2. \A a \in Axis : 0 \notin Short[a]
  BY DEF Short, Axis
<1>3. ASSUME NEW a \in Axis
      PROVE  CellOf(p)[a] \in 0..(Size[a] - 1) /\ p[a] - Unit * CellOf(p)[a] \in 0..Unit
  <2>1. Size[a] \in Nat
    BY SizeIs
  <2>2. CellOf(p)[a] = IF p[a] % Unit = 0 /\ p[a] \div Unit \in Short[a] THEN (p[a] \div Unit) - 1
                       ELSE p[a] \div Unit
    <3>1. p[a] \in Int /\ p[a] >= 0
      BY SizeIs DEF Unit
    <3>2. Truncate(10 * p[a]) = p[a] \div Unit
      BY <3>1, Truncated DEF Unit
    <3> QED
      BY <3>2 DEF CellOf
  <2>3. p[a] \div 5 \in Short[a] => p[a] \div 5 # 0
    BY <1>2
  <2>4. CellOf(p)[a] \in 0..(Size[a] - 1)
    BY <1>1, <2>1, <2>2, <2>3 DEF Unit
  <2>5. p[a] - Unit * CellOf(p)[a] \in 0..Unit
    <3>1. p[a] = 5 * (p[a] \div 5) + (p[a] % 5) /\ p[a] % 5 \in 0..4
      BY <1>1
    <3> QED
      BY <1>1, <2>2, <3>1 DEF Unit
  <2> QED
    BY <2>4, <2>5
<1>4. CellOf(p) \in Point
  <2>1. \A a \in Axis : CellOf(p)[a] \in Int
    BY <1>3, SizeIs
  <2> QED
    BY <2>1 DEF CellOf, Point
<1> QED
  BY <1>3, <1>4

\* Base is free and reads back as itself.
LEMMA BaseFree == CellOf(Base) = Base /\ ~IsObstacle(Base)
<1>1. \A a \in Axis : Base[a] = 0 /\ 0 \notin Short[a]
  BY DEF Base, Short, Axis
<1>2. CellOf(Base) = [a \in Axis |-> 0]
  <2>1. Truncate(10 * 0) = 0
    BY DEF Truncate, Unit
  <2> QED
    BY <1>1, <2>1 DEF CellOf
<1>3. Base.x = 0 /\ Base.y = 0
  BY DEF Base, Axis
<1>4. <<0, 0>> \notin Wall
  BY DEF Wall
<1> QED
  BY <1>1, <1>2, <1>3, <1>4, SizeIs DEF Base, IsObstacle

\* Every free cell of the map has a free one to its left or right.
LEMMA WayOut ==
    ASSUME NEW c \in Point, ~IsObstacle(c)
    PROVE  ~IsObstacle(Neighbours(c)[3]) \/ ~IsObstacle(Neighbours(c)[4])
<1> DEFINE l == [c EXCEPT !.x = @ - 1]
           r == [c EXCEPT !.x = @ + 1]
<1>1. /\ Neighbours(c)[3] = l /\ Neighbours(c)[4] = r
      /\ c.x \in Int /\ l.x = c.x - 1 /\ r.x = c.x + 1
      /\ c.y \in Int /\ l.y = c.y /\ r.y = c.y
  BY DEF Neighbours, Point, Axis
<1>2. \A q : IsObstacle(q) <=> q.x \notin 0..39 \/ q.y \notin 0..19 \/ <<q.x, q.y>> \in Wall
  BY SizeIs DEF IsObstacle
<1>3. \A x, y \in Int :
        <<x, y>> \in Wall <=>
            \/ x = 20 /\ y \in 5..14
            \/ x \in 5..9 /\ y \in 3..6
            \/ x \in 30..34 /\ y \in 12..15
  BY DEF Wall
<1> HIDE DEF l, r
<1>4. PICK x \in Int, y \in Int : x = c.x /\ y = c.y
  BY <1>1
<1> DEFINE Free(u) == /\ u \in 0..39 /\ y \in 0..19
                      /\ ~(u = 20 /\ y \in 5..14)
                      /\ ~(u \in 5..9 /\ y \in 3..6)
                      /\ ~(u \in 30..34 /\ y \in 12..15)
<1>5. ASSUME NEW q, NEW u \in Int, q.x = u, q.y = y
      PROVE  Free(u) => ~IsObstacle(q)
  <2>1. IsObstacle(q) <=> u \notin 0..39 \/ y \notin 0..19 \/ <<u, y>> \in Wall
    BY <1>2, <1>5
  <2>2. <<u, y>> \in Wall <=>
            \/ u = 20 /\ y \in 5..14
            \/ u \in 5..9 /\ y \in 3..6
            \/ u \in 30..34 /\ y \in 12..15
    BY <1>3
  <2> QED
    BY <2>1, <2>2
<1>6. Free(x)
  <2>1. x \in 0..39 /\ y \in 0..19 /\ <<x, y>> \notin Wall
    BY <1>2, <1>4
  <2> QED
    BY <1>3, <2>1
<1>7. Free(x - 1) \/ Free(x + 1)
  BY <1>6
<1> HIDE DEF Free
<1>8. ~IsObstacle(l) \/ ~IsObstacle(r)
  BY <1>1, <1>4, <1>5, <1>7
<1> QED
  BY <1>1, <1>8

\* Some of up to four neighbours is the nearest.
LEMMA Least ==
    ASSUME NEW S, S \subseteq 1..4, S # {}, NEW h, \A i \in S : h[i] \in Int
    PROVE  \E i \in S : \A j \in S : h[i] <= h[j]
<1> DEFINE Has(T) == T = {} \/ \E i \in T : \A j \in T : h[i] <= h[j]
           To(k) == S \cap 1..k
<1>1. ASSUME NEW T \in SUBSET S, Has(T), NEW x \in S
      PROVE  Has(T \cup {x})
  <2>1. CASE T = {}
    <3>1. T \cup {x} = {x} /\ h[x] <= h[x]
      BY <2>1
    <3> QED
      BY <3>1
  <2>2. CASE T # {}
    <3>1. PICK i \in T : \A j \in T : h[i] <= h[j]
      BY <1>1, <2>2
    <3>2. CASE h[i] <= h[x]
      BY <3>1, <3>2
    <3>3. CASE ~(h[i] <= h[x])
      <4>1. \A j \in T \cup {x} : h[x] <= h[j]
        BY <3>1, <3>3
      <4> QED
        BY <4>1
    <3> QED
      BY <3>2, <3>3
  <2> QED
    BY <2>1, <2>2
<1>2. Has(To(0))
  BY DEF Has
<1> HIDE DEF Has
<1>3. ASSUME NEW k \in 0..3, Has(To(k))
      PROVE  Has(To(k + 1))
  <2>1. To(k + 1) = IF k + 1 \in S THEN To(k) \cup {k + 1} ELSE To(k)
    OBVIOUS
  <2> QED
    BY <1>1, <1>3, <2>1
<1>4. Has(To(0 + 1)) /\ Has(To(1 + 1)) /\ Has(To(2 + 1)) /\ Has(To(3 + 1))
  <2> HIDE DEF To
  <2> QED
    BY <1>2, <1>3
<1>5. To(3 + 1) = S
  <2>1. 1..(3 + 1) = 1..4
    OBVIOUS
  <2> QED
    BY <2>1
<1> QED
  BY <1>4, <1>5 DEF Has

\* From a free cell that is not the target the path finder takes a step, to a free one.
LEMMA StepTaken ==
    ASSUME NEW start \in Point, ~IsObstacle(start), NEW target \in Point, start # target
    PROVE  LET next == GetNextStep(start, target)
           IN  next # start /\ next \in Point /\ ~IsObstacle(next)
<1> DEFINE way == Neighbours(start)
           h == [i \in 1..4 |-> CalculateH(way[i], target)]
           open == {i \in 1..4 : ~IsObstacle(way[i])}
           best == {i \in open : \A j \in open : CalculateH(way[i], target) <= CalculateH(way[j], target)}
<1>1. \A i \in 1..4 : way[i] \in Point /\ way[i] # start
  BY DEF Neighbours, Point, Axis
<1>2. h \in [1..4 -> Int]
  BY <1>1 DEF CalculateH, Gap, Point, Axis
<1>3. best = {i \in open : \A j \in open : h[i] <= h[j]}
  OBVIOUS
<1>4. open # {} /\ open \subseteq 1..4
  BY WayOut
<1>5. best # {}
  <2> HIDE DEF h, open, best
  <2>1. PICK i \in open : \A j \in open : h[i] <= h[j]
    BY <1>2, <1>4, Least
  <2> QED
    BY <1>3, <2>1
<1>6. Min(best) \in best
  <2>1. best \subseteq 1..4
    OBVIOUS
  <2> HIDE DEF best
  <2> DEFINE id == [i \in 1..4 |-> i]
  <2>2. \A i \in best : id[i] \in Int /\ id[i] = i
    BY <2>1
  <2> HIDE DEF id
  <2>3. PICK i \in best : \A j \in best : id[i] <= id[j]
    BY <1>5, <2>1, <2>2, Least
  <2>4. \A j \in best : i <= j
    BY <2>2, <2>3
  <2> QED
    BY <2>4 DEF Min
<1>7. GetNextStep(start, target) = way[Min(best)]
  <2>1. GetNextStep(start, target) = IF start = target \/ best = {} THEN start ELSE way[Min(best)]
    BY DEF GetNextStep
  <2> HIDE DEF best, way
  <2> QED
    BY <1>5, <2>1
<1>8. Min(best) \in open
  BY <1>6
<1> HIDE DEF best, way
<1> QED
  BY <1>1, <1>7, <1>8

\* Whoever reads as being where its target reads as is near enough to have arrived.
LEMMA FarReadsElsewhere ==
    ASSUME NEW d, Sound(d), SquaredDistance(d.at, d.target) >= Close * Close
    PROVE  d.cell # CellOf(d.target)
<1> SUFFICES ASSUME d.cell = CellOf(d.target) PROVE FALSE
  OBVIOUS
<1>1. d \in Driver /\ d.at \in Point /\ d.cell \in Point /\ d.target \in Point
  BY Drawn DEF Sound, Driver
<1>2. \A a \in Axis : /\ d.at[a] - 5 * d.cell[a] \in -5..5
                       /\ d.target[a] - 5 * d.cell[a] \in 0..5
  <2>1. d.target \in Destination \cup {Base}
    BY <1>1 DEF Driver
  <2> QED
    BY <2>1, Drawn, ReadsOnMap DEF Sound, Near, Unit
<1>3. \A a \in Axis : d.at[a] - d.target[a] \in -10..10
  BY <1>1, <1>2 DEF Point
<1>4. \A n \in -10..10 : n * n <= 100
  <2> TAKE n \in -10..10
  <2>1. (10 - n) * (10 + n) >= 0
    BY Z3
  <2> QED
    BY <2>1, Z3
<1>5. /\ d.at.x - d.target.x \in -10..10 /\ d.at.y - d.target.y \in -10..10
  BY <1>3 DEF Axis
<1>6. SquaredDistance(d.at, d.target) <= 200
  <2> DEFINE m == d.at.x - d.target.x
             n == d.at.y - d.target.y
  <2>1. m * m <= 100 /\ n * n <= 100 /\ m * m \in Int /\ n * n \in Int
    BY <1>4, <1>5
  <2> HIDE DEF m, n
  <2>2. m * m + n * n <= 200
    BY <2>1
  <2> QED
    BY <2>2 DEF SquaredDistance, m, n
<1>7. SquaredDistance(d.at, d.target) \in Int
  BY <1>1 DEF SquaredDistance, Point, Axis
<1> QED
  BY <1>6, <1>7 DEF Close

-----------------------------------------------------------------------------
\* Whoever is sound and reads as in a cell of the map is on it.
LEMMA CellOnMap ==
    ASSUME NEW d, Sound(d), \A a \in Axis : d.cell[a] \in 0..(Size[a] - 1)
    PROVE  OnTheMap(d)
<1> SUFFICES ASSUME NEW a \in Axis
             PROVE  d.at[a] \in -Unit..(Unit * Size[a])
  BY DEF OnTheMap
<1>1. PICK c \in Int, n \in Int : c = d.cell[a] /\ n = d.at[a]
  BY DEF Sound, Driver, Point
<1>2. n - 5 * c \in -5..5 /\ c \in 0..(Size[a] - 1) /\ Size[a] \in {20, 40}
  BY <1>1, SizeIs DEF Sound, Near, Unit
<1> QED
  BY <1>1, <1>2 DEF Unit

LEMMA FreeOnMap ==
    ASSUME NEW d, Sound(d), ~IsObstacle(d.cell)
    PROVE  OnTheMap(d)
BY CellOnMap DEF IsObstacle

\* Writing a coordinate keeps a driver sound, if the place is a start or a
\* destination, or a whole cell that is free.
LEMMA WrittenSound ==
    ASSUME NEW d \in Driver, NEW p \in Point, NEW h \in BOOLEAN,
           \/ p \in Start \cup Destination
           \/ ~IsObstacle(CellOf(p))
           \/ (\A a \in Axis : p[a] % Unit = 0) /\ ~IsObstacle([a \in Axis |-> p[a] \div Unit])
    PROVE  /\ Sound(Written(d, p))
           /\ Sound([Written(d, p) EXCEPT !.has_target = h])
<1> DEFINE e == Written(d, p)
           f == [e EXCEPT !.has_target = h]
<1>1. /\ CellOf(p) \in Point
      /\ \A a \in Axis : p[a] - Unit * CellOf(p)[a] \in -Unit..Unit
  BY ReadsNear
<1>2. /\ e \in Driver /\ e.at = p /\ e.cell = CellOf(p)
      /\ f \in Driver /\ f.at = p /\ f.cell = CellOf(p)
  BY <1>1 DEF Written, Driver
<1> HIDE DEF e, f
<1>3. Excused(e) /\ Excused(f)
  BY <1>2 DEF Excused
<1>4. Near(e) /\ Near(f)
  BY <1>1, <1>2 DEF Near
<1> QED
  BY <1>2, <1>3, <1>4 DEF Sound, e, f

\* After the respawn a driver is sound, on the map and outside every wall; whoever was
\* not has no ride.
LEMMA RespawnSound ==
    ASSUME NEW d, Sound(d)
    PROVE  /\ Sound(Respawn(d)) /\ ~IsObstacle(Respawn(d).cell)
           /\ IF IsObstacle(d.cell) THEN ~Respawn(d).has_target ELSE Respawn(d) = d
<1>1. CASE IsObstacle(d.cell)
  <2>1. Respawn(d) = [Written(d, Base) EXCEPT !.has_target = FALSE]
    BY <1>1 DEF Respawn
  <2>2. Sound(Respawn(d))
    BY <2>1, WrittenSound, BaseFree, Drawn DEF Sound
  <2>3. Respawn(d).cell = Base /\ Respawn(d).has_target = FALSE
    BY <2>1, BaseFree DEF Sound, Driver, Written
  <2> QED
    BY <1>1, <2>2, <2>3, BaseFree
<1>2. CASE ~IsObstacle(d.cell)
  BY <1>2 DEF Respawn
<1> QED
  BY <1>1, <1>2

LEMMA TruncatedNear ==
    ASSUME NEW at \in Int, NEW e \in {-1, 1}
    PROVE  at - 5 * Truncate(10 * at + e) \in -5..5
  BY DEF Truncate, Unit

\* The walk keeps a driver sound, and never takes it into a wall or off the map.
LEMMA WalkSound ==
    ASSUME NEW d, Sound(d), NEW step \in [Axis -> -1..1], NEW error \in [Axis -> {-1, 1}]
    PROVE  LET e == Walk(d, step, error)
           IN  /\ Sound(e) /\ e.has_target = d.has_target /\ (e = d \/ ~IsObstacle(e.cell))
               /\ \A a \in Axis : e.at[a] - d.at[a] \in -Unit..Unit
<1> DEFINE at == [a \in Axis |-> d.at[a] + Unit * step[a]]
           cell == [a \in Axis |-> IF step[a] = 0 THEN d.cell[a] ELSE Truncate(10 * at[a] + error[a])]
           e == [d EXCEPT !.at = at, !.cell = cell]
<1>1. Walk(d, step, error) = IF IsObstacle(cell) THEN d ELSE e
  BY DEF Walk
<1>2. CASE IsObstacle(cell)
  <2>1. \A a \in Axis : d.at[a] \in Int
    BY DEF Sound, Driver, Point
  <2> QED
    BY <1>1, <1>2, <2>1 DEF Unit
<1>3. CASE ~IsObstacle(cell)
  <2>1. d.at \in Point /\ d.cell \in Point /\ d \in Driver
    BY DEF Sound, Driver
  <2>2. at \in Point
    BY <2>1 DEF Point, Unit
  <2>3. cell \in Point
    <3>1. \A a \in Axis : cell[a] \in Int
      <4> TAKE a \in Axis
      <4>1. at[a] \in Int /\ error[a] \in Int /\ d.cell[a] \in Int
        BY <2>1, <2>2 DEF Point
      <4> HIDE DEF at
      <4> QED
        BY <4>1 DEF Truncate, Unit
    <3> QED
      BY <3>1 DEF Point
  <2>4. /\ e \in Driver /\ e.at = at /\ e.cell = cell /\ e.has_target = d.has_target
    <3> HIDE DEF at, cell
    <3> QED BY <2>1, <2>2, <2>3 DEF Driver
  <2>5. \A a \in Axis : at[a] - Unit * cell[a] \in -Unit..Unit
    <3> TAKE a \in Axis
    <3>1. CASE step[a] = 0
      <4>1. at[a] = d.at[a] /\ cell[a] = d.cell[a]
        BY <2>1, <3>1 DEF Point, Unit
      <4> QED
        BY <4>1 DEF Sound, Near
    <3>2. CASE step[a] # 0
      <4>1. cell[a] = Truncate(10 * at[a] + error[a])
        BY <3>2
      <4>2. at[a] \in Int /\ error[a] \in {-1, 1}
        BY <2>2 DEF Point
      <4> HIDE DEF at, cell
      <4> QED
        BY <4>1, <4>2, TruncatedNear DEF Unit
    <3> QED
      BY <3>1, <3>2
  <2>6. \A a \in Axis : at[a] - d.at[a] \in -Unit..Unit
    BY <2>1 DEF Point, Unit
  <2> HIDE DEF at, cell, e
  <2>7. Sound(e)
    BY <1>3, <2>4, <2>5 DEF Sound, Excused, Near
  <2> QED
    BY <1>1, <1>3, <2>4, <2>6, <2>7
<1> QED
  BY <1>2, <1>3

-----------------------------------------------------------------------------
\* What holds of the driver between two ticks.
IInv == Sound(driver)

LEMMA InitSound == Init => IInv
<1> SUFFICES ASSUME NEW p \in Start,
                    driver = [at |-> p, cell |-> CellOf(p), has_target |-> FALSE, target |-> Base]
             PROVE  Sound(driver)
  BY DEF Init, IInv
<1>1. p \in Point
  BY Drawn
<1>2. /\ CellOf(p) \in Point
      /\ \A a \in Axis : p[a] - Unit * CellOf(p)[a] \in -Unit..Unit
  BY <1>1, ReadsNear
<1>3. driver \in Driver
  BY <1>1, <1>2 DEF Driver
<1>4. Excused(driver)
  BY DEF Excused
<1>5. Near(driver)
  BY <1>2 DEF Near
<1> QED
  BY <1>3, <1>4, <1>5 DEF Sound

LEMMA BookStep ==
    ASSUME Sound(driver), Book
    PROVE  Sound(driver') /\ driver'.at = driver.at /\ driver'.cell = driver.cell
<1>1. PICK t \in Destination : driver' = [driver EXCEPT !.has_target = TRUE, !.target = t]
  BY DEF Book
<1>2. driver \in Driver
  BY DEF Sound
<1>3. driver' \in Driver /\ driver'.at = driver.at /\ driver'.cell = driver.cell
  BY <1>1, <1>2 DEF Driver
<1> QED
  BY <1>3 DEF Sound, Excused, Near

\* Whoever loses its ride in a wall or off the map walks on from base.
LEMMA WanderStep ==
    ASSUME Sound(driver), Wander
    PROVE  /\ Sound(driver') /\ ~IsObstacle(driver'.cell) /\ ~driver'.has_target
           /\ driver.has_target =>
                 /\ IsObstacle(driver.cell)
                 /\ \A a \in Axis : driver'.at[a] - Base[a] \in -Unit..Unit
<1> DEFINE d == Respawn(driver)
<1>1. Sound(d) /\ ~IsObstacle(d.cell) /\ ~d.has_target
  BY RespawnSound DEF Wander
<1>2. PICK step \in [Axis -> -1..1], error \in [Axis -> {-1, 1}] : driver' = Walk(d, step, error)
  BY DEF Wander, Wandering
<1>3. driver.has_target => IsObstacle(driver.cell) /\ d.at = Base
  <2>1. driver.has_target => IsObstacle(driver.cell)
    BY <1>1, RespawnSound
  <2>2. IsObstacle(driver.cell) => d.at = Base
    BY DEF Respawn, Written, Sound, Driver
  <2> QED
    BY <2>1, <2>2
<1> HIDE DEF d
<1> QED
  BY <1>1, <1>2, <1>3, WalkSound

\* A driver in a wall has lost its ride before it could arrive; any other walks on from
\* its destination.
LEMMA ArriveStep ==
    ASSUME Sound(driver), Arrive
    PROVE  /\ Sound(driver') /\ ~IsObstacle(driver.cell) /\ ~driver'.has_target
           /\ OnTheMap(driver')
           /\ \A a \in Axis : driver'.at[a] - driver.target[a] \in -Unit..Unit
<1> DEFINE d == Respawn(driver)
           e == [Written(d, d.target) EXCEPT !.has_target = FALSE]
<1>1. Sound(d) /\ d.has_target /\ ~IsObstacle(driver.cell) /\ d = driver
  BY RespawnSound DEF Arrive
<1>2. PICK step \in [Axis -> -1..1], error \in [Axis -> {-1, 1}] : driver' = Walk(e, step, error)
  BY DEF Arrive, Wandering
<1>3. d.target \in Destination \cup {Base} /\ d \in Driver
  BY <1>1 DEF Sound, Driver
<1>4. d.target \in Start \cup Destination \/ ~IsObstacle(CellOf(d.target))
  BY <1>3, BaseFree
<1>5. d.target \in Point /\ \A a \in Axis : d.target[a] \in 0..(Unit * Size[a] - 1)
  BY <1>3, Drawn
<1> HIDE DEF d
<1>6. Sound(e)
  BY <1>3, <1>4, <1>5, WrittenSound
<1>7. e.at = d.target /\ e.cell = CellOf(d.target) /\ e.has_target = FALSE
  BY <1>3 DEF Written, Driver
<1> HIDE DEF e
<1>8. OnTheMap(e)
  BY <1>5, <1>6, <1>7, ReadsOnMap, CellOnMap
<1>9. OnTheMap(driver')
  BY <1>2, <1>6, <1>8, WalkSound, FreeOnMap
<1> QED
  BY <1>1, <1>2, <1>6, <1>7, <1>9, WalkSound

\* The path finder's dead ends are none: the ride goes on, in another free cell.
LEMMA SteerStep ==
    ASSUME Sound(driver), Steer
    PROVE  /\ Sound(driver') /\ ~IsObstacle(driver.cell)
           /\ driver'.has_target /\ OnTheMap(driver')
           /\ \E a \in Axis : driver'.at[a] \div Unit # driver.cell[a]
<1> DEFINE d == Respawn(driver)
           goal == CellOf(d.target)
           next == GetNextStep(d.cell, goal)
           to == [a \in Axis |-> Unit * next[a]]
<1>1. Sound(d) /\ d.has_target /\ ~IsObstacle(driver.cell) /\ d = driver
  BY RespawnSound DEF Steer
<1>2. /\ driver' = IF next = d.cell THEN [d EXCEPT !.has_target = FALSE] ELSE Written(d, to)
      /\ SquaredDistance(d.at, d.target) >= Close * Close
  BY DEF Steer
<1>3. d \in Driver /\ d.cell \in Point /\ d.target \in Destination \cup {Base}
  BY <1>1 DEF Sound, Driver
<1>4. goal \in Point
  BY <1>3, Drawn, ReadsOnMap
<1>5. next # d.cell /\ next \in Point /\ ~IsObstacle(next)
  <2>1. d.cell # goal
    BY <1>1, <1>2, FarReadsElsewhere
  <2> HIDE DEF d, goal
  <2> QED
    BY <1>1, <1>3, <1>4, <2>1, StepTaken
<1> HIDE DEF d, goal, next
<1>6. \A a \in Axis : next[a] \in 0..(Size[a] - 1)
  BY <1>5 DEF IsObstacle
<1>7. to \in Point /\ \A a \in Axis : to[a] \in 0..(Unit * Size[a] - 1)
  BY <1>6, SizeIs DEF Point, Unit
<1>8. \A a \in Axis : to[a] % Unit = 0 /\ to[a] \div Unit = next[a]
  BY <1>6, SizeIs DEF Unit
<1>9. [a \in Axis |-> to[a] \div Unit] = next
  BY <1>5, <1>8 DEF Point
<1>10. \E a \in Axis : next[a] # d.cell[a]
  BY <1>3, <1>5 DEF Point
<1> HIDE DEF to
<1>11. Sound(Written(d, to))
  BY <1>3, <1>5, <1>7, <1>8, <1>9, WrittenSound
<1>12. /\ driver' = Written(d, to) /\ driver'.at = to /\ driver'.cell = CellOf(to)
       /\ driver'.has_target = d.has_target
  BY <1>2, <1>3, <1>5 DEF Written, Driver
<1>13. OnTheMap(driver')
  BY <1>7, <1>11, <1>12, ReadsOnMap, CellOnMap
<1> QED
  BY <1>1, <1>8, <1>10, <1>11, <1>12, <1>13

LEMMA StepSound == IInv /\ [Next]_driver => IInv'
<1> SUFFICES ASSUME Sound(driver), [Next]_driver PROVE Sound(driver')
  BY DEF IInv
<1>1. CASE Book
  BY <1>1, BookStep
<1>2. CASE Wander
  BY <1>2, WanderStep
<1>3. CASE Arrive
  BY <1>3, ArriveStep
<1>4. CASE Steer
  BY <1>4, SteerStep
<1>5. CASE UNCHANGED driver
  BY <1>5
<1> QED
  BY <1>1, <1>2, <1>3, <1>4, <1>5 DEF Next

-----------------------------------------------------------------------------
LEMMA SoundAlways == Spec => []IInv
  BY InitSound, StepSound, PTL DEF Spec

\* The state keeps its shape, and a target is a destination or base.
THEOREM TypeCorrect == Spec => []TypeOK
<1>1. IInv => TypeOK
  BY DEF IInv, Sound, Driver, Point, TypeOK
<1> QED
  BY <1>1, SoundAlways, PTL

\* Whatever moves a driver that started off the map brings it on, and nothing takes
\* one off again (coordinator.c:96-97, 204-209, map_monitor.c:43-46, 113-119).
THEOREM OnMapAlways == Spec => OnMap
<1> DEFINE Kept == /\ OnTheMap(driver) => OnTheMap(driver')
                   /\ driver'.at # driver.at => OnTheMap(driver')
<1>1. IInv /\ [Next]_driver => [Kept]_driver
  <2> SUFFICES ASSUME Sound(driver), [Next]_driver, driver' # driver PROVE Kept
    BY DEF IInv
  <2>1. CASE Book
    <3>1. driver'.at = driver.at /\ driver'.cell = driver.cell
      BY <2>1, BookStep
    <3> QED
      BY <3>1 DEF OnTheMap
  <2>2. CASE Wander
    <3>1. Sound(driver') /\ ~IsObstacle(driver'.cell)
      BY <2>2, WanderStep
    <3> QED
      BY <3>1, FreeOnMap
  <2>3. CASE Arrive \/ Steer
    BY <2>3, ArriveStep, SteerStep
  <2> QED
    BY <2>1, <2>2, <2>3 DEF Next
<1> QED
  BY <1>1, SoundAlways, PTL DEF Spec, OnMap

\* A driver in a wall or off the map was put there, or sent beside a wall and read back
\* (server_main.c:132, coordinator.c:96-97, ride_service.c:45, map_monitor.c:105-106).
THEOREM WallOnlyByAlways == Spec => []WallOnlyBy
<1>1. IInv => WallOnlyBy
  BY DEF IInv, Sound, Excused, WallOnlyBy
<1> QED
  BY <1>1, SoundAlways, PTL

\* A tick that finds a driver in a wall or off the map gets it out (map_monitor.c:43-46).
THEOREM LeavesWallAlways == Spec => LeavesWall
<1>1. IInv /\ [Next]_driver =>
        [IsObstacle(driver.cell) /\ driver'.at # driver.at => ~IsObstacle(driver'.cell)]_driver
  BY BookStep, WanderStep, ArriveStep, SteerStep DEF IInv, Next
<1> QED
  BY <1>1, SoundAlways, PTL DEF Spec, LeavesWall

\* No ride ends on the road: when it is over the driver is within one walk of its
\* destination, or of base if it was found in a wall or off the map (map_monitor.c:42-49, 84-110).
THEOREM NoRideEndsOnTheRoadAlways == Spec => NoRideEndsOnTheRoad
<1> DEFINE end == IF IsObstacle(driver.cell) THEN Base ELSE driver.target
           Ends == driver.has_target /\ ~driver'.has_target =>
                      \A a \in Axis : Gap(driver'.at[a], end[a]) <= Unit
<1>1. IInv /\ [Next]_driver => [Ends]_driver
  <2> SUFFICES ASSUME Sound(driver), [Next]_driver, driver' # driver,
                      driver.has_target, ~driver'.has_target
               PROVE  \A a \in Axis : Gap(driver'.at[a], end[a]) <= Unit
    BY DEF IInv
  <2>1. \A a \in Axis : driver'.at[a] - end[a] \in -Unit..Unit
    <3>1. CASE Wander
      BY <3>1, WanderStep
    <3>2. CASE Arrive
      BY <3>2, ArriveStep
    <3>3. CASE Steer
      BY <3>3, SteerStep
    <3> QED
      BY <3>1, <3>2, <3>3 DEF Next, Book
  <2>2. \A a \in Axis : driver'.at[a] \in Int /\ end[a] \in Int
    <3>1. driver' \in Driver /\ driver.target \in Destination \cup {Base}
      BY StepSound DEF IInv, Sound, Driver
    <3>2. end \in Point
      BY <3>1, Drawn
    <3> QED
      BY <3>1, <3>2 DEF Driver, Point
  <2> HIDE DEF end
  <2> QED
    BY <2>1, <2>2 DEF Gap, Unit
<1> QED
  BY <1>1, SoundAlways, PTL DEF Spec, NoRideEndsOnTheRoad

\* A driver on a ride stays in its cell for one reason only: it was sent to another cell
\* and reads back as where it was (map_monitor.c:104-107).
THEOREM StandsOnlyByReadingAlways == Spec => StandsOnlyByReading
<1> DEFINE Stands == driver.has_target /\ driver'.has_target /\ driver'.cell = driver.cell =>
                        \E a \in Axis : driver'.at[a] \div Unit # driver'.cell[a]
<1>1. IInv /\ [Next]_driver => [Stands]_driver
  <2> SUFFICES ASSUME Sound(driver), [Next]_driver, driver' # driver,
                      driver.has_target, driver'.has_target, driver'.cell = driver.cell
               PROVE  \E a \in Axis : driver'.at[a] \div Unit # driver'.cell[a]
    BY DEF IInv
  <2>1. Steer
    BY WanderStep, ArriveStep DEF Next, Book
  <2> QED
    BY <2>1, SteerStep
<1> QED
  BY <1>1, SoundAlways, PTL DEF Spec, StandsOnlyByReading

=============================================================================
