------------------------ MODULE FollowupQueue_proofs ------------------------
(***************************************************************************)
(* Proofs about FollowupQueue, for every set of messages and settings and  *)
(* every number of queue objects: the types; a message is accepted once;   *)
(* a batch mixes routes only after a late arrival; drains of a key that    *)
(* nobody clears are serial and keep the order; and a message is lost only *)
(* after an overflow, a clear or a summary.                                *)
(***************************************************************************)
EXTENDS FollowupQueue, SequenceTheorems, FiniteSetTheorems, TLAPS

Undisturbed == events \cap {"overflow", "clear", "summary"} = {}
Uncleared == "clear" \notin events

Drains == [pc : {"off", "debounce", "checked", "running"},
           kind : {"none", "batch", "next", "summary"},
           batch : Seq(Messages), summary : SUBSET Messages, force : BOOLEAN]

Types ==
  /\ current \in Objects \cup {NoQueue}
  /\ items \in [Objects -> Seq(Messages)]
  /\ draining \in [Objects -> BOOLEAN]
  /\ offered \in Configs /\ settings \in [Objects -> Settings]
  /\ dropped \in [Objects -> SUBSET Messages] /\ lastRun \in [Objects -> BOOLEAN]
  /\ callback \in BOOLEAN /\ owed \in BOOLEAN
  /\ drain \in [Objects -> Drains]
  /\ fate \in [Messages -> Fates] /\ arrivals \in Seq(Messages)

(* A drain that is away has what its kind says, another has nothing.       *)
Equipped(d) ==
  /\ d.pc # "running" => d.kind = "none" /\ d.batch = <<>> /\ d.summary = {}
  /\ d.pc = "running" => d.kind # "none"
  /\ d.kind = "next" => Len(d.batch) = 1
  /\ d.kind = "summary" => d.batch = <<>>
DrainsAreTrue ==
  \A o \in Objects : /\ draining[o] <=> drain[o].pc # "off"
                     /\ Equipped(drain[o])

(* A message is accepted while it is new, and once.                        *)
Accepted ==
  /\ \A i \in 1..Len(arrivals) : fate[arrivals[i]] # "new"
  /\ \A i, j \in 1..Len(arrivals) : arrivals[i] = arrivals[j] => i = j

(* The cache knows what was accepted until an entry expires.               *)
Cached == "expiry" \notin events =>
            \A i \in 1..Len(arrivals) : Identity[arrivals[i]] \in recent

(* What the check has seen stays so, unless a message comes late.          *)
CheckedIsOneRoute ==
  "late" \notin events => \A o \in Objects : drain[o].pc = "checked" => ~Crossing(items[o])

(* The drain is the mapped object's, and a run has scheduled it.           *)
DrainIsMapped ==
  Uncleared => /\ \A o \in Objects : draining[o] => o = current
               /\ callback \/ (\E o \in Objects : draining[o]) => "scheduled" \in events

(* The queue holds the latest arrivals, in order, and none was delivered.  *)
Start(o) == Len(arrivals) - Len(items[o])
HoldsLatest ==
  Uncleared => \A o \in Objects : o = current =>
    /\ Len(items[o]) <= Len(arrivals)
    /\ \A i \in 1..Len(items[o]) : items[o][i] = arrivals[Start(o) + i]
    /\ \A i \in 1..Len(items[o]) : fate[items[o][i]] # "delivered"

(* A batch is a stretch of the arrivals that begins no later than the      *)
(* queue does.                                                             *)
BatchIsEarlier ==
  Uncleared => \A o \in Objects : o = current /\ drain[o].pc = "running" =>
    \E p \in 0..Start(o) :
      /\ p + Len(drain[o].batch) <= Len(arrivals)
      /\ \A i \in 1..Len(drain[o].batch) : drain[o].batch[i] = arrivals[p + i]

(* Undisturbed, the accepted messages are in the key's queue, and the      *)
(* prompt a drain is away with is the front of it.                         *)
QueueHolds ==
  Undisturbed => \A m \in Messages : fate[m] \in {"queued", "summarized"} =>
    current # NoQueue /\ m \in ToSet(items[current]) \cup dropped[current]
BatchIsFront ==
  Undisturbed => \A o \in Objects : o = current /\ drain[o].pc = "running" =>
    /\ Len(drain[o].batch) <= Len(items[o])
    /\ \A i \in 1..Len(drain[o].batch) : drain[o].batch[i] = items[o][i]
    /\ drain[o].summary # {} => drain[o].summary = dropped[o]

QueueInv ==
  /\ Types /\ DrainsAreTrue /\ Accepted /\ Cached /\ AcceptedOnce
  /\ CheckedIsOneRoute /\ MixedNeedsLateArrival
  /\ DrainIsMapped /\ HoldsLatest /\ BatchIsEarlier /\ QueueHolds /\ BatchIsFront

-----------------------------------------------------------------------------
(* Operators                                                               *)

(* What is in a sequence has a place in it.                                *)
LEMMA InToSet ==
  ASSUME NEW S, NEW s \in Seq(S), NEW x
  PROVE  x \in ToSet(s) <=> \E i \in 1..Len(s) : s[i] = x
BY LenProperties DEF ToSet

(* The routes of a sequence that does not cross channels are one.          *)
LEMMA OneRouteOnly ==
  ASSUME NEW s \in Seq(Messages), ~Crossing(s), NEW m \in ToSet(s), NEW n \in ToSet(s)
  PROVE  Route[m] = Route[n]
<1>. DEFINE R == {Route[x] : x \in ToSet(s)}
            f == [i \in 1..Len(s) |-> Route[s[i]]]
<1>1. Len(s) \in Nat /\ DOMAIN s = 1..Len(s)
  BY LenProperties
<1>2. ~(Cardinality(R) > 1)
  BY DEF Crossing
<1>3. IsFiniteSet(R)
  <2>1. \A t \in R : \E i \in 1..Len(s) : f[i] = t
    BY <1>1 DEF ToSet
  <2>2. \A i \in 1..Len(s) : f[i] \in R
    BY <1>1 DEF ToSet
  <2>3. f \in [1..Len(s) -> R]
    BY <2>2
  <2>4. f \in Surjection(1..Len(s), R)
    BY <2>1, <2>3 DEF Surjection
  <2>. QED
    BY <1>1, <2>4, FS_NatSurjection DEF ExistsSurjection
<1>4. Route[m] \in R /\ Route[n] \in R
  OBVIOUS
<1>. HIDE DEF R
<1>5. ASSUME Route[m] # Route[n] PROVE FALSE
  <2>1. Cardinality({Route[m]} \cup {Route[n]}) = 2 /\ IsFiniteSet({Route[m]} \cup {Route[n]})
    <3>1. IsFiniteSet({Route[m]}) /\ Cardinality({Route[m]}) = 1
      BY FS_Singleton
    <3>2. Route[n] \notin {Route[m]}
      BY <1>5
    <3>3. /\ IsFiniteSet({Route[m]} \cup {Route[n]})
          /\ Cardinality({Route[m]} \cup {Route[n]}) = Cardinality({Route[m]}) + 1
      BY <3>1, <3>2, FS_AddElement
    <3>. QED
      BY <3>1, <3>3
  <2>2. {Route[m]} \cup {Route[n]} \in SUBSET R
    BY <1>4
  <2>3. Cardinality({Route[m]} \cup {Route[n]}) <= Cardinality(R)
    BY <1>3, <2>2, FS_Subset
  <2>4. Cardinality(R) \in Nat
    BY <1>3, FS_CardinalityType
  <2>. QED
    BY <1>2, <2>1, <2>3, <2>4
<1>. QED
  BY <1>5

(* No items cross no channels.                                             *)
LEMMA NoneCrosses == ~Crossing(<<>>)
<1>1. {Route[m] : m \in ToSet(<<>>)} = {}
  BY DEF ToSet
<1>2. Cardinality({Route[m] : m \in ToSet(<<>>)}) = 0
  BY <1>1, FS_EmptySet
<1>3. "cross" \notin {Route[m] : m \in ToSet(<<>>)}
  BY <1>1
<1>. QED
  BY <1>2, <1>3 DEF Crossing

(* What is left of a sequence without its first n elements.                *)
LEMMA Rest ==
  ASSUME NEW S, NEW s \in Seq(S), NEW n \in Nat
  PROVE  /\ SubSeq(s, n + 1, Len(s)) \in Seq(S)
         /\ Len(SubSeq(s, n + 1, Len(s))) = IF n <= Len(s) THEN Len(s) - n ELSE 0
         /\ \A i \in 1..Len(SubSeq(s, n + 1, Len(s))) :
              SubSeq(s, n + 1, Len(s))[i] = s[n + i] /\ n + i <= Len(s)
<1>1. Len(s) \in Nat /\ \A i \in 1..Len(s) : s[i] \in S
  BY LenProperties, ElementOfSeq
<1>2. n + 1 \in Int /\ \A i \in (n + 1)..Len(s) : s[i] \in S
  BY <1>1
<1>3. /\ SubSeq(s, n + 1, Len(s)) \in Seq(S)
      /\ Len(SubSeq(s, n + 1, Len(s))) = IF n + 1 <= Len(s) THEN Len(s) - (n + 1) + 1 ELSE 0
      /\ \A i \in 1..(Len(s) - (n + 1) + 1) : SubSeq(s, n + 1, Len(s))[i] = s[(n + 1) + i - 1]
  BY <1>1, <1>2, SubSeqProperties
<1>4. Len(SubSeq(s, n + 1, Len(s))) = IF n <= Len(s) THEN Len(s) - n ELSE 0
  BY <1>1, <1>3
<1>5. ASSUME NEW i \in 1..Len(SubSeq(s, n + 1, Len(s)))
      PROVE  SubSeq(s, n + 1, Len(s))[i] = s[n + i] /\ n + i <= Len(s)
  <2>1. i \in 1..(Len(s) - (n + 1) + 1) /\ (n + 1) + i - 1 = n + i /\ n + i <= Len(s)
    BY <1>1, <1>4
  <2>. QED
    BY <1>3, <2>1
<1>. QED
  BY <1>3, <1>4, <1>5

(* The states of a drain.                                                  *)
LEMMA OffIs ==
  /\ Off \in Drains /\ Off.pc = "off" /\ Off.kind = "none"
  /\ Off.batch = <<>> /\ Off.summary = {}
BY EmptySeq DEF Off, Drains

(* A drain that waits for the debounce,                                    *)
LEMMA DebouncingIs ==
  ASSUME NEW f \in BOOLEAN
  PROVE  /\ Debouncing(f) \in Drains /\ Debouncing(f).pc = "debounce"
         /\ Debouncing(f).kind = "none" /\ Debouncing(f).batch = <<>>
         /\ Debouncing(f).summary = {}
BY EmptySeq DEF Debouncing, Off, Drains

(* and one that waits for runFollowup.                                     *)
LEMMA RunningIs ==
  ASSUME NEW k \in {"batch", "next", "summary"}, NEW b \in Seq(Messages),
         NEW S \in SUBSET Messages, NEW f \in BOOLEAN
  PROVE  /\ Running(k, b, S, f) \in Drains /\ Running(k, b, S, f).pc = "running"
         /\ Running(k, b, S, f).kind = k /\ Running(k, b, S, f).batch = b
         /\ Running(k, b, S, f).summary = S
BY DEF Running, Drains

(* The key's object: one of the objects, and no other is 0.                *)
LEMMA ObjectsAre == NoQueue \notin Objects
BY DEF NoQueue, Objects

(* A drain that is begun waits for the debounce, or finds nothing to do    *)
(* and unmaps the key.                                                     *)
LEMMA BeginIs ==
  ASSUME NEW c \in Objects, NEW its, NEW drp,
         NEW drg \in [Objects -> BOOLEAN], NEW drn \in [Objects -> Drains],
         Begin(c, its, drp, drg, drn)
  PROVE  /\ callback' = TRUE
         /\ draining' \in [Objects -> BOOLEAN] /\ drain' \in [Objects -> Drains]
         /\ \A p \in Objects : p # c => draining'[p] = drg[p] /\ drain'[p] = drn[p]
         /\ \/ current' = c /\ draining'[c] = TRUE /\ drain'[c] = Debouncing(FALSE)
            \/ /\ current' = NoQueue /\ its[c] = <<>> /\ drp[c] = {}
               /\ draining' = drg /\ drain' = drn
<1>1. Debouncing(FALSE) \in Drains
  BY DebouncingIs
<1>2. CASE its[c] # <<>> \/ drp[c] # {}
  BY <1>1, <1>2 DEF Begin
<1>3. CASE ~(its[c] # <<>> \/ drp[c] # {})
  BY <1>3 DEF Begin
<1>. QED
  BY <1>2, <1>3

(* What the end of a run of the drain of o leaves of the drains.           *)
LeavesDrains(o, its, drp) ==
  /\ current' \in Objects \cup {NoQueue} /\ callback' \in BOOLEAN
  /\ draining' \in [Objects -> BOOLEAN] /\ drain' \in [Objects -> Drains]
  /\ DrainsAreTrue'
  /\ \A p \in Objects : p # o => drain'[p] = drain[p] \/ drain'[p].pc = "debounce"
  /\ drain'[o].pc \in {"off", "debounce"}
  /\ Uncleared => /\ o = current
                  /\ current' = o \/ (current' = NoQueue /\ its[o] = <<>> /\ drp[o] = {})
                  /\ \A p \in Objects : draining'[p] => p = current'

(* The finally block leaves its drain off, or begins it or the key's       *)
(* again.                                                                  *)
LEMMA FinallyIs ==
  ASSUME Types, DrainsAreTrue, DrainIsMapped, NEW o \in Objects, draining[o], NEW its, NEW drp,
         Finally(o, its, drp)
  PROVE  LeavesDrains(o, its, drp)
<1>. DEFINE drn == [drain EXCEPT ![o] = Off]
            drg == [draining EXCEPT ![o] = FALSE]
<1>1. /\ drn \in [Objects -> Drains] /\ drg \in [Objects -> BOOLEAN]
      /\ drn[o] = Off /\ drg[o] = FALSE
      /\ \A p \in Objects : p # o => drn[p] = drain[p] /\ drg[p] = draining[p]
  BY OffIs DEF Types
<1>2. Uncleared => o = current /\ \A p \in Objects : p # o => ~draining[p]
  BY DEF DrainIsMapped
<1>3. \A p \in Objects : /\ drg[p] <=> drn[p].pc # "off"
                         /\ Equipped(drn[p])
  <2>. TAKE p \in Objects
  <2>1. CASE p = o
    BY <1>1, <2>1, OffIs DEF Equipped
  <2>2. CASE p # o
    BY <1>1, <2>2 DEF DrainsAreTrue
  <2>. QED
    BY <2>1, <2>2
<1>4. CASE ~IsEmpty(o, its, drp) /\ MayReschedule(o, current)
  <2>1. current \in Objects /\ Begin(current, its, drp, drg, drn)
    BY <1>4 DEF Finally, MayReschedule, FlagsAfter, Types
  <2>. HIDE DEF drn, drg
  <2>0. PICK c \in Objects, rg \in [Objects -> BOOLEAN], rn \in [Objects -> Drains] :
          c = current /\ rg = drg /\ rn = drn
    BY <1>1, <2>1
  <2>6. Begin(c, its, drp, rg, rn)
    BY <2>0, <2>1
  <2>2. /\ callback' = TRUE
        /\ draining' \in [Objects -> BOOLEAN] /\ drain' \in [Objects -> Drains]
        /\ \A p \in Objects : p # current => draining'[p] = drg[p] /\ drain'[p] = drn[p]
        /\ \/ current' = current /\ draining'[current] = TRUE /\ drain'[current] = Debouncing(FALSE)
           \/ /\ current' = NoQueue /\ its[current] = <<>> /\ drp[current] = {}
              /\ draining' = drg /\ drain' = drn
    <3>1. /\ callback' = TRUE
          /\ draining' \in [Objects -> BOOLEAN] /\ drain' \in [Objects -> Drains]
          /\ \A p \in Objects : p # c => draining'[p] = rg[p] /\ drain'[p] = rn[p]
          /\ \/ current' = c /\ draining'[c] = TRUE /\ drain'[c] = Debouncing(FALSE)
             \/ /\ current' = NoQueue /\ its[c] = <<>> /\ drp[c] = {}
                /\ draining' = rg /\ drain' = rn
      BY <2>6, BeginIs
    <3>. QED
      BY <2>0, <3>1
  <2>3. /\ Debouncing(FALSE).pc = "debounce" /\ Equipped(Debouncing(FALSE))
    BY DebouncingIs DEF Equipped
  <2>4. CASE current' = current /\ draining'[current] = TRUE /\ drain'[current] = Debouncing(FALSE)
    <3>1. \A p \in Objects : (draining'[p] <=> drain'[p].pc # "off") /\ Equipped(drain'[p])
      BY <1>3, <2>2, <2>3, <2>4
    <3>2. DrainsAreTrue'
      BY <3>1 DEF DrainsAreTrue, Equipped
    <3>3. \A p \in Objects : p # o => drain'[p] = drain[p] \/ drain'[p].pc = "debounce"
      BY <1>1, <2>2, <2>3, <2>4
    <3>4. drain'[o].pc \in {"off", "debounce"}
      BY <1>1, <2>2, <2>3, <2>4, OffIs
    <3>5. Uncleared => o = current /\ current' = o /\ \A p \in Objects : draining'[p] => p = current'
      BY <1>1, <1>2, <2>2, <2>4
    <3>. QED
      BY <2>1, <2>2, <2>4, <3>2, <3>3, <3>4, <3>5 DEF LeavesDrains
  <2>5. CASE /\ current' = NoQueue /\ its[current] = <<>> /\ drp[current] = {}
             /\ draining' = drg /\ drain' = drn
    <3>1. DrainsAreTrue'
      BY <1>3, <2>5 DEF DrainsAreTrue, Equipped
    <3>2. Uncleared => /\ o = current /\ its[o] = <<>> /\ drp[o] = {}
                       /\ \A p \in Objects : ~draining'[p]
      BY <1>1, <1>2, <2>5
    <3>. QED
      BY <1>1, <2>2, <2>5, <3>1, <3>2, OffIs DEF LeavesDrains
  <2>. QED
    BY <2>2, <2>4, <2>5
<1>5. CASE ~(~IsEmpty(o, its, drp) /\ MayReschedule(o, current))
  <2>1. /\ current' = IF IsEmpty(o, its, drp) THEN NoQueue ELSE current
        /\ draining' = drg /\ drain' = drn /\ callback' = callback
    BY <1>5 DEF Finally, FlagsAfter
  <2>. HIDE DEF drn, drg
  <2>2. DrainsAreTrue'
    BY <1>3, <2>1 DEF DrainsAreTrue, Equipped
  <2>3. Uncleared => /\ o = current /\ current' = NoQueue /\ its[o] = <<>> /\ drp[o] = {}
                     /\ \A p \in Objects : ~draining'[p]
    BY <1>1, <1>2, <1>5, <2>1, ObjectsAre DEF MayReschedule, IsEmpty
  <2>. QED
    BY <1>1, <2>1, <2>2, <2>3, OffIs DEF LeavesDrains, Types
<1>. QED
  BY <1>4, <1>5

(* The head of the loop does so too, or waits for the next debounce.       *)
LEMMA LoopHeadIs ==
  ASSUME Types, DrainsAreTrue, DrainIsMapped, NEW o \in Objects, draining[o], NEW its, NEW drp,
         LoopHead(o, its, drp)
  PROVE  LeavesDrains(o, its, drp)
<1>1. CASE IsEmpty(o, its, drp)
  BY <1>1, FinallyIs DEF LoopHead
<1>2. CASE ~IsEmpty(o, its, drp)
  <2>. DEFINE d == Debouncing(drain[o].force)
  <2>1. /\ drain' = [drain EXCEPT ![o] = d]
        /\ UNCHANGED <<current, draining, callback>>
    BY <1>2 DEF LoopHead
  <2>2. drain[o].force \in BOOLEAN
    BY DEF Types, Drains
  <2>3. d \in Drains /\ d.pc = "debounce" /\ Equipped(d)
    BY <2>2, DebouncingIs DEF Equipped
  <2>. HIDE DEF d
  <2>4. /\ drain' \in [Objects -> Drains] /\ drain'[o] = d
        /\ \A p \in Objects : p # o => drain'[p] = drain[p]
    BY <2>1, <2>3 DEF Types
  <2>5. DrainsAreTrue'
    BY <2>1, <2>3, <2>4 DEF DrainsAreTrue, Equipped
  <2>6. Uncleared => o = current /\ \A p \in Objects : draining[p] => p = current
    BY DEF DrainIsMapped
  <2>. QED
    BY <2>1, <2>3, <2>4, <2>5, <2>6 DEF LeavesDrains, Types
<1>. QED
  BY <1>1, <1>2

-----------------------------------------------------------------------------
(* What a step leaves alone                                                *)

(* A step that accepts nothing and lets nothing expire.                    *)
LEMMA AcceptedStays ==
  ASSUME Types, Accepted, Cached, AcceptedOnce,
         arrivals' = arrivals, recent' = recent, "expiry" \in events => "expiry" \in events',
         \A m \in Messages : fate'[m] = "new" => fate[m] = "new"
  PROVE  Accepted' /\ Cached' /\ AcceptedOnce'
<1>1. \A i \in 1..Len(arrivals) : arrivals[i] \in Messages
  BY ElementOfSeq DEF Types
<1>. QED
  BY <1>1 DEF Accepted, Cached, AcceptedOnce

(* A step that gives a drain nothing that crosses channels.                *)
LEMMA RoutesStay ==
  ASSUME CheckedIsOneRoute, MixedNeedsLateArrival,
         "late" \in events => "late" \in events',
         "late" \notin events' => \A o \in Objects : drain'[o].pc = "checked" =>
            (drain[o].pc = "checked" /\ items'[o] = items[o]) \/ ~Crossing(items'[o]),
         "late" \notin events' => \A o \in Objects : drain'[o].kind = "batch" =>
            \/ drain[o].kind = "batch" /\ drain'[o].batch = drain[o].batch
            \/ \A m, n \in ToSet(drain'[o].batch) : Route[m] = Route[n]
  PROVE  CheckedIsOneRoute' /\ MixedNeedsLateArrival'
<1>1. ASSUME "late" \notin events', NEW o \in Objects, drain'[o].pc = "checked"
      PROVE  ~Crossing(items'[o])
  <2>1. CASE drain[o].pc = "checked" /\ items'[o] = items[o]
    <3>1. ~Crossing(items[o])
      BY <1>1, <2>1 DEF CheckedIsOneRoute
    <3>. QED
      BY <2>1, <3>1
  <2>. QED
    BY <1>1, <2>1
<1>2. CheckedIsOneRoute'
  BY <1>1 DEF CheckedIsOneRoute, Crossing
<1>3. ASSUME "late" \notin events', NEW o \in Objects, drain'[o].kind = "batch"
      PROVE  \A m, n \in ToSet(drain'[o].batch) : Route[m] = Route[n]
  BY <1>3 DEF MixedNeedsLateArrival, BatchesShareRoute
<1>4. MixedNeedsLateArrival'
  BY <1>3 DEF MixedNeedsLateArrival, BatchesShareRoute, ToSet
<1>. QED
  BY <1>2, <1>4

(* A prompt of the front of o's queue.                                     *)
FrontOf(d, its, drp) ==
  /\ Len(d.batch) <= Len(its)
  /\ \A i \in 1..Len(d.batch) : d.batch[i] = its[i]
  /\ d.summary # {} => d.summary = drp

(* A step that leaves the messages where they are, and sends a drain away  *)
(* only with the front of the queue.                                       *)
LEMMA QueueStays ==
  ASSUME Types, HoldsLatest, BatchIsEarlier, QueueHolds, BatchIsFront, Types',
         arrivals' = arrivals, events \ {"scheduled"} \subseteq events',
         \A o \in Objects : items'[o] = items[o] /\ dropped'[o] = dropped[o],
         \A m \in Messages : fate'[m] = fate[m] \/ fate'[m] \in {"duplicate", "refused"},
         Uncleared => \/ current' = current
                      \/ current' = NoQueue /\ items[current] = <<>> /\ dropped[current] = {},
         \A o \in Objects : drain'[o].pc = "running" =>
            \/ /\ drain[o].pc = "running"
               /\ drain'[o].batch = drain[o].batch /\ drain'[o].summary = drain[o].summary
            \/ FrontOf(drain'[o], items[o], dropped[o])
  PROVE  HoldsLatest' /\ BatchIsEarlier' /\ QueueHolds' /\ BatchIsFront'
<1>1. /\ Uncleared' => Uncleared
      /\ Undisturbed' => Undisturbed /\ Uncleared
  BY DEF Uncleared, Undisturbed
<1>2. \A o \in Objects : /\ Len(items[o]) \in Nat
                         /\ \A i \in 1..Len(items[o]) : items[o][i] \in Messages
                         /\ Len(items'[o]) = Len(items[o])
  BY LenProperties, ElementOfSeq DEF Types
<1>3. Len(arrivals) \in Nat
  BY LenProperties DEF Types
<1>4. \A o \in Objects : Uncleared' /\ o = current' => o = current
  BY <1>1, ObjectsAre
<1>5. \A o \in Objects : Start(o)' = Start(o)
  BY <1>2 DEF Start
<1>6. HoldsLatest'
  <2>. SUFFICES ASSUME Uncleared', NEW o \in Objects, o = current'
                PROVE  /\ Len(items'[o]) <= Len(arrivals)
                       /\ \A i \in 1..Len(items'[o]) : items'[o][i] = arrivals[Start(o) + i]
                       /\ \A i \in 1..Len(items'[o]) : fate'[items'[o][i]] # "delivered"
    BY <1>5 DEF HoldsLatest
  <2>1. Uncleared /\ o = current
    BY <1>1, <1>4
  <2>2. /\ Len(items[o]) <= Len(arrivals)
        /\ \A i \in 1..Len(items[o]) : items[o][i] = arrivals[Start(o) + i]
        /\ \A i \in 1..Len(items[o]) : fate[items[o][i]] # "delivered"
    BY <2>1 DEF HoldsLatest
  <2>3. \A i \in 1..Len(items[o]) : fate'[items[o][i]] # "delivered"
    BY <1>2, <2>2
  <2>4. items'[o] = items[o]
    OBVIOUS
  <2>. QED
    BY <2>2, <2>3, <2>4
<1>7. BatchIsEarlier'
  <2>. SUFFICES ASSUME Uncleared', NEW o \in Objects, o = current', drain'[o].pc = "running"
                PROVE  \E p \in 0..Start(o) :
                         /\ p + Len(drain'[o].batch) <= Len(arrivals)
                         /\ \A i \in 1..Len(drain'[o].batch) : drain'[o].batch[i] = arrivals[p + i]
    BY <1>5 DEF BatchIsEarlier
  <2>1. Uncleared /\ o = current
    BY <1>1, <1>4
  <2>2. CASE drain[o].pc = "running" /\ drain'[o].batch = drain[o].batch
    <3>1. PICK p \in 0..Start(o) :
            /\ p + Len(drain[o].batch) <= Len(arrivals)
            /\ \A i \in 1..Len(drain[o].batch) : drain[o].batch[i] = arrivals[p + i]
      BY <2>1, <2>2 DEF BatchIsEarlier
    <3>. QED
      BY <2>2, <3>1
  <2>3. CASE FrontOf(drain'[o], items[o], dropped[o])
    <3>1. /\ Len(items[o]) <= Len(arrivals)
          /\ \A i \in 1..Len(items[o]) : items[o][i] = arrivals[Start(o) + i]
      BY <2>1 DEF HoldsLatest
    <3>2. drain'[o].batch \in Seq(Messages)
      BY DEF Types, Drains
    <3>3. Len(drain'[o].batch) \in Nat
      BY <3>2, LenProperties
    <3>4. Start(o) \in 0..Start(o) /\ Start(o) + Len(drain'[o].batch) <= Len(arrivals)
      BY <1>2, <1>3, <2>3, <3>1, <3>3 DEF FrontOf, Start
    <3>5. \A i \in 1..Len(drain'[o].batch) : drain'[o].batch[i] = arrivals[Start(o) + i]
      BY <1>2, <2>3, <3>1, <3>3 DEF FrontOf
    <3>. QED
      BY <3>4, <3>5
  <2>. QED
    BY <2>2, <2>3
<1>8. QueueHolds'
  <2>. SUFFICES ASSUME Undisturbed', NEW m \in Messages, fate'[m] \in {"queued", "summarized"}
                PROVE  current' # NoQueue /\ m \in ToSet(items'[current']) \cup dropped'[current']
    BY DEF QueueHolds, ToSet
  <2>1. fate[m] \in {"queued", "summarized"}
    OBVIOUS
  <2>2. current # NoQueue /\ m \in ToSet(items[current]) \cup dropped[current]
    BY <1>1, <2>1 DEF QueueHolds
  <2>3. current \in Objects
    BY <2>2 DEF Types
  <2>4. ToSet(<<>>) = {}
    BY DEF ToSet
  <2>5. current' = current
    BY <1>1, <2>2, <2>4
  <2>. QED
    BY <2>2, <2>3, <2>5
<1>9. BatchIsFront'
  <2>. SUFFICES ASSUME Undisturbed', NEW o \in Objects, o = current', drain'[o].pc = "running"
                PROVE  FrontOf(drain'[o], items'[o], dropped'[o])
    BY DEF BatchIsFront, FrontOf
  <2>1. Undisturbed /\ o = current
    BY <1>1, <1>4 DEF Uncleared, Undisturbed
  <2>2. CASE /\ drain[o].pc = "running"
             /\ drain'[o].batch = drain[o].batch /\ drain'[o].summary = drain[o].summary
    <3>1. FrontOf(drain[o], items[o], dropped[o])
      BY <2>1, <2>2 DEF BatchIsFront, FrontOf
    <3>. QED
      BY <2>2, <3>1 DEF FrontOf
  <2>. QED
    BY <2>2
<1>. QED
  BY <1>6, <1>7, <1>8, <1>9

-----------------------------------------------------------------------------
(* The steps                                                               *)

(* The drain is left, and perhaps begun again, without a message moved.    *)
LEMMA BreakKeeps ==
  ASSUME QueueInv, NEW o \in Objects, draining[o], Break(o), UNCHANGED offered
  PROVE  QueueInv'
<1>1. /\ UNCHANGED <<items, settings, dropped, lastRun, recent, owed, fate, arrivals, events, offered>>
      /\ Types /\ DrainsAreTrue /\ DrainIsMapped
  BY DEF Break, objectVars, enqueueVars, ghostVars, QueueInv
<1>2. PICK its, drp : its = items /\ drp = dropped
  OBVIOUS
<1>3. LeavesDrains(o, its, drp)
  BY <1>1, <1>2, FinallyIs DEF Break
<1>4. Types' /\ DrainsAreTrue'
  BY <1>1, <1>3 DEF LeavesDrains, Types
<1>5. \A q \in Objects : drain'[q] = drain[q] \/ drain'[q].pc \notin {"running", "checked"}
  BY <1>3 DEF LeavesDrains
<1>6. \A q \in Objects : drain'[q].kind = "batch" => drain'[q] = drain[q]
  BY <1>4, <1>5 DEF DrainsAreTrue, Equipped
<1>7. Accepted' /\ Cached' /\ AcceptedOnce'
  BY <1>1, AcceptedStays DEF QueueInv
<1>8. CheckedIsOneRoute' /\ MixedNeedsLateArrival'
  BY <1>1, <1>5, <1>6, RoutesStay DEF QueueInv
<1>9. HoldsLatest' /\ BatchIsEarlier' /\ QueueHolds' /\ BatchIsFront'
  <2>1. Uncleared => \/ current' = current
                     \/ current' = NoQueue /\ items[current] = <<>> /\ dropped[current] = {}
    BY <1>2, <1>3 DEF LeavesDrains
  <2>2. \A q \in Objects : drain'[q].pc = "running" =>
          /\ drain[q].pc = "running"
          /\ drain'[q].batch = drain[q].batch /\ drain'[q].summary = drain[q].summary
    BY <1>5
  <2>. QED
    BY <1>1, <1>4, <2>1, <2>2, QueueStays DEF QueueInv
<1>10. DrainIsMapped'
  BY <1>1, <1>3 DEF LeavesDrains, DrainIsMapped, Uncleared
<1>. QED
  BY <1>4, <1>7, <1>8, <1>9, <1>10 DEF QueueInv

(* A drain changes its place, not the queue.                               *)
LEMMA DrainMoves ==
  ASSUME QueueInv, NEW o \in Objects, draining[o], NEW d \in Drains, d.pc # "off", Equipped(d),
         drain' = [drain EXCEPT ![o] = d],
         UNCHANGED <<current, draining, callback, objectVars, enqueueVars, ghostVars, offered>>,
         d.pc = "running" => FrontOf(d, items[o], dropped[o]),
         "late" \notin events /\ d.pc = "checked" => ~Crossing(items[o]),
         "late" \notin events /\ d.kind = "batch" =>
           \A m, n \in ToSet(d.batch) : Route[m] = Route[n]
  PROVE  QueueInv'
<1>1. /\ UNCHANGED <<items, settings, dropped, lastRun, recent, owed, fate, arrivals, events, offered>>
      /\ UNCHANGED <<current, draining, callback>>
      /\ Types /\ DrainsAreTrue /\ DrainIsMapped
  BY DEF objectVars, enqueueVars, ghostVars, QueueInv
<1>2. /\ drain' \in [Objects -> Drains] /\ drain'[o] = d
      /\ \A q \in Objects : q # o => drain'[q] = drain[q]
  BY <1>1 DEF Types
<1>3. Types' /\ DrainsAreTrue'
  BY <1>1, <1>2 DEF Types, DrainsAreTrue, Equipped
<1>4. Accepted' /\ Cached' /\ AcceptedOnce'
  BY <1>1, AcceptedStays DEF QueueInv
<1>5. CheckedIsOneRoute' /\ MixedNeedsLateArrival'
  BY <1>1, <1>2, RoutesStay DEF QueueInv
<1>6. HoldsLatest' /\ BatchIsEarlier' /\ QueueHolds' /\ BatchIsFront'
  <2>1. \A q \in Objects : drain'[q].pc = "running" =>
          \/ /\ drain[q].pc = "running"
             /\ drain'[q].batch = drain[q].batch /\ drain'[q].summary = drain[q].summary
          \/ FrontOf(drain'[q], items[q], dropped[q])
    BY <1>2
  <2>. QED
    BY <1>1, <1>3, <2>1, QueueStays DEF QueueInv
<1>7. DrainIsMapped'
  BY <1>1 DEF DrainIsMapped, Uncleared
<1>. QED
  BY <1>3, <1>4, <1>5, <1>6, <1>7 DEF QueueInv

(* A prompt of the front of the queue is run.                              *)
LEMMA RunKeeps ==
  ASSUME QueueInv, NEW o \in Objects, draining[o], UNCHANGED offered,
         NEW k \in {"batch", "next", "summary"}, NEW b \in Seq(Messages),
         NEW S \in SUBSET Messages, NEW f \in BOOLEAN, Run(o, k, b, S, f),
         k = "next" => Len(b) = 1, k = "summary" => b = <<>>,
         Len(b) <= Len(items[o]), \A i \in 1..Len(b) : b[i] = items[o][i],
         S # {} => S = dropped[o],
         "late" \notin events /\ k = "batch" => \A m, n \in ToSet(b) : Route[m] = Route[n]
  PROVE  QueueInv'
<1>1. PICK d \in Drains : d = Running(k, b, S, f)
  BY RunningIs
<1>2. d.pc = "running" /\ d.kind = k /\ d.batch = b /\ d.summary = S
  BY <1>1, RunningIs
<1>3. /\ drain' = [drain EXCEPT ![o] = d]
      /\ UNCHANGED <<current, draining, callback, objectVars, enqueueVars, ghostVars, offered>>
  BY <1>1 DEF Run
<1>4. Equipped(d) /\ FrontOf(d, items[o], dropped[o])
  BY <1>2 DEF Equipped, FrontOf
<1>5. d.pc # "off" /\ d.pc # "checked"
  BY <1>2
<1>6. "late" \notin events /\ d.kind = "batch" => \A m, n \in ToSet(d.batch) : Route[m] = Route[n]
  BY <1>2
<1>. QED
  BY <1>3, <1>4, <1>5, <1>6, DrainMoves

(* The first item is the front of the queue.                               *)
LEMMA HeadIsFront ==
  ASSUME NEW s \in Seq(Messages), s # <<>>
  PROVE  /\ <<Head(s)>> \in Seq(Messages) /\ Len(<<Head(s)>>) = 1
         /\ Len(<<Head(s)>>) <= Len(s) /\ \A i \in 1..1 : <<Head(s)>>[i] = s[i]
<1>1. Len(s) \in Nat \ {0} /\ Head(s) \in Messages /\ Head(s) = s[1]
  BY EmptySeq, HeadTailProperties
<1>. QED
  BY <1>1

(* The debounce is over: the drain checks, runs a prompt or ends.          *)
LEMMA DebounceOverKeeps ==
  ASSUME QueueInv, NEW o \in Objects, DebounceOver(o), UNCHANGED offered
  PROVE  QueueInv'
<1>1. /\ draining[o] /\ drain[o].pc = "debounce" /\ Equipped(drain[o])
      /\ drain[o] \in Drains /\ drain[o].force \in BOOLEAN /\ items[o] \in Seq(Messages)
      /\ dropped[o] \in SUBSET Messages
  BY DEF DebounceOver, QueueInv, DrainsAreTrue, Types, Drains
<1>2. /\ <<>> \in Seq(Messages) /\ Len(<<>>) = 0 /\ {} \in SUBSET Messages
      /\ Len(items[o]) \in Nat
  BY <1>1, EmptySeq, LenProperties
<1>. DEFINE force == drain[o].force \/ Crossing(items[o])
<1>3. CASE Break(o)
  BY <1>1, <1>3, BreakKeeps
<1>4. ASSUME NEW f \in BOOLEAN, items[o] # <<>>, Run(o, "next", <<Head(items[o])>>, {}, f)
      PROVE  QueueInv'
  <2>1. PICK b \in Seq(Messages) : b = <<Head(items[o])>>
    BY <1>1, <1>4, HeadIsFront
  <2>2. Len(b) = 1 /\ Len(b) <= Len(items[o]) /\ \A i \in 1..Len(b) : b[i] = items[o][i]
    BY <1>1, <1>4, <2>1, HeadIsFront
  <2>3. Run(o, "next", b, {}, f)
    BY <1>4, <2>1
  <2>. QED
    BY <1>1, <1>2, <2>2, <2>3, RunKeeps
<1>5. ASSUME Run(o, "summary", <<>>, dropped[o], drain[o].force) PROVE QueueInv'
  <2>1. PICK S \in SUBSET Messages, f \in BOOLEAN : S = dropped[o] /\ f = drain[o].force
    BY <1>1
  <2>2. Run(o, "summary", <<>>, S, f)
    BY <1>5, <2>1
  <2>3. PICK b \in Seq(Messages) : b = <<>>
    BY <1>2
  <2>4. Len(b) = 0 /\ Len(b) <= Len(items[o]) /\ \A i \in 1..Len(b) : b[i] = items[o][i]
    BY <1>2, <2>3
  <2>5. Run(o, "summary", b, S, f)
    BY <2>2, <2>3
  <2>. QED
    BY <1>1, <2>1, <2>3, <2>4, <2>5, RunKeeps
<1>6. ASSUME drain' = [drain EXCEPT ![o].pc = "checked"], ~Crossing(items[o]),
             UNCHANGED <<current, draining, callback, objectVars, enqueueVars, ghostVars>>
      PROVE  QueueInv'
  <2>1. PICK d \in Drains : d = [drain[o] EXCEPT !.pc = "checked"]
    BY <1>1 DEF Drains
  <2>2. /\ d.pc = "checked" /\ d.kind = drain[o].kind /\ d.batch = drain[o].batch
        /\ d.summary = drain[o].summary
    BY <1>1, <2>1 DEF Drains
  <2>3. Equipped(d) /\ d.pc # "off" /\ d.pc # "running" /\ d.kind # "batch"
    BY <1>1, <2>2 DEF Equipped
  <2>4. drain' = [drain EXCEPT ![o] = d]
    BY <1>6, <2>1
  <2>. QED
    BY <1>1, <1>6, <2>3, <2>4, DrainMoves
<1>7. CASE settings[o].mode = "collect"
  <2>1. CASE ~force
    BY <1>6, <1>7, <2>1 DEF DebounceOver
  <2>2. CASE force /\ items[o] = <<>>
    BY <1>3, <1>7, <2>2 DEF DebounceOver
  <2>3. CASE force /\ items[o] # <<>>
    <3>1. Run(o, "next", <<Head(items[o])>>, {}, TRUE)
      BY <1>7, <2>3 DEF DebounceOver
    <3>. QED
      BY <1>4, <2>3, <3>1
  <2>. QED
    BY <2>1, <2>2, <2>3
<1>8. CASE settings[o].mode # "collect"
  <2>1. CASE items[o] = <<>>
    BY <1>3, <1>8, <2>1 DEF DebounceOver
  <2>2. CASE items[o] # <<>> /\ dropped[o] # {} /\ ~lastRun[o]
    BY <1>3, <1>8, <2>2 DEF DebounceOver
  <2>3. CASE items[o] # <<>> /\ dropped[o] # {} /\ lastRun[o]
    BY <1>5, <1>8, <2>3 DEF DebounceOver
  <2>4. CASE items[o] # <<>> /\ dropped[o] = {}
    <3>1. Run(o, "next", <<Head(items[o])>>, {}, drain[o].force)
      BY <1>8, <2>4 DEF DebounceOver
    <3>2. PICK f \in BOOLEAN : f = drain[o].force
      BY <1>1
    <3>3. Run(o, "next", <<Head(items[o])>>, {}, f)
      BY <3>1, <3>2
    <3>. QED
      BY <1>4, <2>4, <3>3
  <2>. QED
    BY <2>1, <2>2, <2>3, <2>4
<1>. QED
  BY <1>7, <1>8

(* The items are collected, or the drain ends.                             *)
LEMMA CollectBatchKeeps ==
  ASSUME QueueInv, NEW o \in Objects, CollectBatch(o), UNCHANGED offered
  PROVE  QueueInv'
<1>1. /\ draining[o] /\ drain[o].pc = "checked" /\ drain[o].force \in BOOLEAN
      /\ items[o] \in Seq(Messages) /\ dropped[o] \in SUBSET Messages
  BY DEF CollectBatch, QueueInv, DrainsAreTrue, Types, Drains
<1>2. CASE Break(o)
  BY <1>1, <1>2, BreakKeeps
<1>3. CASE Run(o, "batch", items[o], dropped[o], drain[o].force)
  <2>1. PICK b \in Seq(Messages), S \in SUBSET Messages, f \in BOOLEAN :
          b = items[o] /\ S = dropped[o] /\ f = drain[o].force
    BY <1>1
  <2>2. Run(o, "batch", b, S, f)
    BY <1>3, <2>1
  <2>3. "late" \notin events => \A m, n \in ToSet(b) : Route[m] = Route[n]
    <3>1. "late" \notin events => ~Crossing(b)
      BY <1>1, <2>1 DEF QueueInv, CheckedIsOneRoute
    <3>. QED
      BY <3>1, OneRouteOnly
  <2>4. Len(b) <= Len(items[o]) /\ \A i \in 1..Len(b) : b[i] = items[o][i]
    BY <2>1, LenProperties
  <2>. QED
    BY <1>1, <2>1, <2>2, <2>3, <2>4, RunKeeps
<1>. QED
  BY <1>2, <1>3 DEF CollectBatch

(* A run of the agent ends and schedules the drain.                        *)
LEMMA ScheduleDrainKeeps ==
  ASSUME QueueInv, ScheduleDrain, UNCHANGED offered
  PROVE  QueueInv'
<1>1. /\ Types /\ DrainsAreTrue /\ DrainIsMapped
      /\ owed' = FALSE
      /\ UNCHANGED <<items, settings, dropped, lastRun, recent, fate, arrivals, offered>>
  BY DEF ScheduleDrain, objectVars, QueueInv
<1>2. CASE current # NoQueue /\ ~draining[current]
  <2>1. /\ current \in Objects
        /\ Begin(current, items, dropped, draining, drain) /\ events' = events \cup {"scheduled"}
    BY <1>1, <1>2 DEF ScheduleDrain, Types
  <2>2. PICK c \in Objects, rg \in [Objects -> BOOLEAN], rn \in [Objects -> Drains] :
          c = current /\ rg = draining /\ rn = drain
    BY <1>1, <2>1 DEF Types
  <2>0. PICK its, drp : its = items /\ drp = dropped
    OBVIOUS
  <2>3. Begin(c, its, drp, rg, rn)
    BY <2>0, <2>1, <2>2
  <2>4. /\ callback' = TRUE
        /\ draining' \in [Objects -> BOOLEAN] /\ drain' \in [Objects -> Drains]
        /\ \A p \in Objects : p # c => draining'[p] = rg[p] /\ drain'[p] = rn[p]
        /\ \/ current' = c /\ draining'[c] = TRUE /\ drain'[c] = Debouncing(FALSE)
           \/ /\ current' = NoQueue /\ its[c] = <<>> /\ drp[c] = {}
              /\ draining' = rg /\ drain' = rn
    BY <2>2, <2>3, DebouncingIs DEF Begin
  <2>5. /\ \A p \in Objects : p # c => draining'[p] = draining[p] /\ drain'[p] = drain[p]
        /\ \/ current' = current /\ draining'[c] = TRUE /\ drain'[c] = Debouncing(FALSE)
           \/ /\ current' = NoQueue /\ items[current] = <<>> /\ dropped[current] = {}
              /\ draining' = draining /\ drain' = drain
    BY <2>0, <2>2, <2>4
  <2>6. \A p \in Objects : \/ drain'[p] = drain[p] /\ draining'[p] = draining[p]
                           \/ drain'[p] = Debouncing(FALSE) /\ draining'[p] = TRUE
    BY <2>5
  <2>7. Types'
    BY <1>1, <2>1, <2>4, <2>5 DEF Types
  <2>8. DrainsAreTrue'
    <3>1. Debouncing(FALSE).pc = "debounce" /\ Equipped(Debouncing(FALSE))
      BY DebouncingIs DEF Equipped
    <3>2. \A p \in Objects : (draining'[p] <=> drain'[p].pc # "off") /\ Equipped(drain'[p])
      BY <1>1, <2>6, <3>1 DEF DrainsAreTrue
    <3>. QED
      BY <3>2 DEF DrainsAreTrue, Equipped
  <2>9. Accepted' /\ Cached' /\ AcceptedOnce'
    BY <1>1, <2>1, AcceptedStays DEF QueueInv
  <2>10. \A p \in Objects : drain'[p] = drain[p] \/ (drain'[p].pc = "debounce" /\ drain'[p].kind = "none")
    BY <2>6, DebouncingIs
  <2>11. CheckedIsOneRoute' /\ MixedNeedsLateArrival'
    BY <1>1, <2>1, <2>10, RoutesStay DEF QueueInv
  <2>12. HoldsLatest' /\ BatchIsEarlier' /\ QueueHolds' /\ BatchIsFront'
    <3>1. \A q \in Objects : drain'[q].pc = "running" => drain'[q] = drain[q]
      BY <2>10
    <3>2. events \ {"scheduled"} \subseteq events'
      BY <2>1
    <3>. QED
      BY <1>1, <2>5, <2>7, <3>1, <3>2, QueueStays DEF QueueInv
  <2>13. DrainIsMapped'
    <3>1. Uncleared' => Uncleared /\ \A p \in Objects : ~draining[p]
      BY <1>1, <1>2, <2>1 DEF Uncleared, DrainIsMapped
    <3>2. "scheduled" \in events'
      BY <2>1
    <3>3. Uncleared' => \A p \in Objects : draining'[p] => p = current'
      BY <2>2, <2>5, <3>1
    <3>. QED
      BY <3>2, <3>3 DEF DrainIsMapped
  <2>. QED
    BY <2>7, <2>8, <2>9, <2>11, <2>12, <2>13 DEF QueueInv
<1>3. CASE ~(current # NoQueue /\ ~draining[current])
  <2>1. UNCHANGED <<current, draining, callback, drain, events>>
    BY <1>3 DEF ScheduleDrain, drainVars
  <2>2. Types' /\ DrainsAreTrue'
    BY <1>1, <2>1 DEF Types, DrainsAreTrue, Equipped
  <2>3. Accepted' /\ Cached' /\ AcceptedOnce'
    BY <1>1, <2>1, AcceptedStays DEF QueueInv
  <2>4. CheckedIsOneRoute' /\ MixedNeedsLateArrival'
    BY <1>1, <2>1, RoutesStay DEF QueueInv
  <2>5. HoldsLatest' /\ BatchIsEarlier' /\ QueueHolds' /\ BatchIsFront'
    BY <1>1, <2>1, <2>2, QueueStays DEF QueueInv
  <2>6. DrainIsMapped'
    BY <1>1, <2>1 DEF DrainIsMapped, Uncleared
  <2>. QED
    BY <2>2, <2>3, <2>4, <2>5, <2>6 DEF QueueInv
<1>. QED
  BY <1>2, <1>3

(* An entry of the cache expires.                                          *)
LEMMA ExpireKeeps ==
  ASSUME QueueInv, NEW i, Expire(i), UNCHANGED offered
  PROVE  QueueInv'
<1>1. /\ UNCHANGED <<items, settings, dropped, lastRun, current, draining, callback, drain>>
      /\ UNCHANGED <<owed, fate, arrivals, offered>>
      /\ events' = events \cup {"expiry"}
      /\ Types /\ DrainsAreTrue /\ DrainIsMapped /\ Accepted
  BY DEF Expire, objectVars, drainVars, QueueInv
<1>2. Types' /\ DrainsAreTrue'
  BY <1>1 DEF Types, DrainsAreTrue, Equipped
<1>3. Accepted' /\ Cached' /\ AcceptedOnce'
  BY <1>1 DEF Accepted, Cached, AcceptedOnce
<1>4. CheckedIsOneRoute' /\ MixedNeedsLateArrival'
  BY <1>1, RoutesStay DEF QueueInv
<1>5. HoldsLatest' /\ BatchIsEarlier' /\ QueueHolds' /\ BatchIsFront'
  BY <1>1, <1>2, QueueStays DEF QueueInv
<1>6. DrainIsMapped'
  BY <1>1 DEF DrainIsMapped, Uncleared
<1>. QED
  BY <1>2, <1>3, <1>4, <1>5, <1>6 DEF QueueInv

(* The key is cleared.                                                     *)
LEMMA ClearKeeps ==
  ASSUME QueueInv, ClearSessionQueues, UNCHANGED offered
  PROVE  QueueInv'
<1>1. /\ UNCHANGED <<settings, draining, drain, recent, owed, arrivals, offered>>
      /\ callback' = FALSE /\ current' = NoQueue
      /\ Types /\ DrainsAreTrue /\ DrainIsMapped /\ CheckedIsOneRoute /\ QueueHolds
  BY DEF ClearSessionQueues, CallbackAfterClear, enqueueVars, QueueInv
<1>2. CASE current = NoQueue
  <2>1. /\ UNCHANGED <<items, dropped, lastRun, fate>>
        /\ events' = events \ {"scheduled"}
    BY <1>2 DEF ClearSessionQueues
  <2>2. Types' /\ DrainsAreTrue'
    BY <1>1, <2>1 DEF Types, DrainsAreTrue, Equipped
  <2>3. Accepted' /\ Cached' /\ AcceptedOnce'
    BY <1>1, <2>1, AcceptedStays DEF QueueInv
  <2>4. CheckedIsOneRoute' /\ MixedNeedsLateArrival'
    BY <1>1, <2>1, RoutesStay DEF QueueInv
  <2>5. HoldsLatest' /\ BatchIsEarlier' /\ QueueHolds' /\ BatchIsFront'
    <3>1. current' = current /\ events \ {"scheduled"} \subseteq events'
      BY <1>1, <1>2, <2>1
    <3>. QED
      BY <1>1, <2>1, <2>2, <3>1, QueueStays DEF QueueInv
  <2>6. DrainIsMapped'
    BY <1>1, <1>2, <2>1, ObjectsAre DEF DrainIsMapped, Uncleared
  <2>. QED
    BY <2>2, <2>3, <2>4, <2>5, <2>6 DEF QueueInv
<1>3. CASE current # NoQueue
  <2>1. /\ current \in Objects
        /\ items' = [items EXCEPT ![current] = <<>>]
        /\ dropped' = [dropped EXCEPT ![current] = {}]
        /\ lastRun' = [lastRun EXCEPT ![current] = FALSE]
        /\ fate' = [m \in Messages |->
             IF m \in ToSet(items[current]) \cup dropped[current] THEN "cleared" ELSE fate[m]]
        /\ events' = (events \ {"scheduled"}) \cup (IF draining[current] THEN {"clear"} ELSE {})
    BY <1>1, <1>3 DEF ClearSessionQueues, Types
  <2>2. Types'
    <3>1. /\ items' \in [Objects -> Seq(Messages)] /\ dropped' \in [Objects -> SUBSET Messages]
          /\ lastRun' \in [Objects -> BOOLEAN]
      BY <1>1, <2>1, EmptySeq DEF Types
    <3>2. fate' \in [Messages -> Fates]
      BY <1>1, <2>1 DEF Types, Fates
    <3>. QED
      BY <1>1, <3>1, <3>2 DEF Types
  <2>3. DrainsAreTrue'
    BY <1>1 DEF DrainsAreTrue, Equipped
  <2>4. Accepted' /\ Cached' /\ AcceptedOnce'
    BY <1>1, <2>1, AcceptedStays DEF QueueInv
  <2>5. CheckedIsOneRoute' /\ MixedNeedsLateArrival'
    <3>1. \A q \in Objects : items'[q] = items[q] \/ items'[q] = <<>>
      BY <1>1, <2>1 DEF Types
    <3>2. "late" \in events => "late" \in events'
      BY <2>1
    <3>. QED
      BY <1>1, <3>1, <3>2, NoneCrosses, RoutesStay DEF QueueInv
  <2>6. HoldsLatest' /\ BatchIsEarlier' /\ BatchIsFront'
    BY <1>1, ObjectsAre DEF HoldsLatest, BatchIsEarlier, BatchIsFront
  <2>7. QueueHolds'
    <3>1. Undisturbed' => Undisturbed
      BY <2>1 DEF Undisturbed
    <3>2. ASSUME Undisturbed, NEW m \in Messages, fate'[m] \in {"queued", "summarized"} PROVE FALSE
      <4>1. fate[m] \in {"queued", "summarized"} /\ m \notin ToSet(items[current]) \cup dropped[current]
        BY <2>1, <3>2
      <4>. QED
        BY <1>1, <3>2, <4>1 DEF QueueHolds
    <3>. QED
      BY <3>1, <3>2 DEF QueueHolds
  <2>8. DrainIsMapped'
    <3>1. Uncleared' => Uncleared /\ ~draining[current]
      BY <2>1 DEF Uncleared
    <3>. QED
      BY <1>1, <3>1 DEF DrainIsMapped
  <2>. QED
    BY <2>2, <2>3, <2>4, <2>5, <2>6, <2>7, <2>8 DEF QueueInv
<1>. QED
  BY <1>2, <1>3

(* The queue a call works on: the key's, or a new and empty one that       *)
(* nobody drains.                                                          *)
LEMMA TargetIs ==
  ASSUME Types, IsNew => Garbage # {}
  PROVE  /\ Target \in Objects
         /\ TargetItems \in Seq(Messages) /\ TargetDropped \in SUBSET Messages
         /\ IsNew => ~draining[Target] /\ TargetItems = <<>> /\ TargetDropped = {}
         /\ ~IsNew => /\ Target = current /\ TargetItems = items[Target]
                      /\ TargetDropped = dropped[Target]
<1>1. CASE IsNew
  <2>1. Target \in Garbage
    BY <1>1 DEF Target
  <2>. QED
    BY <1>1, <2>1, EmptySeq DEF Garbage, TargetItems, TargetDropped
<1>2. CASE ~IsNew
  <2>1. Target = current /\ current \in Objects
    BY <1>2 DEF Target, IsNew, Types
  <2>. QED
    BY <1>2, <2>1 DEF TargetItems, TargetDropped, Types
<1>. QED
  BY <1>1, <1>2

(* A message is refused.                                                   *)
LEMMA RefusedKeeps ==
  ASSUME QueueInv, NEW m \in Messages, NEW s \in offered, EnqueueRefused(m, s), UNCHANGED offered
  PROVE  QueueInv'
<1>1. /\ UNCHANGED <<items, dropped, current, draining, callback, drain, recent, arrivals>>
      /\ UNCHANGED <<events, offered>> /\ fate' = [fate EXCEPT ![m] = "refused"]
      /\ settings' = [settings EXCEPT ![Target] = s]
      /\ lastRun' = [lastRun EXCEPT ![Target] = TRUE] /\ owed' = OwedAfterEnqueue
      /\ Types /\ DrainsAreTrue /\ DrainIsMapped
  BY DEF EnqueueRefused, drainVars, QueueInv
<1>2. s \in Settings
  BY <1>1 DEF Types, Settings
<1>3. \A x \in Messages : fate'[x] = fate[x] \/ fate'[x] = "refused"
  BY <1>1 DEF Types
<1>4. Types' /\ DrainsAreTrue'
  <2>1. settings' \in [Objects -> Settings] /\ lastRun' \in [Objects -> BOOLEAN]
    BY <1>1, <1>2 DEF Types
  <2>2. fate' \in [Messages -> Fates]
    BY <1>1 DEF Types, Fates
  <2>3. owed' \in BOOLEAN
    BY <1>1 DEF Types, OwedAfterEnqueue
  <2>. QED
    BY <1>1, <2>1, <2>2, <2>3 DEF Types, DrainsAreTrue, Equipped
<1>5. Accepted' /\ Cached' /\ AcceptedOnce'
  BY <1>1, <1>3, AcceptedStays DEF QueueInv
<1>6. CheckedIsOneRoute' /\ MixedNeedsLateArrival'
  BY <1>1, RoutesStay DEF QueueInv
<1>7. HoldsLatest' /\ BatchIsEarlier' /\ QueueHolds' /\ BatchIsFront'
  BY <1>1, <1>3, <1>4, QueueStays DEF QueueInv
<1>8. DrainIsMapped'
  BY <1>1 DEF DrainIsMapped, Uncleared
<1>. QED
  BY <1>4, <1>5, <1>6, <1>7, <1>8 DEF QueueInv

(* A duplicate is turned away.                                             *)
LEMMA DuplicateKeeps ==
  ASSUME QueueInv, NEW m \in Messages, NEW s \in offered, EnqueueDuplicate(m, s), UNCHANGED offered
  PROVE  QueueInv'
<1>1. /\ UNCHANGED <<draining, callback, drain, recent, arrivals, events, offered>>
      /\ IsNew => Garbage # {}
      /\ fate' = [fate EXCEPT ![m] = "duplicate"]
      /\ current' = Target
      /\ settings' = [settings EXCEPT ![Target] = s]
      /\ items' = [items EXCEPT ![Target] = TargetItems]
      /\ dropped' = [dropped EXCEPT ![Target] = TargetDropped]
      /\ lastRun' = [lastRun EXCEPT ![Target] = lastRun[Target] /\ ~IsNew]
      /\ owed' = OwedAfterEnqueue
      /\ Types /\ DrainsAreTrue /\ DrainIsMapped
  BY DEF EnqueueDuplicate, QueueInv
<1>2. PICK t \in Objects : t = Target
  BY <1>1, TargetIs
<1>3. s \in Settings
  BY <1>1 DEF Types, Settings
<1>4. \A x \in Messages : fate'[x] = fate[x] \/ fate'[x] = "duplicate"
  BY <1>1 DEF Types
<1>5. /\ items'[t] = TargetItems /\ dropped'[t] = TargetDropped
      /\ \A q \in Objects : q # t => items'[q] = items[q] /\ dropped'[q] = dropped[q]
  BY <1>1, <1>2 DEF Types
<1>6. Types' /\ DrainsAreTrue'
  <2>1. /\ settings' \in [Objects -> Settings] /\ items' \in [Objects -> Seq(Messages)]
        /\ dropped' \in [Objects -> SUBSET Messages]
    BY <1>1, <1>2, <1>3, TargetIs DEF Types
  <2>2. lastRun' \in [Objects -> BOOLEAN]
    <3>1. PICK g \in BOOLEAN : g = (lastRun[Target] /\ ~IsNew)
      OBVIOUS
    <3>. QED
      BY <1>1, <3>1 DEF Types
  <2>3. fate' \in [Messages -> Fates]
    BY <1>1 DEF Types, Fates
  <2>4. owed' \in BOOLEAN
    BY <1>1 DEF Types, OwedAfterEnqueue
  <2>. QED
    BY <1>1, <1>2, <2>1, <2>2, <2>3, <2>4 DEF Types, DrainsAreTrue, Equipped
<1>7. Accepted' /\ Cached' /\ AcceptedOnce'
  BY <1>1, <1>4, AcceptedStays DEF QueueInv
<1>8. CASE IsNew
  <2>1. ~draining[t] /\ drain[t].pc = "off" /\ items'[t] = <<>> /\ dropped'[t] = {}
    BY <1>1, <1>2, <1>5, <1>8, TargetIs DEF DrainsAreTrue
  <2>2. CheckedIsOneRoute' /\ MixedNeedsLateArrival'
    BY <1>1, <1>5, <2>1, NoneCrosses, RoutesStay DEF QueueInv
  <2>3. HoldsLatest'
    <3>1. Len(items'[t]) = 0 /\ Len(arrivals) \in Nat
      BY <1>1, <2>1, EmptySeq, LenProperties DEF Types
    <3>. QED
      BY <1>1, <1>2, <3>1 DEF HoldsLatest
  <2>4. BatchIsEarlier' /\ BatchIsFront'
    BY <1>1, <1>2, <2>1 DEF BatchIsEarlier, BatchIsFront
  <2>5. QueueHolds'
    <3>1. QueueHolds /\ current = NoQueue
      BY <1>8 DEF QueueInv, IsNew
    <3>2. \A x \in Messages : fate'[x] \in {"queued", "summarized"} => fate[x] = fate'[x]
      BY <1>4
    <3>. QED
      BY <1>1, <3>1, <3>2 DEF QueueHolds, Undisturbed
  <2>6. DrainIsMapped'
    BY <1>1, <1>8, ObjectsAre DEF DrainIsMapped, Uncleared, IsNew
  <2>. QED
    BY <1>6, <1>7, <2>2, <2>3, <2>4, <2>5, <2>6 DEF QueueInv
<1>9. CASE ~IsNew
  <2>1. /\ current' = current
        /\ \A q \in Objects : items'[q] = items[q] /\ dropped'[q] = dropped[q]
    BY <1>1, <1>2, <1>5, <1>9, TargetIs
  <2>2. CheckedIsOneRoute' /\ MixedNeedsLateArrival'
    BY <1>1, <2>1, RoutesStay DEF QueueInv
  <2>3. HoldsLatest' /\ BatchIsEarlier' /\ QueueHolds' /\ BatchIsFront'
    BY <1>1, <1>4, <1>6, <2>1, QueueStays DEF QueueInv
  <2>4. DrainIsMapped'
    BY <1>1, <2>1 DEF DrainIsMapped, Uncleared
  <2>. QED
    BY <1>6, <1>7, <2>2, <2>3, <2>4 DEF QueueInv
<1>. QED
  BY <1>8, <1>9

(* How many items make room for one more: never more than there are.       *)
LEMMA ExcessIs ==
  ASSUME NEW s \in Settings, NEW k \in Nat
  PROVE  Excess(k, s) \in 0..k
<1>1. s.cap \in Nat \ {0}
  BY MessagesAssumption
<1>. QED
  BY <1>1 DEF Excess

(* The queue of an accepted message: what is left of it, and the message.  *)
LEMMA PushedIs ==
  ASSUME NEW ti \in Seq(Messages), NEW n \in 0..Len(ti), NEW m \in Messages, NEW q,
         q = Pushed(SubSeq(ti, n + 1, Len(ti)), m)
  PROVE  q \in Seq(Messages) /\ q # <<>>
<1>1. PICK k \in Nat : k = n
  BY LenProperties
<1>2. PICK r \in Seq(Messages) : r = SubSeq(ti, k + 1, Len(ti))
  BY Rest
<1>. QED
  BY <1>1, <1>2, AppendProperties DEF Pushed

(* What an accepted message leaves of the object t it is queued in: ti     *)
(* and td are t's items and dropped messages, fr the n items that make     *)
(* room for it.                                                            *)
Accepting(m, t, ti, td, n, fr, s) ==
  /\ items' \in [Objects -> Seq(Messages)] /\ items'[t] = Pushed(SubSeq(ti, n + 1, Len(ti)), m)
  /\ dropped' \in [Objects -> SUBSET Messages]
  /\ dropped'[t] = td \cup (IF s.dropPolicy = "summarize" THEN fr ELSE {})
  /\ \A q \in Objects : q # t => items'[q] = items[q] /\ dropped'[q] = dropped[q]
  /\ fate' \in [Messages -> Fates] /\ fate'[m] = "queued"
  /\ \A x \in Messages : x # m =>
       fate'[x] = IF x \in fr
                    THEN IF s.dropPolicy = "summarize" THEN "summarized" ELSE "dropped"
                    ELSE fate[x]
  /\ events' = EventsAfterAccept(t, n)
  /\ current' = t /\ draining' \in [Objects -> BOOLEAN] /\ drain' \in [Objects -> Drains]
  /\ callback' = callback
  /\ \A p \in Objects : \/ drain'[p] = drain[p] /\ draining'[p] = draining[p]
                        \/ /\ p = t /\ callback /\ draining'[p] = TRUE
                           /\ drain'[p] = Debouncing(FALSE)

(* Accepting a message does what Accepting says.                           *)
LEMMA AcceptIs ==
  ASSUME Types, NEW m \in Messages, NEW s \in Settings, Accept(m, s),
         NEW t \in Objects, NEW ti \in Seq(Messages), NEW td \in SUBSET Messages,
         NEW n \in 0..Len(ti), NEW fr \in SUBSET Messages,
         t = Target, ti = TargetItems, td = TargetDropped, n = Excess(Len(ti), s),
         fr = ToSet(SubSeq(ti, 1, n))
  PROVE  Accepting(m, t, ti, td, n, fr, s)
<1>1. PICK its : its = [items EXCEPT ![t] = Pushed(SubSeq(ti, n + 1, Len(ti)), m)]
  OBVIOUS
<1>2. PICK drp : drp = [dropped EXCEPT ![t] =
                          td \cup (IF s.dropPolicy = "summarize" THEN fr ELSE {})]
  OBVIOUS
<1>3. /\ items' = its /\ dropped' = drp
      /\ fate' = [x \in Messages |->
                   IF x = m THEN "queued"
                   ELSE IF x \in fr
                     THEN IF s.dropPolicy = "summarize" THEN "summarized" ELSE "dropped"
                     ELSE fate[x]]
      /\ events' = EventsAfterAccept(t, n)
      /\ IF ~draining[t] /\ callback
           THEN Begin(t, its, drp, draining, drain)
           ELSE current' = t /\ UNCHANGED <<draining, callback, drain>>
  BY <1>1, <1>2 DEF Accept
<1>4. /\ its \in [Objects -> Seq(Messages)] /\ its[t] = Pushed(SubSeq(ti, n + 1, Len(ti)), m)
      /\ its[t] # <<>> /\ \A q \in Objects : q # t => its[q] = items[q]
  <2>0. PICK e : e = Pushed(SubSeq(ti, n + 1, Len(ti)), m)
    OBVIOUS
  <2>1. e \in Seq(Messages) /\ e # <<>>
    BY <2>0, PushedIs
  <2>. QED
    BY <1>1, <2>0, <2>1 DEF Types
<1>5. /\ drp \in [Objects -> SUBSET Messages]
      /\ drp[t] = td \cup (IF s.dropPolicy = "summarize" THEN fr ELSE {})
      /\ \A q \in Objects : q # t => drp[q] = dropped[q]
  <2>1. PICK e \in SUBSET Messages : e = td \cup (IF s.dropPolicy = "summarize" THEN fr ELSE {})
    OBVIOUS
  <2>. QED
    BY <1>2, <2>1 DEF Types
<1>6. fate' \in [Messages -> Fates]
  BY <1>3 DEF Types, Fates
<1>7. /\ current' = t /\ draining' \in [Objects -> BOOLEAN] /\ drain' \in [Objects -> Drains]
      /\ callback' = callback
      /\ \A p \in Objects : \/ drain'[p] = drain[p] /\ draining'[p] = draining[p]
                            \/ /\ p = t /\ callback /\ draining'[p] = TRUE
                               /\ drain'[p] = Debouncing(FALSE)
  <2>1. CASE ~draining[t] /\ callback
    <3>1. /\ callback' = TRUE /\ current' = t
          /\ draining' = [draining EXCEPT ![t] = TRUE]
          /\ drain' = [drain EXCEPT ![t] = Debouncing(FALSE)]
      BY <1>3, <1>4, <2>1 DEF Begin
    <3>2. Debouncing(FALSE) \in Drains
      BY DebouncingIs
    <3>3. callback = TRUE
      BY <2>1 DEF Types
    <3>. QED
      BY <2>1, <3>1, <3>2, <3>3 DEF Types
  <2>2. CASE ~(~draining[t] /\ callback)
    BY <1>3, <2>2 DEF Types
  <2>. QED
    BY <2>1, <2>2
<1>8. /\ fate'[m] = "queued"
      /\ \A x \in Messages : x # m =>
           fate'[x] = IF x \in fr
                        THEN IF s.dropPolicy = "summarize" THEN "summarized" ELSE "dropped"
                        ELSE fate[x]
  BY <1>3
<1>. QED
  BY <1>3, <1>4, <1>5, <1>6, <1>7, <1>8 DEF Accepting

(* The items of the object a call works on are the latest arrivals, also   *)
(* when the object is new and has none.                                    *)
LEMMA TargetHoldsLatest ==
  ASSUME Types, HoldsLatest, Uncleared, IsNew => Garbage # {},
         NEW ti \in Seq(Messages), ti = TargetItems
  PROVE  /\ Len(ti) <= Len(arrivals)
         /\ \A i \in 1..Len(ti) : ti[i] = arrivals[Len(arrivals) - Len(ti) + i]
         /\ \A i \in 1..Len(ti) : fate[ti[i]] # "delivered"
<1>1. CASE IsNew
  <2>1. Len(ti) = 0 /\ Len(arrivals) \in Nat
    BY <1>1, EmptySeq, LenProperties DEF TargetItems, Types
  <2>. QED
    BY <2>1
<1>2. CASE ~IsNew
  <2>1. current \in Objects /\ ti = items[current]
    BY <1>2, TargetIs DEF IsNew, Types
  <2>. QED
    BY <2>1 DEF HoldsLatest, Start
<1>. QED
  BY <1>1, <1>2

(* A message is accepted.                                                  *)
LEMMA EnqueueKeeps ==
  ASSUME QueueInv, NEW m \in Messages, NEW s \in offered, Enqueue(m, s), UNCHANGED offered
  PROVE  QueueInv'
<1>1. /\ fate[m] = "new" /\ (IsNew => Garbage # {}) /\ ~IsDuplicate(m)
      /\ Accept(m, s)
      /\ settings' = [settings EXCEPT ![Target] = s]
      /\ lastRun' = [lastRun EXCEPT ![Target] = TRUE]
      /\ recent' = recent \cup {Identity[m]} /\ owed' = OwedAfterEnqueue
      /\ arrivals' = Append(arrivals, m)
      /\ Types /\ DrainsAreTrue /\ DrainIsMapped
  BY DEF Enqueue, QueueInv
<1>2. s \in Settings
  BY <1>1 DEF Types, Settings
<1>3. PICK t \in Objects : t = Target
  BY <1>1, TargetIs
<1>4. PICK ti \in Seq(Messages), td \in SUBSET Messages : ti = TargetItems /\ td = TargetDropped
  BY <1>1, TargetIs
<1>5. Len(ti) \in Nat /\ \A i \in 1..Len(ti) : ti[i] \in Messages
  BY LenProperties, ElementOfSeq
<1>6. PICK n \in 0..Len(ti) : n = Excess(Len(ti), s)
  BY <1>2, <1>5, ExcessIs
<1>7. PICK fr : fr = ToSet(SubSeq(ti, 1, n))
  OBVIOUS
<1>8. /\ fr \subseteq Messages
      /\ \A i \in 1..n : ti[i] \in fr
      /\ n = 0 => fr = {}
      /\ \A x \in fr : \E i \in 1..n : x = ti[i]
  <2>1. /\ SubSeq(ti, 1, n) \in Seq(Messages) /\ Len(SubSeq(ti, 1, n)) = n
        /\ \A i \in 1..n : SubSeq(ti, 1, n)[i] = ti[i]
    <3>1. 1 \in Int /\ n \in Int /\ \A i \in 1..n : ti[i] \in Messages
      BY <1>5
    <3>2. /\ SubSeq(ti, 1, n) \in Seq(Messages)
          /\ Len(SubSeq(ti, 1, n)) = IF 1 <= n THEN n - 1 + 1 ELSE 0
          /\ \A i \in 1..(n - 1 + 1) : SubSeq(ti, 1, n)[i] = ti[1 + i - 1]
      BY <3>1, SubSeqProperties
    <3>3. n - 1 + 1 = n /\ (~(1 <= n) => n = 0) /\ \A i \in 1..n : 1 + i - 1 = i
      BY <1>5
    <3>. QED
      BY <3>2, <3>3
  <2>2. \A x : x \in fr <=> \E i \in 1..n : ti[i] = x
    <3>1. PICK r \in Seq(Messages) : r = SubSeq(ti, 1, n)
      BY <2>1
    <3>2. fr = ToSet(r) /\ Len(r) = n /\ \A i \in 1..n : r[i] = ti[i]
      BY <1>7, <2>1, <3>1
    <3>3. \A x : x \in ToSet(r) <=> \E i \in 1..Len(r) : r[i] = x
      BY InToSet
    <3>. QED
      BY <3>2, <3>3
  <2>. QED
    BY <1>5, <2>2
<1>9. Accepting(m, t, ti, td, n, fr, s)
  BY <1>1, <1>2, <1>3, <1>4, <1>6, <1>7, <1>8, AcceptIs
<1>10. /\ items' \in [Objects -> Seq(Messages)] /\ dropped' \in [Objects -> SUBSET Messages]
       /\ dropped'[t] = td \cup (IF s.dropPolicy = "summarize" THEN fr ELSE {})
       /\ \A q \in Objects : q # t => items'[q] = items[q] /\ dropped'[q] = dropped[q]
  BY <1>9 DEF Accepting
<1>11. /\ fate' \in [Messages -> Fates] /\ fate'[m] = "queued"
       /\ \A x \in Messages : x # m =>
            fate'[x] = IF x \in fr
                         THEN IF s.dropPolicy = "summarize" THEN "summarized" ELSE "dropped"
                         ELSE fate[x]
  BY <1>9 DEF Accepting
<1>12. /\ current' = t /\ draining' \in [Objects -> BOOLEAN] /\ drain' \in [Objects -> Drains]
       /\ callback' = callback
       /\ \A p \in Objects : \/ drain'[p] = drain[p] /\ draining'[p] = draining[p]
                             \/ /\ p = t /\ callback /\ draining'[p] = TRUE
                                /\ drain'[p] = Debouncing(FALSE)
  BY <1>9 DEF Accepting
<1>13. /\ events \subseteq events' /\ events' \subseteq events \cup {"overflow", "late"}
       /\ drain[t].pc = "checked" => "late" \in events'
       /\ drain[t].pc = "running" /\ n > 0 => "overflow" \in events'
  BY <1>9 DEF Accepting, EventsAfterAccept, Away
<1>14. /\ items'[t] \in Seq(Messages) /\ Len(items'[t]) = Len(ti) - n + 1
       /\ \A i \in 1..(Len(ti) - n) : items'[t][i] = ti[n + i]
       /\ items'[t][Len(ti) - n + 1] = m
  <2>1. PICK k \in Nat : k = n
    BY <1>5
  <2>2. /\ SubSeq(ti, k + 1, Len(ti)) \in Seq(Messages)
        /\ Len(SubSeq(ti, k + 1, Len(ti))) = IF k <= Len(ti) THEN Len(ti) - k ELSE 0
        /\ \A i \in 1..Len(SubSeq(ti, k + 1, Len(ti))) :
             SubSeq(ti, k + 1, Len(ti))[i] = ti[k + i] /\ k + i <= Len(ti)
    BY Rest
  <2>3. PICK r \in Seq(Messages) : r = SubSeq(ti, k + 1, Len(ti))
    BY <2>2
  <2>4. Len(r) = Len(ti) - n /\ \A i \in 1..Len(r) : r[i] = ti[n + i]
    <3>1. Len(r) = Len(ti) - k
      BY <1>5, <2>1, <2>2, <2>3
    <3>2. \A i \in 1..Len(r) : r[i] = ti[k + i]
      BY <2>2, <2>3
    <3>. QED
      BY <2>1, <3>1, <3>2
  <2>5. items'[t] = Append(r, m)
    BY <1>9, <2>1, <2>3 DEF Accepting, Pushed
  <2>6. /\ Append(r, m) \in Seq(Messages) /\ Len(Append(r, m)) = Len(r) + 1
        /\ \A i \in 1..Len(r) : Append(r, m)[i] = r[i]
        /\ Append(r, m)[Len(r) + 1] = m
    BY AppendProperties
  <2>. QED
    BY <2>4, <2>5, <2>6
<1>15. /\ Len(arrivals) \in Nat /\ Len(arrivals') = Len(arrivals) + 1
       /\ \A i \in 1..Len(arrivals) : arrivals[i] \in Messages /\ arrivals'[i] = arrivals[i]
       /\ arrivals'[Len(arrivals) + 1] = m /\ arrivals' \in Seq(Messages)
  BY <1>1, AppendProperties, LenProperties, ElementOfSeq DEF Types
<1>16. IsNew => ~draining[t] /\ ti = <<>> /\ td = {} /\ current = NoQueue
  BY <1>1, <1>3, <1>4, TargetIs DEF IsNew
<1>17. ~IsNew => t = current /\ ti = items[t] /\ td = dropped[t]
  BY <1>1, <1>3, <1>4, TargetIs
<1>18. Types'
  <2>1. settings' \in [Objects -> Settings] /\ lastRun' \in [Objects -> BOOLEAN]
    BY <1>1, <1>2 DEF Types
  <2>2. owed' \in BOOLEAN
    BY <1>1 DEF Types, OwedAfterEnqueue
  <2>3. callback' \in BOOLEAN /\ offered' \in Configs
    BY <1>1, <1>12 DEF Types
  <2>. QED
    BY <1>10, <1>11, <1>12, <1>15, <2>1, <2>2, <2>3 DEF Types
<1>19. DrainsAreTrue'
  <2>1. Debouncing(FALSE).pc = "debounce" /\ Equipped(Debouncing(FALSE))
    BY DebouncingIs DEF Equipped
  <2>2. \A p \in Objects : (draining'[p] <=> drain'[p].pc # "off") /\ Equipped(drain'[p])
    BY <1>1, <1>12, <2>1 DEF DrainsAreTrue
  <2>. QED
    BY <2>2 DEF DrainsAreTrue, Equipped
<1>20. \A p \in Objects : drain'[p].pc \in {"checked", "running"} \/ drain'[p].kind = "batch" =>
         drain'[p] = drain[p] /\ draining'[p] = draining[p]
  BY <1>12, DebouncingIs
<1>21. Accepted'
  <2>1. Accepted
    BY DEF QueueInv
  <2>2. \A i \in 1..Len(arrivals) : arrivals[i] # m /\ fate'[arrivals[i]] # "new"
    BY <1>1, <1>11, <1>15, <2>1 DEF Accepted
  <2>3. \A i \in 1..Len(arrivals') : fate'[arrivals'[i]] # "new"
    BY <1>11, <1>15, <2>2
  <2>4. \A i, j \in 1..Len(arrivals') : arrivals'[i] = arrivals'[j] => i = j
    BY <1>15, <2>1, <2>2 DEF Accepted
  <2>. QED
    BY <2>3, <2>4 DEF Accepted
<1>22. Cached' /\ AcceptedOnce'
  <2>1. "expiry" \in events' <=> "expiry" \in events
    BY <1>13
  <2>2. Cached /\ AcceptedOnce /\ Identity[m] \notin recent
    BY <1>1 DEF QueueInv, IsDuplicate
  <2>3. Cached'
    BY <1>1, <1>15, <2>1, <2>2 DEF Cached
  <2>4. ASSUME "expiry" \notin events, NEW i \in 1..Len(arrivals'), NEW j \in 1..Len(arrivals'),
               Identity[arrivals'[i]] = Identity[arrivals'[j]]
        PROVE  i = j
    <3>1. \A k \in 1..Len(arrivals) : Identity[arrivals[k]] # Identity[m]
      BY <2>2, <2>4 DEF Cached
    <3>2. \A k, l \in 1..Len(arrivals) : Identity[arrivals[k]] = Identity[arrivals[l]] => k = l
      BY <2>2, <2>4 DEF AcceptedOnce
    <3>. QED
      BY <1>15, <2>4, <3>1, <3>2
  <2>. QED
    BY <2>1, <2>3, <2>4 DEF AcceptedOnce
<1>23. CheckedIsOneRoute' /\ MixedNeedsLateArrival'
  <2>1. "late" \notin events' => \A q \in Objects : drain'[q].pc = "checked" =>
          drain[q].pc = "checked" /\ items'[q] = items[q]
    BY <1>10, <1>13, <1>20
  <2>2. \A q \in Objects : drain'[q].kind = "batch" =>
          drain[q].kind = "batch" /\ drain'[q].batch = drain[q].batch
    BY <1>20
  <2>. QED
    BY <1>13, <2>1, <2>2, RoutesStay DEF QueueInv
<1>24. DrainIsMapped'
  <2>. SUFFICES ASSUME Uncleared'
                PROVE  /\ \A q \in Objects : draining'[q] => q = current'
                       /\ callback' \/ (\E q \in Objects : draining'[q]) => "scheduled" \in events'
    BY DEF DrainIsMapped
  <2>1. /\ \A q \in Objects : draining[q] => q = current
        /\ callback \/ (\E q \in Objects : draining[q]) => "scheduled" \in events
    BY <1>1, <1>13 DEF Uncleared, DrainIsMapped
  <2>2. \A q \in Objects : draining[q] => q = t
    BY <1>16, <1>17, <2>1, ObjectsAre
  <2>. QED
    BY <1>12, <1>13, <2>1, <2>2
<1>25. HoldsLatest'
  <2>. SUFFICES ASSUME Uncleared'
                PROVE  /\ Len(items'[t]) <= Len(arrivals')
                       /\ \A i \in 1..Len(items'[t]) :
                            items'[t][i] = arrivals'[Len(arrivals') - Len(items'[t]) + i]
                       /\ \A i \in 1..Len(items'[t]) : fate'[items'[t][i]] # "delivered"
    BY <1>12 DEF HoldsLatest, Start
  <2>1. Uncleared /\ HoldsLatest
    BY <1>13 DEF Uncleared, QueueInv
  <2>2. /\ Len(ti) <= Len(arrivals)
        /\ \A i \in 1..Len(ti) : ti[i] = arrivals[Len(arrivals) - Len(ti) + i]
        /\ \A i \in 1..Len(ti) : fate[ti[i]] # "delivered"
    BY <1>1, <1>4, <2>1, TargetHoldsLatest
  <2>3. ASSUME NEW i \in 1..Len(items'[t])
        PROVE  /\ items'[t][i] = arrivals'[Len(arrivals') - Len(items'[t]) + i]
               /\ fate'[items'[t][i]] # "delivered"
    <3>1. CASE i = Len(ti) - n + 1
      <4>1. items'[t][i] = m /\ Len(arrivals') - Len(items'[t]) + i = Len(arrivals) + 1
        BY <1>5, <1>14, <1>15, <3>1
      <4>. QED
        BY <1>11, <1>15, <4>1
    <3>2. CASE i # Len(ti) - n + 1
      <4>1. i \in 1..(Len(ti) - n) /\ n + i \in 1..Len(ti)
        BY <1>5, <1>14, <2>3, <3>2
      <4>2. items'[t][i] = ti[n + i] /\ ti[n + i] = arrivals[Len(arrivals) - Len(ti) + (n + i)]
        BY <1>14, <2>2, <4>1
      <4>3. /\ Len(arrivals') - Len(items'[t]) + i = Len(arrivals) - Len(ti) + (n + i)
            /\ Len(arrivals) - Len(ti) + (n + i) \in 1..Len(arrivals)
        BY <1>5, <1>14, <1>15, <2>2, <4>1
      <4>4. fate'[ti[n + i]] # "delivered"
        BY <1>5, <1>11, <2>2, <4>1
      <4>. QED
        BY <1>15, <4>2, <4>3, <4>4
    <3>. QED
      BY <3>1, <3>2
  <2>4. Len(items'[t]) <= Len(arrivals')
    BY <1>5, <1>14, <1>15, <2>2
  <2>. QED
    BY <2>3, <2>4
<1>26. drain'[t].pc = "running" => /\ drain'[t] = drain[t] /\ t = current /\ ti = items[t]
                                   /\ td = dropped[t] /\ drain[t].pc = "running"
  <2>1. drain[t].pc = "running" => draining[t]
    BY <1>1 DEF DrainsAreTrue
  <2>. QED
    BY <1>16, <1>17, <1>20, <2>1
<1>27. BatchIsEarlier'
  <2>. SUFFICES ASSUME Uncleared', drain'[t].pc = "running"
                PROVE  \E p \in 0..(Len(arrivals') - Len(items'[t])) :
                         /\ p + Len(drain'[t].batch) <= Len(arrivals')
                         /\ \A i \in 1..Len(drain'[t].batch) :
                              drain'[t].batch[i] = arrivals'[p + i]
    BY <1>12 DEF BatchIsEarlier, Start
  <2>1. PICK p \in 0..(Len(arrivals) - Len(ti)) :
          /\ p + Len(drain[t].batch) <= Len(arrivals)
          /\ \A i \in 1..Len(drain[t].batch) : drain[t].batch[i] = arrivals[p + i]
    <3>1. Uncleared /\ BatchIsEarlier
      BY <1>13 DEF Uncleared, QueueInv
    <3>. QED
      BY <1>26, <3>1 DEF BatchIsEarlier, Start
  <2>2. Len(drain[t].batch) \in Nat
    BY <1>1, LenProperties DEF Types, Drains
  <2>3. p \in 0..(Len(arrivals') - Len(items'[t]))
    BY <1>5, <1>14, <1>15
  <2>4. \A i \in 1..Len(drain[t].batch) : drain[t].batch[i] = arrivals'[p + i]
    <3>. TAKE i \in 1..Len(drain[t].batch)
    <3>1. p + i \in 1..Len(arrivals)
      BY <1>15, <2>1, <2>2
    <3>. QED
      BY <1>15, <2>1, <3>1
  <2>5. p + Len(drain[t].batch) <= Len(arrivals')
    BY <1>15, <2>1, <2>2
  <2>. QED
    BY <1>26, <2>3, <2>4, <2>5
<1>28. Undisturbed' => Undisturbed
  BY <1>13 DEF Undisturbed
<1>29. QueueHolds'
  <2>. SUFFICES ASSUME Undisturbed', NEW x \in Messages, fate'[x] \in {"queued", "summarized"}
                PROVE  x \in ToSet(items'[t]) \cup dropped'[t]
    BY <1>12, ObjectsAre DEF QueueHolds, ToSet
  <2>1. \A k \in 1..(Len(ti) - n + 1) : items'[t][k] \in ToSet(items'[t])
    BY <1>14, InToSet
  <2>2. CASE x = m
    <3>1. Len(ti) - n + 1 \in 1..(Len(ti) - n + 1)
      BY <1>5
    <3>. QED
      BY <1>14, <2>1, <2>2, <3>1
  <2>3. CASE x # m /\ x \in fr
    BY <1>10, <1>11, <2>3
  <2>4. CASE x # m /\ x \notin fr
    <3>1. fate[x] \in {"queued", "summarized"}
      BY <1>11, <2>4
    <3>2. current # NoQueue /\ x \in ToSet(ti) \cup td
      BY <1>16, <1>17, <1>28, <3>1 DEF QueueInv, QueueHolds
    <3>3. CASE x \in td
      BY <1>10, <3>3
    <3>4. CASE x \in ToSet(ti)
      <4>1. PICK j \in 1..Len(ti) : ti[j] = x
        BY <3>4, InToSet
      <4>2. ~(j <= n)
        BY <1>5, <1>8, <2>4, <4>1
      <4>3. PICK k \in 1..(Len(ti) - n) : j = n + k
        <5>1. j - n \in 1..(Len(ti) - n) /\ j = n + (j - n)
          BY <1>5, <4>2
        <5>. QED
          BY <5>1
      <4>4. k \in 1..(Len(ti) - n + 1)
        BY <1>5
      <4>. QED
        BY <1>14, <2>1, <4>1, <4>3, <4>4
    <3>. QED
      BY <3>2, <3>3, <3>4
  <2>. QED
    BY <2>2, <2>3, <2>4
<1>30. BatchIsFront'
  <2>. SUFFICES ASSUME Undisturbed', drain'[t].pc = "running"
                PROVE  /\ Len(drain'[t].batch) <= Len(items'[t])
                       /\ \A i \in 1..Len(drain'[t].batch) : drain'[t].batch[i] = items'[t][i]
                       /\ drain'[t].summary # {} => drain'[t].summary = dropped'[t]
    BY <1>12 DEF BatchIsFront
  <2>1. /\ Len(drain[t].batch) <= Len(ti)
        /\ \A i \in 1..Len(drain[t].batch) : drain[t].batch[i] = ti[i]
        /\ drain[t].summary # {} => drain[t].summary = td
    BY <1>26, <1>28 DEF QueueInv, BatchIsFront
  <2>2. n = 0 /\ fr = {}
    <3>1. "overflow" \notin events'
      BY DEF Undisturbed
    <3>. QED
      BY <1>5, <1>8, <1>13, <1>26, <3>1
  <2>3. Len(drain[t].batch) \in Nat
    BY <1>1, LenProperties DEF Types, Drains
  <2>4. \A i \in 1..Len(drain[t].batch) : drain[t].batch[i] = items'[t][i]
    <3>. TAKE i \in 1..Len(drain[t].batch)
    <3>1. i \in 1..(Len(ti) - n) /\ n + i = i
      BY <1>5, <2>1, <2>2, <2>3
    <3>. QED
      BY <1>14, <2>1, <3>1
  <2>5. Len(drain[t].batch) <= Len(items'[t])
    BY <1>5, <1>14, <2>1, <2>2, <2>3
  <2>6. dropped'[t] = td
    BY <1>10, <2>2
  <2>. QED
    BY <1>26, <2>1, <2>4, <2>5, <2>6
<1>. QED
  BY <1>18, <1>19, <1>21, <1>22, <1>23, <1>24, <1>25, <1>27, <1>29, <1>30 DEF QueueInv

(* runFollowup resolves: the prompt's messages leave the queue.            *)
LEMMA SucceedsKeeps ==
  ASSUME QueueInv, NEW o \in Objects, RunSucceeds(o), UNCHANGED offered
  PROVE  QueueInv'
<1>1. /\ drain[o].pc = "running" /\ draining[o] /\ Equipped(drain[o])
      /\ UNCHANGED <<settings, lastRun, recent, owed, arrivals, offered>>
      /\ fate' = [m \in Messages |->
                IF m \in ToSet(drain[o].batch) THEN "delivered"
                ELSE IF m \in drain[o].summary THEN "previewed" ELSE fate[m]]
      /\ events' = IF drain[o].kind = "summary" THEN events \cup {"summary"} ELSE events
      /\ Types /\ DrainsAreTrue /\ DrainIsMapped
  BY DEF RunSucceeds, enqueueVars, QueueInv, DrainsAreTrue
<1>2. PICK b \in Seq(Messages) : b = drain[o].batch
  BY <1>1 DEF Types, Drains
<1>3. PICK ti \in Seq(Messages) : ti = items[o]
  BY <1>1 DEF Types
<1>4. /\ Len(b) \in Nat /\ Len(ti) \in Nat /\ Len(arrivals) \in Nat
      /\ \A i \in 1..Len(b) : b[i] \in Messages
      /\ \A i \in 1..Len(ti) : ti[i] \in Messages
      /\ \A i \in 1..Len(arrivals) : arrivals[i] \in Messages
  BY <1>1, LenProperties, ElementOfSeq DEF Types
<1>5. PICK k \in Nat : k = Removed(o)
  BY <1>2, <1>4 DEF Removed
<1>6. Len(b) <= k /\ (drain[o].kind # "summary" => Len(b) = k)
  <2>1. drain[o].kind \in {"batch", "next", "summary"}
    BY <1>1 DEF Types, Drains, Equipped
  <2>2. CASE drain[o].kind = "batch"
    BY <1>2, <1>4, <1>5, <2>2 DEF Removed
  <2>3. CASE drain[o].kind = "next"
    <3>1. Len(b) = 1
      BY <1>1, <1>2, <2>3 DEF Equipped
    <3>2. k = 1
      BY <1>5, <2>3 DEF Removed
    <3>. QED
      BY <3>1, <3>2
  <2>4. CASE drain[o].kind = "summary"
    <3>1. k = 1 /\ b = <<>>
      BY <1>1, <1>2, <1>5, <2>4 DEF Removed, Equipped
    <3>. QED
      BY <2>4, <3>1, EmptySeq
  <2>. QED
    BY <2>1, <2>2, <2>3, <2>4
<1>7. PICK its : its = [items EXCEPT ![o] = SubSeq(items[o], Removed(o) + 1, Len(items[o]))]
  OBVIOUS
<1>8. PICK drp : drp = [dropped EXCEPT ![o] = IF drain[o].summary # {} THEN {} ELSE dropped[o]]
  OBVIOUS
<1>9. items' = its /\ dropped' = drp /\ LoopHead(o, its, drp)
  BY <1>7, <1>8 DEF RunSucceeds
<1>10. LeavesDrains(o, its, drp)
  BY <1>1, <1>9, LoopHeadIs
<1>11. /\ its \in [Objects -> Seq(Messages)]
       /\ Len(its[o]) = IF k <= Len(ti) THEN Len(ti) - k ELSE 0
       /\ \A i \in 1..Len(its[o]) : its[o][i] = ti[k + i] /\ k + i <= Len(ti)
       /\ \A q \in Objects : q # o => its[q] = items[q]
  <2>1. PICK r : r = SubSeq(ti, k + 1, Len(ti))
    OBVIOUS
  <2>2. /\ SubSeq(ti, k + 1, Len(ti)) \in Seq(Messages)
        /\ Len(SubSeq(ti, k + 1, Len(ti))) = IF k <= Len(ti) THEN Len(ti) - k ELSE 0
        /\ \A i \in 1..Len(SubSeq(ti, k + 1, Len(ti))) :
             SubSeq(ti, k + 1, Len(ti))[i] = ti[k + i] /\ k + i <= Len(ti)
    BY Rest
  <2>3. /\ r \in Seq(Messages) /\ Len(r) = IF k <= Len(ti) THEN Len(ti) - k ELSE 0
        /\ \A i \in 1..Len(r) : r[i] = ti[k + i] /\ k + i <= Len(ti)
    BY <2>1, <2>2
  <2>4. its = [items EXCEPT ![o] = r]
    BY <1>3, <1>5, <1>7, <2>1
  <2>5. its[o] = r /\ its \in [Objects -> Seq(Messages)]
        /\ \A q \in Objects : q # o => its[q] = items[q]
    BY <1>1, <2>3, <2>4 DEF Types
  <2>. QED
    BY <2>3, <2>5
<1>12. /\ drp \in [Objects -> SUBSET Messages]
       /\ drp[o] = IF drain[o].summary # {} THEN {} ELSE dropped[o]
  BY <1>1, <1>8 DEF Types
<1>13. Types' /\ DrainsAreTrue'
  <2>1. fate' \in [Messages -> Fates]
    BY <1>1 DEF Types, Fates
  <2>. QED
    BY <1>1, <1>9, <1>10, <1>11, <1>12, <2>1 DEF Types, LeavesDrains
<1>14. Accepted' /\ Cached' /\ AcceptedOnce'
  <2>1. "expiry" \in events => "expiry" \in events'
    BY <1>1
  <2>. QED
    BY <1>1, <2>1, AcceptedStays DEF QueueInv
<1>15. \A q \in Objects : drain'[q].pc \in {"running", "checked"} => q # o /\ drain'[q] = drain[q]
  BY <1>10 DEF LeavesDrains
<1>16. CheckedIsOneRoute' /\ MixedNeedsLateArrival'
  <2>1. \A q \in Objects : drain'[q].kind = "batch" => drain'[q] = drain[q]
    BY <1>13, <1>15 DEF DrainsAreTrue, Equipped
  <2>2. \A q \in Objects : drain'[q].pc = "checked" =>
          drain[q].pc = "checked" /\ items'[q] = items[q]
    BY <1>9, <1>11, <1>15
  <2>3. "late" \in events => "late" \in events'
    BY <1>1
  <2>. QED
    BY <2>1, <2>2, <2>3, RoutesStay DEF QueueInv
<1>17. Uncleared' => Uncleared /\ o = current /\ current' \in {o, NoQueue}
  BY <1>1, <1>10 DEF Uncleared, LeavesDrains
<1>18. DrainIsMapped'
  <2>1. Uncleared => "scheduled" \in events'
    BY <1>1 DEF DrainIsMapped
  <2>2. Uncleared => \A p \in Objects : draining'[p] => p = current'
    BY <1>10 DEF LeavesDrains
  <2>. QED
    BY <1>17, <2>1, <2>2 DEF DrainIsMapped
<1>19. HoldsLatest'
  <2>. SUFFICES ASSUME Uncleared', current' = o
                PROVE  /\ Len(its[o]) <= Len(arrivals)
                       /\ \A i \in 1..Len(its[o]) :
                            its[o][i] = arrivals[Len(arrivals) - Len(its[o]) + i]
                       /\ \A i \in 1..Len(its[o]) : fate'[its[o][i]] # "delivered"
    BY <1>1, <1>9, <1>17, ObjectsAre DEF HoldsLatest, Start
  <2>1. /\ Len(ti) <= Len(arrivals)
        /\ \A i \in 1..Len(ti) : ti[i] = arrivals[Len(arrivals) - Len(ti) + i]
        /\ \A i \in 1..Len(ti) : fate[ti[i]] # "delivered"
    BY <1>3, <1>17 DEF QueueInv, HoldsLatest, Start
  <2>2. PICK p \in 0..(Len(arrivals) - Len(ti)) :
          /\ p + Len(b) <= Len(arrivals)
          /\ \A i \in 1..Len(b) : b[i] = arrivals[p + i]
    BY <1>1, <1>2, <1>3, <1>17 DEF QueueInv, BatchIsEarlier, Start
  <2>3. Len(its[o]) <= Len(arrivals)
    BY <1>4, <1>11, <2>1
  <2>4. ASSUME NEW i \in 1..Len(its[o])
        PROVE  /\ its[o][i] = arrivals[Len(arrivals) - Len(its[o]) + i]
               /\ fate'[its[o][i]] # "delivered"
    <3>1. its[o][i] = ti[k + i] /\ k + i <= Len(ti)
      BY <1>11
    <3>2. k + i \in 1..Len(ti) /\ Len(its[o]) = Len(ti) - k
      BY <1>4, <1>11, <3>1
    <3>3. PICK j \in 1..Len(arrivals) : j = Len(arrivals) - Len(its[o]) + i
      BY <1>4, <2>1, <3>2
    <3>4. j = Len(arrivals) - Len(ti) + (k + i)
      BY <1>4, <3>2, <3>3
    <3>5. its[o][i] = arrivals[j]
      BY <2>1, <3>1, <3>2, <3>4
    <3>6. \A l \in 1..Len(b) : p + l \in 1..Len(arrivals) /\ p + l # j
      BY <1>4, <1>6, <2>1, <2>2, <3>2, <3>4
    <3>7. \A l \in 1..Len(b) : b[l] # arrivals[j]
      BY <2>2, <3>6 DEF QueueInv, Accepted
    <3>8. arrivals[j] \notin ToSet(drain[o].batch)
      BY <1>2, <3>7, InToSet
    <3>9. fate[arrivals[j]] # "delivered" /\ arrivals[j] \in Messages
      BY <1>4, <2>1, <3>1, <3>2, <3>5
    <3>10. fate'[arrivals[j]] # "delivered"
      BY <1>1, <3>8, <3>9
    <3>. QED
      BY <3>3, <3>5, <3>10
  <2>. QED
    BY <2>3, <2>4
<1>20. BatchIsEarlier' /\ BatchIsFront'
  <2>1. Undisturbed' => Uncleared'
    BY DEF Undisturbed, Uncleared
  <2>2. ASSUME Uncleared', NEW q \in Objects, q = current', drain'[q].pc = "running" PROVE FALSE
    BY <1>15, <1>17, <2>2, ObjectsAre
  <2>. QED
    BY <2>1, <2>2 DEF BatchIsEarlier, BatchIsFront
<1>21. QueueHolds'
  <2>. SUFFICES ASSUME Undisturbed', NEW m \in Messages, fate'[m] \in {"queued", "summarized"}
                PROVE  current' # NoQueue /\ m \in ToSet(items'[current']) \cup dropped'[current']
    BY DEF QueueHolds, ToSet
  <2>1. Undisturbed /\ Uncleared' /\ drain[o].kind # "summary"
    BY <1>1 DEF Undisturbed, Uncleared
  <2>2. m \notin ToSet(b) /\ m \notin drain[o].summary /\ fate[m] = fate'[m]
    BY <1>1, <1>2
  <2>3. current = o /\ m \in ToSet(ti) \cup dropped[o]
    BY <1>3, <1>17, <2>1, <2>2 DEF QueueInv, QueueHolds
  <2>4. /\ Len(b) <= Len(ti) /\ \A i \in 1..Len(b) : b[i] = ti[i]
        /\ drain[o].summary # {} => drain[o].summary = dropped[o]
    BY <1>1, <1>2, <1>3, <2>1, <2>3 DEF QueueInv, BatchIsFront
  <2>5. m \in ToSet(its[o]) \cup drp[o]
    <3>1. CASE m \in dropped[o]
      BY <1>12, <2>2, <2>4, <3>1
    <3>2. CASE m \in ToSet(ti)
      <4>1. PICK j \in 1..Len(ti) : ti[j] = m
        BY <3>2, InToSet
      <4>2. ~(j <= k)
        <5>1. ASSUME j <= k PROVE FALSE
          <6>1. j \in 1..Len(b) /\ b[j] = m
            BY <1>4, <1>6, <2>1, <2>4, <4>1, <5>1
          <6>. QED
            BY <2>2, <6>1, InToSet
        <5>. QED
          BY <5>1
      <4>3. PICK i \in 1..Len(its[o]) : j = k + i
        <5>1. j - k \in 1..Len(its[o]) /\ j = k + (j - k)
          BY <1>4, <1>6, <1>11, <2>1, <2>4, <4>2
        <5>. QED
          BY <5>1
      <4>4. its[o][i] = m /\ its[o] \in Seq(Messages)
        BY <1>11, <4>1, <4>3
      <4>. QED
        BY <4>4, InToSet
    <3>. QED
      BY <2>3, <3>1, <3>2
  <2>6. current' = o
    <3>1. current' = o \/ (its[o] = <<>> /\ drp[o] = {})
      BY <1>10, <1>17, <2>1 DEF LeavesDrains
    <3>2. ToSet(<<>>) = {}
      BY DEF ToSet
    <3>. QED
      BY <2>5, <3>1, <3>2
  <2>. QED
    BY <1>9, <2>5, <2>6, ObjectsAre
<1>. QED
  BY <1>13, <1>14, <1>16, <1>18, <1>19, <1>20, <1>21 DEF QueueInv

(* runFollowup rejects.                                                    *)
LEMMA FailsKeeps ==
  ASSUME QueueInv, NEW o \in Objects, RunFails(o), UNCHANGED offered
  PROVE  QueueInv'
<1>1. draining[o] /\ Break(o)
  BY DEF RunFails, QueueInv, DrainsAreTrue
<1>. QED
  BY <1>1, BreakKeeps

-----------------------------------------------------------------------------
(* The invariant                                                           *)

(* The invariant holds before anything was queued,                         *)
LEMMA QueueInvInit == Init => QueueInv
<1>. SUFFICES ASSUME Init PROVE QueueInv
  OBVIOUS
<1>1. \A o \in Objects : /\ items[o] = <<>> /\ draining[o] = FALSE /\ drain[o] = Off
                         /\ dropped[o] = {}
  BY DEF Init
<1>2. /\ Off \in Drains /\ Off.pc = "off" /\ Off.kind = "none"
      /\ Off.batch = <<>> /\ Off.summary = {}
  BY OffIs
<1>3. arrivals = <<>> /\ Len(arrivals) = 0 /\ <<>> \in Seq(Messages)
  BY EmptySeq DEF Init
<1>4. Types
  <2>1. settings \in [Objects -> Settings]
    <3>1. PICK S \in Configs : S = offered
      BY DEF Init
    <3>2. S # {} /\ S \subseteq Settings
      BY <3>1, MessagesAssumption DEF Settings
    <3>3. (CHOOSE s \in S : TRUE) \in S
      BY <3>2
    <3>. QED
      BY <3>1, <3>2, <3>3 DEF Init
  <2>2. /\ items \in [Objects -> Seq(Messages)] /\ dropped \in [Objects -> SUBSET Messages]
        /\ draining \in [Objects -> BOOLEAN] /\ lastRun \in [Objects -> BOOLEAN]
        /\ drain \in [Objects -> Drains]
    BY <1>2, <1>3 DEF Init
  <2>3. fate \in [Messages -> Fates]
    BY DEF Init, Fates
  <2>. QED
    BY <1>3, <2>1, <2>2, <2>3 DEF Init, Types
<1>5. DrainsAreTrue /\ CheckedIsOneRoute /\ MixedNeedsLateArrival
  BY <1>1, <1>2 DEF DrainsAreTrue, Equipped, CheckedIsOneRoute, MixedNeedsLateArrival,
                    BatchesShareRoute
<1>6. Accepted /\ Cached /\ AcceptedOnce
  BY <1>3 DEF Accepted, Cached, AcceptedOnce
<1>7. current = NoQueue /\ callback = FALSE /\ \A m \in Messages : fate[m] = "new"
  BY DEF Init
<1>8. DrainIsMapped /\ QueueHolds
  BY <1>1, <1>7 DEF DrainIsMapped, QueueHolds
<1>9. HoldsLatest /\ BatchIsEarlier /\ BatchIsFront
  BY <1>7, ObjectsAre DEF HoldsLatest, BatchIsEarlier, BatchIsFront
<1>. QED
  BY <1>4, <1>5, <1>6, <1>8, <1>9 DEF QueueInv

(* and every step keeps it.                                                *)
LEMMA QueueInvStep == QueueInv /\ [Next]_vars => QueueInv'
<1>. SUFFICES ASSUME QueueInv, [Next]_vars PROVE QueueInv'
  OBVIOUS
<1>1. CASE Next
  <2>1. Act /\ UNCHANGED offered
    BY <1>1 DEF Next
  <2>2. CASE \E m \in Messages, s \in offered :
               EnqueueDuplicate(m, s) \/ EnqueueRefused(m, s) \/ Enqueue(m, s)
    BY <2>1, <2>2, DuplicateKeeps, RefusedKeeps, EnqueueKeeps
  <2>3. CASE \E i \in recent : Expire(i)
    BY <2>1, <2>3, ExpireKeeps
  <2>4. CASE ScheduleDrain
    BY <2>1, <2>4, ScheduleDrainKeeps
  <2>5. CASE ClearSessionQueues
    BY <2>1, <2>5, ClearKeeps
  <2>6. CASE \E o \in Objects : DrainStep(o) \/ RunFails(o)
    BY <2>1, <2>6, DebounceOverKeeps, CollectBatchKeeps, SucceedsKeeps, FailsKeeps DEF DrainStep
  <2>. QED
    BY <2>1, <2>2, <2>3, <2>4, <2>5, <2>6 DEF Act
<1>2. CASE UNCHANGED vars
  <2>1. /\ UNCHANGED <<items, settings, dropped, lastRun, recent, owed, fate, arrivals, events>>
        /\ UNCHANGED <<current, draining, callback, drain, offered>>
        /\ Types /\ DrainsAreTrue /\ DrainIsMapped
    BY <1>2 DEF vars, objectVars, drainVars, enqueueVars, ghostVars, QueueInv
  <2>2. Types' /\ DrainsAreTrue' /\ DrainIsMapped'
    BY <2>1 DEF Types, DrainsAreTrue, Equipped, DrainIsMapped, Uncleared
  <2>3. Accepted' /\ Cached' /\ AcceptedOnce'
    BY <2>1, AcceptedStays DEF QueueInv
  <2>4. CheckedIsOneRoute' /\ MixedNeedsLateArrival'
    BY <2>1, RoutesStay DEF QueueInv
  <2>5. HoldsLatest' /\ BatchIsEarlier' /\ QueueHolds' /\ BatchIsFront'
    BY <2>1, <2>2, QueueStays DEF QueueInv
  <2>. QED
    BY <2>2, <2>3, <2>4, <2>5 DEF QueueInv
<1>. QED
  BY <1>1, <1>2

(* What the theorems below rest on.                                        *)
THEOREM QueueInvariant == Spec => []QueueInv
BY QueueInvInit, QueueInvStep, PTL DEF Spec

-----------------------------------------------------------------------------
(* The properties                                                          *)

(* Every variable has its type, and an object is marked as drained exactly *)
(* while its drain is somewhere.                                           *)
THEOREM TypeCorrect == Spec => []TypeOK
<1>1. QueueInv => TypeOK
  BY DEF QueueInv, Types, DrainsAreTrue, TypeOK
<1>. QED
  BY <1>1, QueueInvariant, PTL

(* Until a cache entry expires, of the calls of enqueueFollowupRun with    *)
(* one message id and routing one is accepted.                             *)
THEOREM AcceptsOnce == Spec => []AcceptedOnce
<1>1. QueueInv => AcceptedOnce
  BY DEF QueueInv
<1>. QED
  BY <1>1, QueueInvariant, PTL

(* A collected prompt is for one destination unless a message came in the  *)
(* microtask between the check of the routes and the copy of the items.    *)
THEOREM MixedOnlyLate == Spec => []MixedNeedsLateArrival
<1>1. QueueInv => MixedNeedsLateArrival
  BY DEF QueueInv
<1>. QED
  BY <1>1, QueueInvariant, PTL

(* While nobody clears the key during a drain, its drains are one at a     *)
(* time, deliver in the order of arrival and start only when a run has     *)
(* scheduled one.                                                          *)
THEOREM DrainsInOrder == Spec => []UnclearedDrains
<1>1. ASSUME QueueInv, Uncleared PROVE SerialDrains /\ NoStaleCallback
  <2>1. DrainIsMapped
    BY <1>1 DEF QueueInv
  <2>. QED
    BY <1>1, <2>1 DEF DrainIsMapped, SerialDrains, NoStaleCallback
<1>2. ASSUME QueueInv, Uncleared, NEW i \in 1..Len(arrivals), NEW j \in 1..Len(arrivals),
             i < j, fate[arrivals[j]] = "delivered",
             NEW o \in Live, arrivals[i] \in ToSet(items[o])
      PROVE  FALSE
  <2>1. o \in Objects /\ o = current
    BY <1>2 DEF Live, QueueInv, DrainIsMapped
  <2>2. PICK ti \in Seq(Messages) : ti = items[o]
    BY <1>2, <2>1 DEF QueueInv, Types
  <2>3. /\ Len(ti) <= Len(arrivals)
        /\ \A k \in 1..Len(ti) : ti[k] = arrivals[Len(arrivals) - Len(ti) + k]
        /\ \A k \in 1..Len(ti) : fate[ti[k]] # "delivered"
    BY <1>2, <2>1, <2>2 DEF QueueInv, HoldsLatest, Start
  <2>4. PICK k \in 1..Len(ti) : ti[k] = arrivals[i]
    BY <1>2, <2>2, InToSet
  <2>5. Len(ti) \in Nat /\ Len(arrivals) \in Nat
    BY <1>2, LenProperties DEF QueueInv, Types
  <2>6. Len(arrivals) - Len(ti) + k \in 1..Len(arrivals)
    BY <2>3, <2>5
  <2>7. i = Len(arrivals) - Len(ti) + k
    BY <1>2, <2>3, <2>4, <2>6 DEF QueueInv, Accepted
  <2>8. PICK l \in 1..Len(ti) : j = Len(arrivals) - Len(ti) + l
    <3>1. j - (Len(arrivals) - Len(ti)) \in 1..Len(ti)
      BY <1>2, <2>3, <2>5, <2>7
    <3>2. j = Len(arrivals) - Len(ti) + (j - (Len(arrivals) - Len(ti)))
      BY <2>5
    <3>. QED
      BY <3>1, <3>2
  <2>. QED
    BY <1>2, <2>3, <2>8
<1>3. QueueInv => UnclearedDrains
  BY <1>1, <1>2 DEF UnclearedDrains, NoOvertaking, Uncleared
<1>. QED
  BY <1>3, QueueInvariant, PTL

(* A message that was accepted and neither delivered, previewed, dropped   *)
(* nor cleared is in the key's queue, unless the queue overflowed or was   *)
(* cleared during an await of its drain or a summary took its place.       *)
THEOREM LosesNothing == Spec => []LossNeedsDisturbance
<1>1. ASSUME QueueInv, Undisturbed, NEW m \in Messages, fate[m] \in {"queued", "summarized"}
      PROVE  \E o \in Live : m \in HeldBy(o)
  <2>1. current # NoQueue /\ m \in ToSet(items[current]) \cup dropped[current]
    BY <1>1 DEF QueueInv, QueueHolds
  <2>2. current \in Live
    BY <1>1, <2>1 DEF QueueInv, Types, Live
  <2>. QED
    BY <2>1, <2>2 DEF HeldBy
<1>2. QueueInv => LossNeedsDisturbance
  BY <1>1 DEF LossNeedsDisturbance, NothingLost, Lost, Undisturbed
<1>. QED
  BY <1>2, QueueInvariant, PTL

=============================================================================
