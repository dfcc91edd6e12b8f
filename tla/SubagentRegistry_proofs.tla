---------------------- MODULE SubagentRegistry_proofs ------------------------
(***************************************************************************)
(* Proofs about SubagentRegistry, for every number of runs, sessions,      *)
(* steers and retries: the types; a result and an end are told once; a run *)
(* that is being steered says nothing; and, whatever tree the sessions     *)
(* form, a result goes out after those of the runs below it.               *)
(***************************************************************************)
EXTENDS SubagentRegistry, TLAPS

Records == [session : Sessions \cup {Top}, listed : BOOLEAN,
            ended : {"no", "ok", "error", "killed"}, old : BOOLEAN,
            suppressed : {"no", "steer", "killed"}, handled : BOOLEAN, settled : BOOLEAN,
            retries : 0..MaxRetries, backoff : BOOLEAN, wake : BOOLEAN, woken : BOOLEAN,
            told : BOOLEAN, outlived : BOOLEAN]

(* An announcement and its cleanup, in the order of their stages.          *)
Before == {"begun", "waking", "woken", "delivering", "false"}
HookFlows == {"hook delete", "hook keep"}
Flows == {"none", "true"} \cup Before \cup HookFlows

(* A record has nothing begun before its run has ended; a kill is the end  *)
(* of a run and its cleanup at once, and of one that was never announced;  *)
(* the last retry is not followed by another.                              *)
Sound(e) ==
  /\ e \in Records
  /\ e.listed => e.session \in Sessions
  /\ e.ended = "no" => ~e.handled /\ ~e.settled /\ e.retries = 0
  /\ e.suppressed = "killed" => e.ended # "no" /\ e.handled /\ e.settled /\ e.retries = 0
  /\ e.retries = MaxRetries => e.handled \/ e.settled

(* The cleanup has begun, and no late completion will begin it again.      *)
Begun(e) == e.ended # "no" /\ e.suppressed # "killed" /\ e.handled

(* A run's record e, its copy d in the file, its announcement f, and how   *)
(* often a result and an end went out: what was begun or told is known in  *)
(* memory and in the file, so that a restart does not begin or tell it     *)
(* again.                                                                  *)
Good(e, d, f, n, h) ==
  /\ Sound(e) /\ Sound(d) /\ f \in Flows /\ n \in {0, 1} /\ h \in {0, 1}
  /\ f # "none" => Begun(e) /\ Begun(d) /\ e.session \in Sessions
  /\ f \in Before \cup {"true"} => e.retries < MaxRetries
  /\ n = 1 => Begun(e) /\ Begun(d) /\ f \notin Before
  /\ h = 1 => e.told /\ d.told
  /\ f \in HookFlows => ~e.told

GoodRuns == \A r \in Runs : Good(runs[r], disk[r], flow[r], delivered[r], hooks[r])

(* A completion that is under way is of a run that has ended; the one that *)
(* is in the hook is the only one to tell the end.                         *)
GoodCompletions ==
  /\ completing \subseteq [run : Runs, by : {"event", "grace", "wait", "kill"}, at : {"freeze", "hook"}]
  /\ \A c \in completing :
       /\ Ended(c.run)
       /\ c.at = "hook" => /\ ~runs[c.run].told /\ runs[c.run].suppressed # "steer"
                           /\ flow[c.run] \notin HookFlows
  /\ \A c, d \in completing : c.at = "hook" /\ d.at = "hook" /\ c.run = d.run => c = d

(* Nothing is known of a run that nobody has recorded yet.                 *)
Untold(r) ==
  /\ ~runs[r].listed /\ ~disk[r].listed /\ flow[r] = "none" /\ delivered[r] = 0 /\ hooks[r] = 0
  /\ \A c \in completing : c.run # r
  /\ \A s \in Steers : steering[s] # r
GoodLaunches ==
  /\ launches \subseteq [run : Runs, session : Sessions, prev : Runs \cup {NoRun},
                         how : Steers \cup {"spawn", "wake"}]
  /\ \A r \in Runs : child[r] = "none" => Untold(r)
  /\ \A l \in launches : child[l.run] # "none" /\ Untold(l.run)
  /\ \A l, m \in launches : l.run = m.run => l = m
  /\ \A l \in launches : l.how = "wake" => l.prev \in Runs /\ flow[l.prev] = "woken"
  /\ \A l, m \in launches : l.how = "wake" /\ m.how = "wake" /\ l.prev = m.prev => l = m

(* A run that is being steered keeps its mark, and nothing begins.         *)
GoodSteers ==
  /\ steering \in [Steers -> Runs \cup {NoRun}]
  /\ \A s \in Steers : steering[s] # NoRun =>
       /\ runs[steering[s]].session \in Sessions
       /\ {<<"steered", steering[s]>>, <<"killed", steering[s]>>} \cap exempt = {} =>
            runs[steering[s]].suppressed = "steer" /\ flow[steering[s]] = "none"
  /\ \A s, t \in Steers : s # t /\ steering[s] = steering[t] /\ steering[s] # NoRun =>
       <<"steered", steering[s]>> \in exempt

Types ==
  /\ arranged \in Cases
  /\ runs = [r \in Runs |-> runs[r]] /\ disk = [r \in Runs |-> disk[r]]
  /\ flow = [r \in Runs |-> flow[r]] /\ child = [r \in Runs |-> child[r]]
  /\ delivered = [r \in Runs |-> delivered[r]] /\ hooks = [r \in Runs |-> hooks[r]]
  /\ gone \subseteq Sessions
  /\ waits \cup pendingErrors \cup resumed \cup retryTimers \cup backoffTimers \subseteq Runs
  /\ sweeping \in Runs \cup {NoRun}
  /\ sweeping # NoRun => runs[sweeping].session \in Sessions

(* The inductive invariant.                                                *)
RegistryInv == Types /\ GoodRuns /\ GoodCompletions /\ GoodLaunches /\ GoodSteers

-----------------------------------------------------------------------------
(* Records                                                                 *)

(* What the invariant tells apart of a record stays the same.              *)
Alike(e, x) ==
  /\ x \in Records /\ x.session = e.session /\ x.listed = e.listed /\ x.ended = e.ended
  /\ x.suppressed = e.suppressed /\ x.handled = e.handled /\ x.settled = e.settled
  /\ x.retries = e.retries /\ x.told = e.told

(* A run that is resumed with record e and announcement f has x and g.     *)
Resumed(e, f, x, g) ==
  \/ Alike(e, x) /\ g = f
  \/ Alike(Unlisted(e), x) /\ g = f
  \/ Alike([e EXCEPT !.settled = TRUE], x) /\ g = f /\ (e.retries >= MaxRetries \/ e.ended # "no")
  \/ /\ Alike([e EXCEPT !.handled = TRUE], x) /\ g = "begun"
     /\ MayBegin(e) /\ e.ended # "no" /\ e.suppressed # "steer" /\ e.retries < MaxRetries

(* What is assumed of the constants, as the proofs use it.                 *)
LEMMA Constants ==
  /\ MaxRetries \in Nat /\ MaxRetries # 0 /\ Top \notin Sessions
  /\ "spawn" \notin Steers /\ "wake" \notin Steers
  /\ Runs \subseteq Nat \ {0} /\ NoRun \notin Runs
<1>1. MaxRetries \in Nat /\ MaxRetries # 0 /\ Top \notin Sessions /\ MaxRuns \in Nat
  BY RegistryAssumption
<1>2. "spawn" \notin Steers /\ "wake" \notin Steers
  BY RegistryAssumption
<1>3. \A r \in Runs : r \in Nat /\ r # 0
  BY <1>1 DEF Runs
<1>. QED
  BY <1>1, <1>2, <1>3 DEF NoRun

(* Resuming does one of these to each of the runs, and writes the file     *)
(* unless it has changed nothing.                                          *)
LEMMA ResumeIs ==
  ASSUME NEW R \in SUBSET Runs, NEW b, NEW saved, Resume(R, b, saved),
         \A r \in Runs : b.runs[r] \in Records
  PROVE  /\ runs' = [r \in Runs |-> runs'[r]] /\ flow' = [r \in Runs |-> flow'[r]]
         /\ \A r \in Runs : Resumed(b.runs[r], b.flow[r], runs'[r], flow'[r])
         /\ \/ disk' = runs'
            \/ /\ disk' = disk /\ ~saved
               /\ \A r \in Runs : Alike(b.runs[r], runs'[r]) /\ flow'[r] = b.flow[r]
         /\ resumed' \subseteq b.resumed \cup R /\ waits' \subseteq b.waits \cup R
         /\ backoffTimers' \subseteq b.timers \cup R
<1> DEFINE fate == [r \in R |-> IF r \in b.resumed THEN "nothing" ELSE Fate(b.runs[r])]
           ones(what) == {r \in R : fate[r] = what}
<1>1. /\ runs' = [r \in Runs |->
                   IF r \in ones("orphan") THEN Unlisted(b.runs[r])
                   ELSE [b.runs[r] EXCEPT !.settled = @ \/ r \in ones("give up"),
                                     !.handled = @ \/ r \in ones("announce")]]
      /\ disk' = IF saved \/ ones("orphan") \cup ones("give up") \cup ones("announce") # {}
                 THEN runs' ELSE disk
      /\ flow' = [r \in Runs |-> IF r \in ones("announce") THEN "begun" ELSE b.flow[r]]
      /\ resumed' = b.resumed \cup ones("back off") \cup ones("park") \cup ones("wait")
                                 \cup ones("announce")
      /\ waits' = b.waits \cup ones("wait")
      /\ backoffTimers' = b.timers \cup ones("back off")
  BY DEF Resume
<1>. HIDE DEF fate
<1>2. \A r \in R : fate[r] \in {"orphan", "give up", "announce"} =>
        /\ fate[r] = Fate(b.runs[r])
  BY DEF fate
<1>3. ASSUME NEW e \in Records
      PROVE  /\ Fate(e) = "orphan" => e.listed
             /\ Fate(e) = "give up" => e.retries >= MaxRetries \/ e.ended # "no"
             /\ Fate(e) = "announce" => /\ MayBegin(e) /\ e.ended # "no"
                                        /\ e.suppressed # "steer" /\ e.retries < MaxRetries
  <2>1. e.retries \in Nat /\ MaxRetries \in Nat
    BY Constants DEF Records
  <2>2. Fate(e) = "orphan" => e.listed
    BY DEF Fate
  <2>3. Fate(e) = "give up" => e.retries >= MaxRetries \/ e.ended # "no"
    BY DEF Fate
  <2>4. Fate(e) = "announce" => MayBegin(e) /\ e.ended # "no" /\ e.suppressed # "steer"
    BY DEF Fate
  <2>5. Fate(e) = "announce" => ~(e.retries >= MaxRetries)
    BY DEF Fate
  <2>6. ~(e.retries >= MaxRetries) => e.retries < MaxRetries
    BY <2>1
  <2>. QED
    BY <2>2, <2>3, <2>4, <2>5, <2>6
<1>a. ASSUME NEW r \in Runs,
             r \notin ones("orphan"), r \notin ones("give up"), r \notin ones("announce")
      PROVE  Alike(b.runs[r], runs'[r]) /\ flow'[r] = b.flow[r]
  <2>0. b.runs[r] \in Records
    OBVIOUS
  <2>1. PICK g1 \in BOOLEAN, g2 \in BOOLEAN : g1 = b.runs[r].settled /\ g2 = b.runs[r].handled
    BY <2>0 DEF Records
  <2>2. runs'[r] = [b.runs[r] EXCEPT !.settled = g1, !.handled = g2]
    BY <1>1, <1>a, <2>0, <2>1 DEF Records
  <2>3. flow'[r] = b.flow[r]
    BY <1>1, <1>a
  <2>. QED
    BY <2>0, <2>1, <2>2, <2>3 DEF Alike, Records
<1>4. ASSUME NEW r \in Runs
      PROVE  Resumed(b.runs[r], b.flow[r], runs'[r], flow'[r])
  <2>. DEFINE e == b.runs[r]
  <2>0. e \in Records
    OBVIOUS
  <2>1. CASE r \in ones("orphan")
    <3>1. runs'[r] = Unlisted(e) /\ flow'[r] = b.flow[r]
      BY <1>1, <2>1
    <3>. QED
      BY <2>0, <3>1 DEF Resumed, Alike, Unlisted, Records
  <2>2. CASE r \in ones("give up")
    <3>1. flow'[r] = b.flow[r] /\ (e.retries >= MaxRetries \/ e.ended # "no")
      BY <1>1, <1>2, <1>3, <2>2, <2>0
    <3>2. PICK g \in BOOLEAN : g = e.handled
      BY <2>0 DEF Records
    <3>3. runs'[r] = [e EXCEPT !.settled = TRUE, !.handled = g]
      BY <1>1, <2>0, <2>2, <3>2 DEF Records
    <3>. QED
      BY <2>0, <3>1, <3>2, <3>3 DEF Resumed, Alike, Records
  <2>3. CASE r \in ones("announce")
    <3>1. flow'[r] = "begun" /\ MayBegin(e) /\ e.ended # "no"
          /\ e.suppressed # "steer" /\ e.retries < MaxRetries
      BY <1>1, <1>2, <1>3, <2>3, <2>0
    <3>2. PICK g \in BOOLEAN : g = e.settled
      BY <2>0 DEF Records
    <3>3. runs'[r] = [e EXCEPT !.settled = g, !.handled = TRUE]
      BY <1>1, <2>0, <2>3, <3>2 DEF Records
    <3>. QED
      BY <2>0, <3>1, <3>2, <3>3 DEF Resumed, Alike, Records
  <2>4. CASE r \notin ones("orphan") \cup ones("give up") \cup ones("announce")
    <3>1. Alike(e, runs'[r]) /\ flow'[r] = b.flow[r]
      BY <1>a, <2>4
    <3>. QED
      BY <3>1 DEF Resumed
  <2>. QED
    BY <2>1, <2>2, <2>3, <2>4
<1>5. runs' = [r \in Runs |-> runs'[r]] /\ flow' = [r \in Runs |-> flow'[r]]
  BY <1>1
<1>6. CASE saved \/ ones("orphan") \cup ones("give up") \cup ones("announce") # {}
  <2>1. disk' = runs'
    BY <1>1, <1>6
  <2>. QED
    BY <1>1, <1>4, <1>5, <2>1
<1>7. CASE ~(saved \/ ones("orphan") \cup ones("give up") \cup ones("announce") # {})
  <2>1. disk' = disk /\ ~saved
    BY <1>1, <1>7
  <2>2. ASSUME NEW r \in Runs PROVE Alike(b.runs[r], runs'[r]) /\ flow'[r] = b.flow[r]
    BY <1>a, <1>7
  <2>. QED
    BY <1>1, <1>4, <1>5, <2>1, <2>2
<1>. QED
  BY <1>6, <1>7

(* A run that is resumed stays good, whether the file is written or not.   *)
LEMMA ResumedIsGood ==
  ASSUME NEW e, NEW d, NEW f, NEW n, NEW h, NEW x, NEW g, Good(e, d, f, n, h), Resumed(e, f, x, g)
  PROVE  Good(x, x, g, n, h) /\ (Alike(e, x) /\ g = f => Good(x, d, g, n, h))
<1>0. e \in Records /\ e.retries \in 0..MaxRetries /\ MaxRetries \in Nat /\ MaxRetries # 0
  BY Constants DEF Good, Sound, Records
<1>1. CASE Alike(e, x) /\ g = f
  BY <1>1 DEF Good, Sound, Alike, Begun
<1>2. CASE Alike(Unlisted(e), x) /\ g = f
  <2>1. /\ x \in Records /\ x.session = e.session /\ x.listed = FALSE /\ x.ended = e.ended
        /\ x.suppressed = e.suppressed /\ x.handled = e.handled /\ x.settled = e.settled
        /\ x.retries = e.retries /\ x.told = e.told
    BY <1>0, <1>2 DEF Alike, Unlisted, Records
  <2>. QED
    BY <1>0, <1>2, <2>1 DEF Good, Sound, Begun, Alike
<1>3. CASE /\ Alike([e EXCEPT !.settled = TRUE], x) /\ g = f
           /\ e.retries >= MaxRetries \/ e.ended # "no"
  <2>1. /\ x \in Records /\ x.session = e.session /\ x.listed = e.listed /\ x.ended = e.ended
        /\ x.suppressed = e.suppressed /\ x.handled = e.handled /\ x.settled = TRUE
        /\ x.retries = e.retries /\ x.told = e.told
    BY <1>0, <1>3 DEF Alike, Records
  <2>2. e.ended # "no"
    BY <1>0, <1>3 DEF Good, Sound
  <2>. QED
    BY <1>0, <1>3, <2>1, <2>2 DEF Good, Sound, Begun, Alike
<1>4. CASE /\ Alike([e EXCEPT !.handled = TRUE], x) /\ g = "begun"
           /\ MayBegin(e) /\ e.ended # "no" /\ e.suppressed # "steer" /\ e.retries < MaxRetries
  <2>1. /\ x \in Records /\ x.session = e.session /\ x.listed = e.listed /\ x.ended = e.ended
        /\ x.suppressed = e.suppressed /\ x.handled = TRUE /\ x.settled = e.settled
        /\ x.retries = e.retries /\ x.told = e.told
    BY <1>0, <1>4 DEF Alike, Records
  <2>2. f = "none" /\ n = 0 /\ e.suppressed # "killed" /\ e.session \in Sessions
    BY <1>4 DEF Good, Sound, Begun, MayBegin
  <2>3. Sound(x) /\ Begun(x)
    BY <1>4, <2>1, <2>2 DEF Good, Sound, Begun
  <2>4. h \in {0, 1} /\ (h = 1 => x.told)
    BY <2>1 DEF Good
  <2>. QED
    BY <1>4, <2>1, <2>2, <2>3, <2>4 DEF Good, Flows, Before, HookFlows, Alike, Sound
<1>. QED
  BY <1>1, <1>2, <1>3, <1>4 DEF Resumed

(* What a step may do to a run without a word to those who wait for it:    *)
(* an end stays, nobody is listed again, only a run that works is marked   *)
(* by a steer, and an announcement that has a run woken waits for it.      *)
Evolves(e, f, x, g) ==
  /\ x.session = e.session
  /\ x.ended = "no" => e.ended = "no"
  /\ x.listed => e.listed
  /\ x.suppressed = "steer" => e.suppressed = "steer" \/ e.ended = "no"
  /\ f = "woken" => g = "woken"
  /\ ~e.listed /\ f = "none" => g = "none"

(* A steer's mark holds, and the run says nothing.                         *)
KeepsMark(e, f, x, g) ==
  e.suppressed = "steer" /\ f = "none" => x.suppressed = "steer" /\ g = "none"

(* A run that is resumed evolves, and goes into no hook.                   *)
LEMMA ResumedEvolves ==
  ASSUME NEW e \in Records, NEW f, NEW x, NEW g, Resumed(e, f, x, g), f # "none" => e.handled
  PROVE  /\ Evolves(e, f, x, g) /\ KeepsMark(e, f, x, g)
         /\ x.told = e.told /\ (g \in HookFlows => f \in HookFlows)
<1>1. CASE Alike(e, x) /\ g = f
  BY <1>1 DEF Alike, Evolves, KeepsMark
<1>2. CASE Alike(Unlisted(e), x) /\ g = f
  BY <1>2 DEF Alike, Evolves, KeepsMark, Unlisted, Records
<1>3. CASE Alike([e EXCEPT !.settled = TRUE], x) /\ g = f
  BY <1>3 DEF Alike, Evolves, KeepsMark, Records
<1>4. CASE /\ Alike([e EXCEPT !.handled = TRUE], x) /\ g = "begun"
           /\ MayBegin(e) /\ e.ended # "no" /\ e.suppressed # "steer"
  BY <1>4 DEF Alike, Evolves, KeepsMark, Records, MayBegin, HookFlows
<1>. QED
  BY <1>1, <1>2, <1>3, <1>4 DEF Resumed

-----------------------------------------------------------------------------
(* What does not depend on the records in detail                           *)

Evolve == \A r \in Runs : Evolves(runs[r], flow[r], runs'[r], flow'[r])
KeepMarks == \A r \in Runs : KeepsMark(runs[r], flow[r], runs'[r], flow'[r])

Completions == [run : Runs, by : {"event", "grace", "wait", "kill"}, at : {"freeze", "hook"}]

(* A completion goes on, or begins with a run that has ended.              *)
LEMMA CompletionsKept ==
  ASSUME GoodCompletions, Evolve, completing' \subseteq Completions,
         \A c \in completing' :
           \/ /\ c \in completing
              /\ c.at = "hook" => ~runs'[c.run].told /\ flow'[c.run] \notin HookFlows
           \/ c.at = "freeze" /\ runs'[c.run].ended # "no"
  PROVE  GoodCompletions'
<1>1. ASSUME NEW c \in completing'
      PROVE  /\ runs'[c.run].ended # "no"
             /\ c.at = "hook" => /\ ~runs'[c.run].told /\ runs'[c.run].suppressed # "steer"
                                 /\ flow'[c.run] \notin HookFlows
  <2>1. c.run \in Runs
    BY DEF Completions
  <2>2. CASE c \in completing
    <3>1. Ended(c.run) /\ Evolves(runs[c.run], flow[c.run], runs'[c.run], flow'[c.run])
      BY <2>1, <2>2 DEF GoodCompletions, Evolve
    <3>2. c.at = "hook" => runs[c.run].suppressed # "steer"
      BY <2>2 DEF GoodCompletions
    <3>. QED
      BY <2>2, <3>1, <3>2 DEF Evolves, Ended
  <2>3. CASE c.at = "freeze" /\ runs'[c.run].ended # "no"
    BY <2>3
  <2>. QED
    BY <2>2, <2>3
<1>2. ASSUME NEW c \in completing', NEW d \in completing',
             c.at = "hook", d.at = "hook", c.run = d.run
      PROVE  c = d
  <2>1. c \in completing /\ d \in completing
    BY <1>2
  <2>. QED
    BY <1>2, <2>1 DEF GoodCompletions
<1>. QED
  BY <1>1, <1>2 DEF GoodCompletions, Ended, Completions

(* Nothing is known of a run that is not recorded as long as only those    *)
(* are touched that are, or that are at work.                              *)
LEMMA LaunchesKept ==
  ASSUME GoodLaunches, Evolve, launches' = launches,
         \A r \in Runs : child'[r] = child[r] \/ (child[r] # "none" /\ child'[r] # "none"),
         \A r \in Runs : disk'[r].listed => disk[r].listed \/ runs[r].listed,
         \A r \in Runs : \/ delivered'[r] = delivered[r] /\ hooks'[r] = hooks[r]
                         \/ flow[r] # "none"
                         \/ \E c \in completing : c.run = r,
         \A c \in completing' : runs[c.run].listed \/ \E b \in completing : b.run = c.run,
         \A s \in Steers : \/ steering'[s] \in {steering[s], NoRun}
                           \/ runs[steering'[s]].listed
  PROVE  GoodLaunches'
<1>1. ASSUME NEW r \in Runs, Untold(r) PROVE Untold(r)'
  <2>1. Evolves(runs[r], flow[r], runs'[r], flow'[r])
    BY DEF Evolve
  <2>2. ~runs'[r].listed /\ ~disk'[r].listed /\ flow'[r] = "none"
    BY <1>1, <2>1 DEF Untold, Evolves
  <2>3. delivered'[r] = 0 /\ hooks'[r] = 0
    BY <1>1 DEF Untold
  <2>4. \A c \in completing' : c.run # r
    BY <1>1 DEF Untold
  <2>5. \A s \in Steers : steering'[s] # r
    BY <1>1, Constants DEF Untold
  <2>. QED
    BY <2>2, <2>3, <2>4, <2>5 DEF Untold
<1>2. \A r \in Runs : child'[r] = "none" => Untold(r)'
  BY <1>1 DEF GoodLaunches
<1>3. ASSUME NEW l \in launches' PROVE child'[l.run] # "none" /\ Untold(l.run)'
  BY <1>1 DEF GoodLaunches
<1>4. ASSUME NEW l \in launches', l.how = "wake" PROVE l.prev \in Runs /\ flow'[l.prev] = "woken"
  BY <1>4 DEF GoodLaunches, Evolve, Evolves
<1>. QED
  BY <1>2, <1>3, <1>4 DEF GoodLaunches

(* A steer's mark holds as long as nothing else happens to its run.        *)
LEMMA SteersKept ==
  ASSUME GoodSteers, Evolve, KeepMarks, exempt \subseteq exempt', steering' \in [Steers -> Runs \cup {NoRun}],
         \A s \in Steers : steering'[s] \in {steering[s], NoRun}
  PROVE  GoodSteers'
<1>1. ASSUME NEW s \in Steers, steering'[s] # NoRun
      PROVE  /\ runs'[steering'[s]].session \in Sessions
             /\ {<<"steered", steering'[s]>>, <<"killed", steering'[s]>>} \cap exempt' = {} =>
                  runs'[steering'[s]].suppressed = "steer" /\ flow'[steering'[s]] = "none"
  <2>1. PICK r \in Runs : r = steering[s] /\ r = steering'[s]
    BY <1>1
  <2>2. Evolves(runs[r], flow[r], runs'[r], flow'[r]) /\ KeepsMark(runs[r], flow[r], runs'[r], flow'[r])
    BY DEF Evolve, KeepMarks
  <2>3. /\ runs[r].session \in Sessions
        /\ {<<"steered", r>>, <<"killed", r>>} \cap exempt = {} =>
             runs[r].suppressed = "steer" /\ flow[r] = "none"
    BY <1>1, <2>1 DEF GoodSteers
  <2>. QED
    BY <2>1, <2>2, <2>3 DEF Evolves, KeepsMark
<1>2. ASSUME NEW s \in Steers, NEW t \in Steers, s # t, steering'[s] = steering'[t], steering'[s] # NoRun
      PROVE  <<"steered", steering'[s]>> \in exempt'
  <2>1. steering'[s] = steering[s] /\ steering'[t] = steering[t]
    BY <1>2
  <2>. QED
    BY <1>2, <2>1 DEF GoodSteers
<1>. QED
  BY <1>1, <1>2 DEF GoodSteers

-----------------------------------------------------------------------------
(* What leaves records and announcements alone                             *)

(* Records and announcements that stay as they are evolve.                 *)
LEMMA NothingEvolves ==
  ASSUME runs' = runs, flow' = flow
  PROVE  Evolve /\ KeepMarks
BY DEF Evolve, Evolves, KeepMarks, KeepsMark

(* The next run to be given out is one that nobody knows.                  *)
LEMMA NextRuns ==
  ASSUME arranged \in Cases, NEW n \in NextRun
  PROVE  n \in Runs /\ child[n] = "none"
<1>1. arranged.runs \in 1..MaxRuns /\ MaxRuns \in Nat
  BY RegistryAssumption
<1>. QED
  BY <1>1 DEF NextRun, Runs

(* A run that the gateway accepts is a launch of a run nobody knows; the   *)
(* one that wakes another is the only one to do so.                        *)
LEMMA Accepting ==
  ASSUME RegistryInv, NEW n, NEW s \in Sessions, NEW prev \in Runs \cup {NoRun},
         NEW how \in Steers \cup {"spawn", "wake"}, Accept(n, s, prev, how),
         how = "wake" => prev \in Runs /\ flow[prev] = "waking" /\ flow'[prev] = "woken",
         \A r \in Runs : flow'[r] = flow[r] \/ (how = "wake" /\ r = prev),
         UNCHANGED <<runs, disk, completing, steering, delivered, hooks>>
  PROVE  child' = [r \in Runs |-> child'[r]] /\ GoodLaunches'
<1>. DEFINE l == [run |-> n, session |-> s, prev |-> prev, how |-> how]
<1>1. n \in NextRun /\ n \in Runs /\ child[n] = "none"
  BY NextRuns DEF Accept, RegistryInv, Types
<1>2. child' = [child EXCEPT ![n] = "runs"] /\ launches' = launches \cup {l}
  BY DEF Accept
<1>3. child = [r \in Runs |-> child[r]]
  BY DEF RegistryInv, Types
<1>4. \A r \in Runs : child'[r] = IF r = n THEN "runs" ELSE child[r]
  BY <1>1, <1>2, <1>3
<1>5. child' = [r \in Runs |-> child'[r]]
  BY <1>2, <1>3
<1>6. GoodLaunches
  BY DEF RegistryInv
<1>7. ASSUME NEW r \in Runs, Untold(r) PROVE Untold(r)'
  <2>1. flow'[r] = "none"
    BY <1>7 DEF Untold
  <2>. QED
    BY <1>7, <2>1 DEF Untold
<1>8. ASSUME NEW r \in Runs, child'[r] = "none" PROVE Untold(r)'
  BY <1>4, <1>6, <1>7, <1>8 DEF GoodLaunches
<1>9. ASSUME NEW m \in launches' PROVE child'[m.run] # "none" /\ Untold(m.run)'
  <2>1. CASE m \in launches
    BY <1>4, <1>6, <1>7, <2>1 DEF GoodLaunches
  <2>2. CASE m = l
    BY <1>1, <1>4, <1>6, <1>7, <2>2 DEF GoodLaunches
  <2>. QED
    BY <1>2, <2>1, <2>2
<1>10. ASSUME NEW m \in launches', m.how = "wake"
       PROVE  m.prev \in Runs /\ flow'[m.prev] = "woken"
  <2>1. CASE m \in launches
    <3>1. m.prev \in Runs /\ flow[m.prev] = "woken"
      BY <1>6, <1>10, <2>1 DEF GoodLaunches
    <3>. QED
      BY <3>1
  <2>2. CASE m = l
    BY <1>10, <2>2
  <2>. QED
    BY <1>2, <2>1, <2>2
<1>11. \A m \in launches : m.run # n /\ (m.how = "wake" /\ how = "wake" => m.prev # prev)
  BY <1>1, <1>6 DEF GoodLaunches
<1>12. ASSUME NEW m \in launches', NEW k \in launches',
              m.run = k.run \/ (m.how = "wake" /\ k.how = "wake" /\ m.prev = k.prev)
       PROVE  m = k
  BY <1>2, <1>6, <1>11, <1>12 DEF GoodLaunches
<1>13. launches' \subseteq [run : Runs, session : Sessions, prev : Runs \cup {NoRun},
                            how : Steers \cup {"spawn", "wake"}]
  BY <1>1, <1>2, <1>6 DEF GoodLaunches
<1>. QED
  BY <1>5, <1>8, <1>9, <1>10, <1>12, <1>13 DEF GoodLaunches

(* The file may be written at any time.                                    *)
LEMMA Saving ==
  ASSUME GoodRuns, Types, runs' = runs, flow' = flow, delivered' = delivered, hooks' = hooks,
         disk' = disk \/ disk' = runs
  PROVE  GoodRuns'
BY DEF GoodRuns, Good

(* A session is spawned,                                                   *)
LEMMA SpawnKeeps ==
  ASSUME RegistryInv, NEW s \in Sessions, Spawn(s)
  PROVE  RegistryInv'
<1>1. PICK n \in NextRun : Accept(n, s, NoRun, "spawn")
  BY DEF Spawn
<1>2. /\ runs' = runs /\ disk' = disk /\ flow' = flow /\ completing' = completing
      /\ steering' = steering /\ delivered' = delivered /\ hooks' = hooks /\ exempt' = exempt
      /\ UNCHANGED <<arranged, gone, waits, pendingErrors, resumed, retryTimers, backoffTimers,
                     sweeping>>
  BY DEF Spawn
<1>4. child' = [r \in Runs |-> child'[r]] /\ GoodLaunches'
  <2>1. "spawn" # "wake"
    OBVIOUS
  <2>. QED
    BY <1>1, <1>2, <2>1, Accepting
<1>5. Types'
  BY <1>2, <1>4 DEF RegistryInv, Types
<1>6. GoodRuns'
  BY <1>2 DEF RegistryInv, GoodRuns
<1>7. GoodCompletions'
  BY <1>2 DEF RegistryInv, GoodCompletions, Ended
<1>8. GoodSteers'
  BY <1>2 DEF RegistryInv, GoodSteers
<1>. QED
  BY <1>4, <1>5, <1>6, <1>7, <1>8 DEF RegistryInv

(* a steer has its run replaced,                                           *)
LEMMA SteerLaunchesKeeps ==
  ASSUME RegistryInv, NEW s \in Steers, SteerLaunches(s)
  PROVE  RegistryInv'
<1>0. PICK q \in Runs : q = steering[s]
  BY DEF SteerLaunches, RegistryInv, GoodSteers
<1>1. PICK n \in NextRun : Accept(n, runs[q].session, q, s)
  BY <1>0 DEF SteerLaunches
<1>2. /\ runs' = runs /\ disk' = disk /\ flow' = flow /\ completing' = completing
      /\ steering' = steering /\ delivered' = delivered /\ hooks' = hooks /\ exempt' = exempt
      /\ UNCHANGED <<arranged, gone, waits, pendingErrors, resumed, retryTimers, backoffTimers,
                     sweeping>>
  BY DEF SteerLaunches
<1>3. PICK t \in Sessions : t = runs[q].session
  BY <1>0, Constants DEF RegistryInv, GoodSteers
<1>4. child' = [r \in Runs |-> child'[r]] /\ GoodLaunches'
  <2>1. s # "wake"
    BY Constants
  <2>2. Accept(n, t, q, s)
    BY <1>1, <1>3
  <2>. QED
    BY <1>2, <2>1, <2>2, Accepting
<1>5. Types'
  BY <1>2, <1>4 DEF RegistryInv, Types
<1>6. GoodRuns'
  BY <1>2 DEF RegistryInv, GoodRuns
<1>7. GoodCompletions'
  BY <1>2 DEF RegistryInv, GoodCompletions, Ended
<1>8. GoodSteers'
  BY <1>2 DEF RegistryInv, GoodSteers
<1>. QED
  BY <1>4, <1>5, <1>6, <1>7, <1>8 DEF RegistryInv

(* and an announcement wakes its session, or goes on.                      *)
LEMMA WakesKeeps ==
  ASSUME RegistryInv, NEW r \in Runs, Wakes(r)
  PROVE  RegistryInv'
<1>1. flow[r] = "waking" /\ flow = [x \in Runs |-> flow[x]]
  BY DEF Wakes, RegistryInv, Types
<1>2. /\ runs' = runs /\ disk' = disk /\ completing' = completing
      /\ steering' = steering /\ delivered' = delivered /\ hooks' = hooks /\ exempt' = exempt
      /\ UNCHANGED <<arranged, gone, waits, pendingErrors, resumed, retryTimers, backoffTimers,
                     sweeping>>
  BY DEF Wakes
<1>3. PICK t \in Sessions : t = runs[r].session
  BY <1>1 DEF RegistryInv, GoodRuns, Good
<1>4. PICK g \in {"woken", "delivering"} :
        /\ flow' = [flow EXCEPT ![r] = g]
        /\ \/ \E n \in NextRun : Accept(n, t, r, "wake") /\ g = "woken"
           \/ UNCHANGED <<child, launches>>
  BY <1>3 DEF Wakes
<1>5. \A x \in Runs : flow'[x] = IF x = r THEN g ELSE flow[x]
  BY <1>1, <1>4
<1>6. Evolve /\ KeepMarks
  BY <1>1, <1>2, <1>5 DEF Evolve, Evolves, KeepMarks, KeepsMark
<1>7. child' = [x \in Runs |-> child'[x]] /\ GoodLaunches'
  <2>1. CASE UNCHANGED <<child, launches>>
    <3>1. GoodLaunches'
      BY <1>2, <1>6, <2>1, LaunchesKept DEF RegistryInv
    <3>. QED
      BY <2>1, <3>1 DEF RegistryInv, Types
  <2>2. ASSUME NEW n \in NextRun, Accept(n, t, r, "wake"), g = "woken"
        PROVE  child' = [x \in Runs |-> child'[x]] /\ GoodLaunches'
    BY <1>1, <1>2, <1>5, <2>2, Accepting
  <2>. QED
    BY <1>4, <2>1, <2>2
<1>8. Types'
  BY <1>2, <1>4, <1>7 DEF RegistryInv, Types
<1>9. GoodRuns'
  BY <1>1, <1>2, <1>5 DEF RegistryInv, GoodRuns, Good, Flows, Before, HookFlows
<1>10. GoodCompletions'
  BY <1>2, <1>5 DEF RegistryInv, GoodCompletions, Ended, HookFlows
<1>11. GoodSteers'
  BY <1>2, <1>6, SteersKept DEF RegistryInv, GoodSteers
<1>. QED
  BY <1>7, <1>8, <1>9, <1>10, <1>11 DEF RegistryInv

(* A run fails for now, or is tried again.                                 *)
LEMMA ChildKeeps ==
  ASSUME RegistryInv, NEW r \in Runs, ChildErrs(r) \/ ChildRetries(r)
  PROVE  RegistryInv'
<1>1. PICK g \in {"failing", "retried"} :
        child[r] # "none" /\ child' = [child EXCEPT ![r] = g]
  BY DEF ChildErrs, ChildRetries
<1>2. /\ runs' = runs /\ disk' = disk /\ flow' = flow /\ completing' = completing
      /\ launches' = launches /\ steering' = steering /\ delivered' = delivered /\ hooks' = hooks
      /\ exempt' = exempt /\ pendingErrors' \subseteq pendingErrors \cup {r}
      /\ UNCHANGED <<arranged, gone, waits, resumed, retryTimers, backoffTimers, sweeping>>
  BY DEF ChildErrs, ChildRetries
<1>3. Evolve
  BY <1>2, NothingEvolves
<1>4. Types'
  BY <1>1, <1>2 DEF RegistryInv, Types
<1>5. GoodRuns'
  BY <1>2 DEF RegistryInv, GoodRuns
<1>6. GoodCompletions'
  BY <1>2 DEF RegistryInv, GoodCompletions, Ended
<1>7. GoodLaunches'
  <2>1. \A x \in Runs : child'[x] = child[x] \/ (child[x] # "none" /\ child'[x] # "none")
    BY <1>1 DEF RegistryInv, Types
  <2>. QED
    BY <1>2, <1>3, <2>1, LaunchesKept DEF RegistryInv
<1>8. GoodSteers'
  BY <1>2 DEF RegistryInv, GoodSteers
<1>. QED
  BY <1>4, <1>5, <1>6, <1>7, <1>8 DEF RegistryInv

(* The sweeper has deleted the last session.                               *)
LEMMA SweepEndsKeeps ==
  ASSUME RegistryInv, SweepEnds
  PROVE  RegistryInv'
<1>1. /\ runs' = runs /\ disk' = runs /\ flow' = flow /\ completing' = completing
      /\ launches' = launches /\ steering' = steering /\ delivered' = delivered /\ hooks' = hooks
      /\ exempt' = exempt /\ child' = child /\ sweeping' = NoRun /\ sweeping # NoRun
      /\ gone' = gone \cup {runs[sweeping].session}
      /\ UNCHANGED <<arranged, waits, pendingErrors, resumed, retryTimers, backoffTimers>>
  BY DEF SweepEnds
<1>2. Evolve
  BY <1>1, NothingEvolves
<1>3. Types'
  BY <1>1 DEF RegistryInv, Types
<1>4. GoodRuns'
  BY <1>1, Saving DEF RegistryInv
<1>5. GoodCompletions'
  BY <1>1 DEF RegistryInv, GoodCompletions, Ended
<1>6. GoodLaunches'
  BY <1>1, <1>2, LaunchesKept DEF RegistryInv
<1>7. GoodSteers'
  BY <1>1 DEF RegistryInv, GoodSteers
<1>. QED
  BY <1>3, <1>4, <1>5, <1>6, <1>7 DEF RegistryInv

(* An announcement is overdue.                                             *)
LEMMA AgesKeeps ==
  ASSUME RegistryInv, NEW r \in Runs, Ages(r)
  PROVE  RegistryInv'
<1>1. /\ flow' = flow /\ completing' = completing /\ launches' = launches /\ steering' = steering
      /\ delivered' = delivered /\ hooks' = hooks /\ exempt' = exempt /\ child' = child
      /\ UNCHANGED <<arranged, gone, waits, pendingErrors, resumed, retryTimers, backoffTimers,
                     sweeping>>
  BY DEF Ages, memoryVars
<1>2. PICK g \in BOOLEAN : g = (disk[r].ended # "no")
  OBVIOUS
<1>3. runs' = [runs EXCEPT ![r].old = TRUE] /\ disk' = [disk EXCEPT ![r].old = g]
  BY <1>2 DEF Ages
<1>4. \A x \in Runs : Sound(runs[x]) /\ Sound(disk[x])
  BY DEF RegistryInv, GoodRuns, Good
<1>5. runs' = [x \in Runs |-> runs'[x]] /\ disk' = [x \in Runs |-> disk'[x]]
  BY <1>3 DEF RegistryInv, Types
<1>6. ASSUME NEW x \in Runs PROVE Alike(runs[x], runs'[x]) /\ Alike(disk[x], disk'[x])
  <2>1. runs[x] \in Records /\ disk[x] \in Records
    BY <1>4 DEF Sound
  <2>2. /\ runs'[x] = IF x = r THEN [runs[x] EXCEPT !.old = TRUE] ELSE runs[x]
        /\ disk'[x] = IF x = r THEN [disk[x] EXCEPT !.old = g] ELSE disk[x]
    BY <1>3 DEF RegistryInv, Types
  <2>. QED
    BY <2>1, <2>2 DEF Alike, Records
<1>7. Evolve /\ KeepMarks
  BY <1>1, <1>6 DEF Evolve, Evolves, KeepMarks, KeepsMark, Alike
<1>8. Types'
  BY <1>1, <1>5, <1>6 DEF RegistryInv, Types, Alike
<1>9. GoodRuns'
  BY <1>1, <1>6 DEF RegistryInv, GoodRuns, Good, Sound, Begun, Alike
<1>10. GoodCompletions'
  BY <1>1, <1>6 DEF RegistryInv, GoodCompletions, Ended, Alike
<1>11. GoodLaunches'
  BY <1>1, <1>6, <1>7, LaunchesKept DEF RegistryInv, Alike
<1>12. GoodSteers'
  BY <1>1, <1>7, SteersKept DEF RegistryInv, GoodSteers
<1>. QED
  BY <1>8, <1>9, <1>10, <1>11, <1>12 DEF RegistryInv

-----------------------------------------------------------------------------
(* The announcement                                                        *)

(* An announcement that goes on, and may have been delivered.              *)
LEMMA AnnouncementMoves ==
  ASSUME RegistryInv, NEW r \in Runs, NEW g \in Before \cup {"true"}, NEW m \in {0, 1},
         flow[r] \in Before, flow[r] # "woken", flow' = [flow EXCEPT ![r] = g],
         delivered' = [delivered EXCEPT ![r] = m], m = 1 => g = "true",
         exempt \subseteq exempt', gone' \subseteq gone \cup {runs[r].session},
         UNCHANGED <<arranged, runs, disk, child, launches, waits, pendingErrors, resumed,
                     retryTimers, backoffTimers, completing, steering, sweeping, hooks>>
  PROVE  RegistryInv'
<1>1. /\ \A x \in Runs : flow'[x] = IF x = r THEN g ELSE flow[x]
      /\ \A x \in Runs : delivered'[x] = IF x = r THEN m ELSE delivered[x]
      /\ flow' = [x \in Runs |-> flow'[x]] /\ delivered' = [x \in Runs |-> delivered'[x]]
  BY DEF RegistryInv, Types
<1>2. Evolve /\ KeepMarks
  BY <1>1 DEF Evolve, Evolves, KeepMarks, KeepsMark, Before
<1>3. Good(runs[r], disk[r], flow[r], delivered[r], hooks[r])
  BY DEF RegistryInv, GoodRuns
<1>4. flow[r] # "none" /\ runs[r].session \in Sessions
  BY <1>3 DEF Good, Before
<1>5. Types'
  BY <1>1, <1>4 DEF RegistryInv, Types
<1>6. GoodRuns'
  <2>1. Good(runs[r], disk[r], g, m, hooks[r])
    BY <1>3, <1>4 DEF Good, Flows, Before, HookFlows
  <2>. QED
    BY <1>1, <2>1 DEF RegistryInv, GoodRuns
<1>7. GoodCompletions'
  BY <1>1 DEF RegistryInv, GoodCompletions, Ended, Before, HookFlows
<1>8. GoodLaunches'
  BY <1>1, <1>2, <1>4, LaunchesKept DEF RegistryInv
<1>9. GoodSteers'
  BY <1>2, SteersKept DEF RegistryInv, GoodSteers
<1>. QED
  BY <1>5, <1>6, <1>7, <1>8, <1>9 DEF RegistryInv

(* Before the delivery nothing was delivered.                              *)
LEMMA NothingDelivered ==
  ASSUME RegistryInv, NEW r \in Runs, flow[r] \in Before
  PROVE  delivered[r] = 0 /\ delivered = [delivered EXCEPT ![r] = 0]
BY DEF RegistryInv, GoodRuns, Good, Types

(* It looks whom it is for, or gives up waiting for the session,           *)
LEMMA LooksKeeps ==
  ASSUME RegistryInv, NEW r \in Runs, Looks(r) \/ StillActive(r)
  PROVE  RegistryInv'
<1>1. flow[r] = "begun"
  BY DEF Looks, StillActive
<1>2. PICK g \in {"true", "false", "waking", "delivering"} : flow' = [flow EXCEPT ![r] = g]
  BY DEF Looks, StillActive
<1>3. delivered' = [delivered EXCEPT ![r] = 0]
  BY <1>1, NothingDelivered DEF Looks, StillActive, Before
<1>4. /\ gone' \subseteq gone \cup {runs[r].session} /\ exempt \subseteq exempt'
      /\ UNCHANGED <<arranged, runs, disk, child, launches, waits, pendingErrors, resumed,
                     retryTimers, backoffTimers, completing, steering, sweeping, hooks>>
  BY DEF Looks, StillActive
<1>5. flow[r] \in Before /\ flow[r] # "woken" /\ g \in Before \cup {"true"}
  BY <1>1 DEF Before
<1>6. 0 \in {0, 1} /\ (0 = 1 => g = "true")
  OBVIOUS
<1>. QED
  BY <1>2, <1>3, <1>4, <1>5, <1>6, AnnouncementMoves

(* and delivers.                                                           *)
LEMMA DeliversKeeps ==
  ASSUME RegistryInv, NEW r \in Runs, Delivers(r)
  PROVE  RegistryInv'
<1>1. flow[r] = "delivering" /\ flow[r] \in Before
  BY DEF Delivers, Before
<1>2. delivered[r] = 0
  BY <1>1, NothingDelivered
<1>3. PICK g \in {"true", "false"}, m \in {0, 1} :
        /\ flow' = [flow EXCEPT ![r] = g] /\ delivered' = [delivered EXCEPT ![r] = m]
        /\ m = 1 => g = "true"
  <2>1. PICK how \in {"delivered", "silence", "failure"} :
          /\ delivered' = [delivered EXCEPT ![r] = IF how = "delivered" THEN @ + 1 ELSE @]
          /\ flow' = [flow EXCEPT ![r] = IF how = "failure" THEN "false" ELSE "true"]
    BY DEF Delivers
  <2>2. CASE how = "delivered"
    BY <1>2, <2>1, <2>2
  <2>3. CASE how # "delivered"
    <3>1. delivered' = [delivered EXCEPT ![r] = 0]
      BY <1>2, <2>1, <2>3
    <3>2. PICK g \in {"true", "false"} : flow' = [flow EXCEPT ![r] = g]
      BY <2>1
    <3>3. 0 \in {0, 1} /\ (0 = 1 => g = "true")
      OBVIOUS
    <3>. QED
      BY <3>1, <3>2, <3>3
  <2>. QED
    BY <2>2, <2>3
<1>4. /\ gone' \subseteq gone \cup {runs[r].session} /\ exempt \subseteq exempt'
      /\ UNCHANGED <<arranged, runs, disk, child, launches, waits, pendingErrors, resumed,
                     retryTimers, backoffTimers, completing, steering, sweeping, hooks>>
  BY DEF Delivers
<1>. QED
  BY <1>1, <1>3, <1>4, AnnouncementMoves DEF Before

-----------------------------------------------------------------------------
(* The end of a run                                                        *)

(* A record that is ended,                                                 *)
LEMMA EndedIs ==
  ASSUME NEW e \in Records, NEW how \in {"ok", "error"}, NEW by
  PROVE  LET x == EndedAs(e, how, by) IN
         /\ x \in Records /\ x.session = e.session /\ x.listed = e.listed /\ x.ended = how
         /\ x.suppressed = e.suppressed /\ x.handled = e.handled /\ x.settled = e.settled
         /\ x.retries = e.retries /\ x.told = e.told
<1>1. PICK g \in BOOLEAN : g = (e.outlived \/ (e.settled /\ by # "wait"))
  OBVIOUS
<1>2. EndedAs(e, how, by) = [e EXCEPT !.ended = how, !.old = FALSE, !.outlived = g]
  BY <1>1 DEF EndedAs, Records
<1>. QED
  BY <1>2 DEF Records

(* and perhaps has the mark of a kill lifted, is good,                     *)
LEMMA CompletedIsGood ==
  ASSUME NEW e, NEW d, NEW f, NEW n, NEW h, Good(e, d, f, n, h),
         NEW how \in {"ok", "error"}, NEW by
  PROVE  LET x == EndedAs(Lifted(e, how), how, by) IN
         /\ Good(x, d, f, n, h) /\ Evolves(e, f, x, f) /\ KeepsMark(e, f, x, f)
         /\ x.told = e.told /\ x.ended # "no"
         /\ Good(x, EndedAs(e, how, by), f, n, h)
<1>. DEFINE l == Lifted(e, how)
            x == EndedAs(l, how, by)
            w == EndedAs(e, how, by)
<1>1. e \in Records /\ MaxRetries # 0
  BY Constants DEF Good, Sound
<1>2. /\ w \in Records /\ w.session = e.session /\ w.listed = e.listed /\ w.ended = how
      /\ w.suppressed = e.suppressed /\ w.handled = e.handled /\ w.settled = e.settled
      /\ w.retries = e.retries /\ w.told = e.told
  BY <1>1, EndedIs
<1>3. CASE l = e
  BY <1>1, <1>2, <1>3 DEF Good, Sound, Begun, Evolves, KeepsMark
<1>4. CASE /\ l = [e EXCEPT !.suppressed = "no", !.handled = FALSE, !.settled = FALSE]
           /\ e.suppressed = "killed"
  <2>1. /\ l \in Records /\ l.session = e.session /\ l.listed = e.listed /\ l.told = e.told
        /\ l.suppressed = "no" /\ l.handled = FALSE /\ l.settled = FALSE /\ l.retries = e.retries
    BY <1>1, <1>4 DEF Records
  <2>2. /\ x \in Records /\ x.session = e.session /\ x.listed = e.listed /\ x.ended = how
        /\ x.suppressed = "no" /\ x.handled = FALSE /\ x.settled = FALSE
        /\ x.retries = e.retries /\ x.told = e.told
    <3>. HIDE DEF l
    <3>. QED
      BY <2>1, EndedIs
  <2>. HIDE DEF l, x, w
  <2>3. f = "none" /\ n = 0 /\ e.retries = 0 /\ e.ended # "no"
    BY <1>4 DEF Good, Sound, Begun
  <2>4. Sound(x) /\ Sound(w)
    BY <1>1, <1>2, <2>2, <2>3 DEF Good, Sound
  <2>5. Good(x, d, f, n, h) /\ Good(x, w, f, n, h)
    BY <1>2, <2>2, <2>3, <2>4 DEF Good, Before, HookFlows
  <2>6. Evolves(e, f, x, f) /\ KeepsMark(e, f, x, f) /\ x.told = e.told /\ x.ended # "no"
    BY <1>4, <2>2 DEF Evolves, KeepsMark
  <2>. QED
    BY <2>5, <2>6 DEF x, w, l
<1>. QED
  BY <1>3, <1>4 DEF Lifted

(* and so is what completeSubagentRun leaves.                              *)
LEMMA Completes ==
  ASSUME RegistryInv, NEW r \in Runs, NEW how \in {"ok", "error"},
         NEW by \in {"event", "grace", "wait"}, Complete(r, how, by),
         \/ disk' = disk
         \/ Listed(r) /\ disk' = [runs EXCEPT ![r] = EndedAs(@, how, by)],
         child' = [x \in Runs |-> child'[x]],
         \A x \in Runs : child'[x] = child[x] \/ (child[x] # "none" /\ child'[x] # "none"),
         pendingErrors' \subseteq pendingErrors, waits' \subseteq waits,
         UNCHANGED <<arranged, gone, launches, resumed, retryTimers, backoffTimers,
                     flow, steering, sweeping, delivered, hooks, exempt>>
  PROVE  RegistryInv'
<1>. DEFINE x == EndedAs(Lifted(runs[r], how), how, by)
            c == [run |-> r, by |-> by, at |-> "freeze"]
<1>0. runs = [y \in Runs |-> runs[y]] /\ disk = [y \in Runs |-> disk[y]]
  BY DEF RegistryInv, Types
<1>g. ASSUME NEW y \in Runs PROVE Good(runs[y], disk[y], flow[y], delivered[y], hooks[y])
  BY DEF RegistryInv, GoodRuns
<1>1. /\ \A y \in Runs : runs'[y] = IF Listed(r) /\ y = r THEN x ELSE runs[y]
      /\ runs' = [y \in Runs |-> runs'[y]]
      /\ completing' \subseteq completing \cup {c} /\ (c \in completing' => c \in completing \/ Listed(r))
  BY <1>0 DEF Complete
<1>2. /\ Good(x, disk[r], flow[r], delivered[r], hooks[r])
      /\ Evolves(runs[r], flow[r], x, flow[r]) /\ KeepsMark(runs[r], flow[r], x, flow[r])
      /\ x.told = runs[r].told /\ x.ended # "no"
      /\ Good(x, EndedAs(runs[r], how, by), flow[r], delivered[r], hooks[r])
  BY <1>g, CompletedIsGood
<1>3. /\ disk' = [y \in Runs |-> disk'[y]]
      /\ \A y \in Runs : \/ disk'[y] = disk[y]
                         \/ Listed(r) /\ y # r /\ disk'[y] = runs[y]
                         \/ Listed(r) /\ y = r /\ disk'[y] = EndedAs(runs[r], how, by)
  BY <1>0
<1>. HIDE DEF x
<1>4. Evolve /\ KeepMarks
  <2>1. ASSUME NEW y \in Runs
        PROVE  /\ Evolves(runs[y], flow[y], runs'[y], flow'[y])
               /\ KeepsMark(runs[y], flow[y], runs'[y], flow'[y])
    <3>1. CASE Listed(r) /\ y = r
      BY <1>1, <1>2, <3>1
    <3>2. CASE ~(Listed(r) /\ y = r)
      BY <1>1, <3>2 DEF Evolves, KeepsMark
    <3>. QED
      BY <3>1, <3>2
  <2>. QED
    BY <2>1 DEF Evolve, KeepMarks
<1>5. Types'
  <2>1. sweeping # NoRun => runs'[sweeping].session \in Sessions
    BY <1>4 DEF RegistryInv, Types, Evolve, Evolves
  <2>. QED
    BY <1>1, <1>3, <2>1 DEF RegistryInv, Types
<1>6. GoodRuns'
  <2>1. ASSUME NEW y \in Runs
        PROVE  Good(runs'[y], disk'[y], flow'[y], delivered'[y], hooks'[y])
    <3>1. CASE Listed(r) /\ y = r
      BY <1>1, <1>2, <1>3, <3>1
    <3>2. CASE ~(Listed(r) /\ y = r)
      <4>1. runs'[y] = runs[y] /\ (disk'[y] = disk[y] \/ disk'[y] = runs[y])
        BY <1>1, <1>3, <3>2
      <4>. QED
        BY <1>g, <4>1 DEF Good
    <3>. QED
      BY <3>1, <3>2
  <2>. QED
    BY <2>1 DEF GoodRuns
<1>7. GoodCompletions'
  <2>1. GoodCompletions /\ completing \subseteq Completions
    BY DEF RegistryInv, GoodCompletions, Completions
  <2>2. c \in Completions
    BY DEF Completions
  <2>3. ASSUME NEW b \in completing'
        PROVE  \/ /\ b \in completing
                  /\ b.at = "hook" => ~runs'[b.run].told /\ flow'[b.run] \notin HookFlows
               \/ b.at = "freeze" /\ runs'[b.run].ended # "no"
    <3>1. CASE b \in completing
      <4>1. b.run \in Runs
        BY <2>1, <3>1 DEF Completions
      <4>2. runs'[b.run].told = runs[b.run].told
        BY <1>1, <1>2, <4>1
      <4>. QED
        BY <2>1, <3>1, <4>2 DEF GoodCompletions
    <3>2. CASE b \notin completing
      BY <1>1, <1>2, <3>2
    <3>. QED
      BY <3>1, <3>2
  <2>4. completing' \subseteq Completions
    BY <1>1, <2>1, <2>2
  <2>. QED
    BY <1>4, <2>1, <2>3, <2>4, CompletionsKept
<1>8. GoodLaunches'
  <2>1. \A y \in Runs : disk'[y].listed => disk[y].listed \/ runs[y].listed
    BY <1>3 DEF Listed
  <2>2. \A b \in completing' : runs[b.run].listed \/ \E a \in completing : a.run = b.run
    BY <1>1 DEF Listed
  <2>. QED
    BY <1>4, <2>1, <2>2, LaunchesKept DEF RegistryInv
<1>9. GoodSteers'
  BY <1>4, SteersKept DEF RegistryInv, GoodSteers
<1>. QED
  BY <1>5, <1>6, <1>7, <1>8, <1>9 DEF RegistryInv

(* A timer that has nothing to do.                                         *)
LEMMA NothingComes ==
  ASSUME RegistryInv, waits' \subseteq waits, pendingErrors' \subseteq pendingErrors,
         UNCHANGED <<arranged, runs, disk, gone, child, launches, resumed, retryTimers,
                     backoffTimers, completing, flow, steering, sweeping, delivered, hooks, exempt>>
  PROVE  RegistryInv'
<1>1. Types'
  BY DEF RegistryInv, Types
<1>2. GoodRuns' /\ GoodCompletions' /\ GoodSteers'
  BY DEF RegistryInv, GoodRuns, GoodCompletions, Ended, GoodSteers
<1>3. GoodLaunches'
  <2>1. Evolve
    BY NothingEvolves
  <2>. QED
    BY <2>1, LaunchesKept DEF RegistryInv
<1>. QED
  BY <1>1, <1>2, <1>3 DEF RegistryInv

(* A run ends,                                                             *)
LEMMA ChildEndsKeeps ==
  ASSUME RegistryInv, NEW r \in Runs, ChildEnds(r)
  PROVE  RegistryInv'
<1>1. Complete(r, "ok", "event") /\ disk' = disk /\ pendingErrors' \subseteq pendingErrors
      /\ waits' \subseteq waits
  BY DEF ChildEnds
<1>2. child' = [child EXCEPT ![r] = "over"] /\ child[r] # "none"
  BY DEF ChildEnds
<1>3. /\ child' = [x \in Runs |-> child'[x]]
      /\ \A x \in Runs : child'[x] = child[x] \/ (child[x] # "none" /\ child'[x] # "none")
  BY <1>2 DEF RegistryInv, Types
<1>4. UNCHANGED <<arranged, gone, launches, resumed, retryTimers, backoffTimers,
                  flow, steering, sweeping, delivered, hooks, exempt>>
  BY DEF ChildEnds
<1>. QED
  BY <1>1, <1>3, <1>4, Completes

(* the grace of an error is over,                                          *)
LEMMA GraceEndsKeeps ==
  ASSUME RegistryInv, NEW r \in Runs, GraceEnds(r)
  PROVE  RegistryInv'
<1>1. /\ disk' = disk /\ pendingErrors' \subseteq pendingErrors /\ child' = child /\ waits' \subseteq waits
      /\ child' = [x \in Runs |-> child'[x]]
      /\ UNCHANGED <<arranged, gone, launches, resumed, retryTimers, backoffTimers,
                     flow, steering, sweeping, delivered, hooks, exempt>>
  BY DEF GraceEnds, RegistryInv, Types
<1>2. CASE UNCHANGED <<runs, completing>>
  BY <1>1, <1>2, NothingComes
<1>3. CASE Complete(r, "error", "grace")
  BY <1>1, <1>3, Completes
<1>. QED
  BY <1>2, <1>3 DEF GraceEnds

(* or agent.wait answers.                                                  *)
LEMMA WaitAnswersKeeps ==
  ASSUME RegistryInv, NEW r \in Runs, NEW how \in {"ok", "error", "fails"}, WaitAnswers(r, how)
  PROVE  RegistryInv'
<1>1. /\ waits' \subseteq waits /\ pendingErrors' \subseteq pendingErrors /\ child' = child
      /\ child' = [x \in Runs |-> child'[x]]
      /\ UNCHANGED <<arranged, gone, launches, resumed, retryTimers, backoffTimers,
                     flow, steering, sweeping, delivered, hooks, exempt>>
  BY DEF WaitAnswers, RegistryInv, Types
<1>2. CASE how = "fails"
  <2>1. UNCHANGED <<runs, disk, completing>>
    BY <1>2 DEF WaitAnswers
  <2>. QED
    BY <1>1, <2>1, NothingComes
<1>3. CASE how # "fails"
  <2>1. /\ Complete(r, how, "wait")
        /\ \/ disk' = disk
           \/ Listed(r) /\ disk' = [runs EXCEPT ![r] = EndedAs(@, how, "wait")]
    BY <1>3 DEF WaitAnswers
  <2>. QED
    BY <1>1, <1>3, <2>1, Completes
<1>. QED
  BY <1>2, <1>3

(* It answers in time or not.                                              *)
LEMMA WaitKeeps ==
  ASSUME RegistryInv, NEW r \in Runs, WaitReturns(r) \/ WaitTimesOut(r)
  PROVE  RegistryInv'
BY WaitAnswersKeeps DEF WaitReturns, WaitTimesOut

-----------------------------------------------------------------------------
(* The cleanup begins                                                      *)

(* What has evolved from what has evolved has evolved.                     *)
LEMMA EvolvesFurther ==
  ASSUME NEW e, NEW f, NEW x, NEW g, NEW y, NEW i, Evolves(e, f, x, g), Evolves(x, g, y, i)
  PROVE  Evolves(e, f, y, i)
BY DEF Evolves

(* Records rs and announcements fl, with which runs are resumed, are good  *)
(* afterwards, and evolve.                                                 *)
LEMMA ResumedKeeps ==
  ASSUME NEW rs, NEW fl,
         \A y \in Runs : Resumed(rs[y], fl[y], runs'[y], flow'[y]),
         \A y \in Runs : Good(rs[y], rs[y], fl[y], delivered'[y], hooks'[y]),
         \/ disk' = runs'
         \/ /\ disk' = disk
            /\ \A y \in Runs : /\ Alike(rs[y], runs'[y]) /\ flow'[y] = fl[y]
                               /\ Good(rs[y], disk[y], fl[y], delivered'[y], hooks'[y])
  PROVE  /\ GoodRuns'
         /\ \A y \in Runs : /\ Evolves(rs[y], fl[y], runs'[y], flow'[y])
                            /\ KeepsMark(rs[y], fl[y], runs'[y], flow'[y])
                            /\ runs'[y].told = rs[y].told
                            /\ flow'[y] \in HookFlows => fl[y] \in HookFlows
<1>1. ASSUME NEW y \in Runs
      PROVE  Good(runs'[y], disk'[y], flow'[y], delivered'[y], hooks'[y])
  <2>1. CASE disk' = runs'
    BY <2>1, ResumedIsGood
  <2>2. CASE /\ disk'[y] = disk[y] /\ Alike(rs[y], runs'[y]) /\ flow'[y] = fl[y]
             /\ Good(rs[y], disk[y], fl[y], delivered'[y], hooks'[y])
    BY <2>2, ResumedIsGood
  <2>. QED
    BY <2>1, <2>2
<1>2. ASSUME NEW y \in Runs
      PROVE  /\ Evolves(rs[y], fl[y], runs'[y], flow'[y])
             /\ KeepsMark(rs[y], fl[y], runs'[y], flow'[y])
             /\ runs'[y].told = rs[y].told
             /\ flow'[y] \in HookFlows => fl[y] \in HookFlows
  <2>1. rs[y] \in Records /\ (fl[y] # "none" => rs[y].handled)
    BY DEF Good, Sound, Begun
  <2>. QED
    BY <2>1, ResumedEvolves
<1>. QED
  BY <1>1, <1>2 DEF GoodRuns

(* Runs that are resumed with records rs and announcements fl keep the     *)
(* invariant, but for the steers, if rs and fl have evolved from what      *)
(* there was.                                                              *)
LEMMA ResumingKeeps ==
  ASSUME RegistryInv, NEW rs, NEW fl,
         \A y \in Runs : Evolves(runs[y], flow[y], rs[y], fl[y]),
         \A y \in Runs : Resumed(rs[y], fl[y], runs'[y], flow'[y]),
         \A y \in Runs : Good(rs[y], rs[y], fl[y], delivered'[y], hooks'[y]),
         \/ disk' = runs'
         \/ /\ disk' = disk
            /\ \A y \in Runs : /\ Alike(rs[y], runs'[y]) /\ flow'[y] = fl[y]
                               /\ Good(rs[y], disk[y], fl[y], delivered'[y], hooks'[y]),
         runs' = [y \in Runs |-> runs'[y]], flow' = [y \in Runs |-> flow'[y]],
         delivered' = [y \in Runs |-> delivered'[y]], hooks' = [y \in Runs |-> hooks'[y]],
         waits' \cup pendingErrors' \cup resumed' \cup retryTimers' \cup backoffTimers' \subseteq Runs,
         completing' \subseteq completing,
         \A c \in completing' : c.at = "hook" => ~rs[c.run].told /\ fl[c.run] \notin HookFlows,
         \A y \in Runs : \/ delivered'[y] = delivered[y] /\ hooks'[y] = hooks[y]
                         \/ flow[y] # "none"
                         \/ \E c \in completing : c.run = y,
         \A s \in Steers : steering'[s] \in {steering[s], NoRun},
         UNCHANGED <<arranged, gone, child, launches, sweeping>>
  PROVE  /\ Types' /\ GoodRuns' /\ GoodCompletions' /\ GoodLaunches' /\ Evolve
         /\ \A y \in Runs : KeepsMark(rs[y], fl[y], runs'[y], flow'[y])
<1>1. /\ GoodRuns'
      /\ \A y \in Runs : /\ Evolves(rs[y], fl[y], runs'[y], flow'[y])
                         /\ KeepsMark(rs[y], fl[y], runs'[y], flow'[y])
                         /\ runs'[y].told = rs[y].told
                         /\ flow'[y] \in HookFlows => fl[y] \in HookFlows
  BY ResumedKeeps
<1>2. Evolve
  BY <1>1, EvolvesFurther DEF Evolve
<1>3. Types'
  <2>1. disk' = [y \in Runs |-> disk'[y]]
    BY DEF RegistryInv, Types
  <2>2. sweeping # NoRun => runs'[sweeping].session \in Sessions
    BY <1>2 DEF RegistryInv, Types, Evolve, Evolves
  <2>. QED
    BY <2>1, <2>2 DEF RegistryInv, Types
<1>4. GoodCompletions'
  <2>1. GoodCompletions /\ completing' \subseteq Completions
    BY DEF RegistryInv, GoodCompletions, Completions
  <2>2. \A c \in completing' : c.at = "hook" => ~runs'[c.run].told /\ flow'[c.run] \notin HookFlows
    BY <1>1, <2>1 DEF Completions
  <2>. QED
    BY <1>2, <2>1, <2>2, CompletionsKept
<1>5. GoodLaunches'
  <2>1. \A y \in Runs : disk'[y].listed => disk[y].listed \/ runs[y].listed
    BY <1>2 DEF Evolve, Evolves
  <2>. QED
    BY <1>2, <2>1, LaunchesKept DEF RegistryInv
<1>. QED
  BY <1>1, <1>2, <1>3, <1>4, <1>5

(* startSubagentAnnounceCleanupFlow for a run that has ended.              *)
LEMMA BeginIs ==
  ASSUME NEW r \in Runs, NEW rs, NEW saved, Begin(r, rs, saved),
         rs = [y \in Runs |-> rs[y]], flow = [y \in Runs |-> flow[y]],
         \A y \in Runs : Sound(rs[y]), rs[r].ended # "no", rs[r].suppressed # "steer"
  PROVE  /\ runs' = [y \in Runs |-> runs'[y]] /\ flow' = [y \in Runs |-> flow'[y]]
         /\ \A y \in Runs : Resumed(rs[y], flow[y], runs'[y], flow'[y])
         /\ \/ disk' = runs'
            \/ /\ disk' = disk /\ ~saved
               /\ \A y \in Runs : Alike(rs[y], runs'[y]) /\ flow'[y] = flow[y]
<1>1. \A y \in Runs : rs[y] \in Records /\ Alike(rs[y], rs[y])
  BY DEF Sound, Alike
<1>2. CASE MayBegin(rs[r])
  <2>1. /\ runs' = [rs EXCEPT ![r].handled = TRUE] /\ flow' = [flow EXCEPT ![r] = "begun"]
        /\ disk' = runs'
    BY <1>1, <1>2 DEF Begin, Records
  <2>2. /\ runs'[r] = [rs[r] EXCEPT !.handled = TRUE] /\ flow'[r] = "begun"
        /\ \A y \in Runs : y # r => runs'[y] = rs[y] /\ flow'[y] = flow[y]
    BY <2>1
  <2>3. rs[r].retries < MaxRetries
    <3>1. rs[r].retries \in 0..MaxRetries /\ rs[r].retries # MaxRetries
      BY <1>1, <1>2 DEF Records, Sound, MayBegin
    <3>. QED
      BY <3>1, Constants
  <2>4. Resumed(rs[r], flow[r], runs'[r], flow'[r])
    <3>1. rs[r] \in Records
      BY <1>1
    <3>2. [rs[r] EXCEPT !.handled = TRUE] \in Records
      BY <3>1 DEF Records
    <3>. QED
      BY <1>2, <2>2, <2>3, <3>2 DEF Resumed, Alike
  <2>5. \A y \in Runs : y # r => Resumed(rs[y], flow[y], runs'[y], flow'[y])
    BY <1>1, <2>2 DEF Resumed
  <2>. QED
    BY <2>1, <2>4, <2>5
<1>3. CASE ~MayBegin(rs[r])
  <2>1. PICK g \in BOOLEAN : g = rs[r].handled
    BY <1>1 DEF Records
  <2>2. /\ runs' = [rs EXCEPT ![r].handled = g] /\ flow' = [flow EXCEPT ![r] = flow[r]]
        /\ disk' = runs' \/ (disk' = disk /\ ~saved)
    BY <1>1, <1>3, <2>1 DEF Begin, Records
  <2>3. \A y \in Runs : Alike(rs[y], runs'[y]) /\ flow'[y] = flow[y]
    BY <1>1, <2>1, <2>2 DEF Alike, Records
  <2>4. \A y \in Runs : Resumed(rs[y], flow[y], runs'[y], flow'[y])
    BY <2>3 DEF Resumed
  <2>. QED
    BY <2>2, <2>3, <2>4
<1>. QED
  BY <1>2, <1>3

(* The result is frozen, and a run that is being steered says nothing;     *)
LEMMA FreezesOnly ==
  ASSUME RegistryInv, NEW c \in completing, Frozen(c), NEW r \in Runs, r = c.run,
         runs' = runs, flow' = flow, disk' = runs,
         \/ completing' = completing \ {c}
         \/ /\ completing' = (completing \ {c}) \cup {[c EXCEPT !.at = "hook"]}
            /\ Speaks(runs[r]) /\ MayEmit(r)
  PROVE  RegistryInv'
<1>0. GoodCompletions /\ completing \subseteq Completions
  BY DEF RegistryInv, GoodCompletions, Completions
<1>1. /\ Ended(r)
      /\ UNCHANGED <<arranged, gone, child, launches, waits, pendingErrors, resumed, retryTimers,
                     backoffTimers, steering, sweeping, delivered, hooks, exempt>>
  BY <1>0 DEF Frozen, GoodCompletions
<1>2. Evolve /\ KeepMarks
  BY NothingEvolves
<1>3. Types'
  BY <1>1 DEF RegistryInv, Types
<1>4. GoodRuns'
  BY <1>1, Saving DEF RegistryInv
<1>5. GoodCompletions' /\ (\A b \in completing' : \E a \in completing : a.run = b.run)
  <2>1. CASE completing' = completing \ {c}
    BY <1>0, <2>1 DEF GoodCompletions, Ended
  <2>2. CASE /\ completing' = (completing \ {c}) \cup {[c EXCEPT !.at = "hook"]}
             /\ Speaks(runs[r]) /\ MayEmit(r)
    <3>1. PICK b \in Completions : b = [c EXCEPT !.at = "hook"] /\ b.run = r /\ b.at = "hook"
      <4>1. PICK by \in {"event", "grace", "wait", "kill"}, at \in {"freeze", "hook"} :
              c = [run |-> r, by |-> by, at |-> at]
        BY <1>0 DEF Completions
      <4>2. [c EXCEPT !.at = "hook"] = [run |-> r, by |-> by, at |-> "hook"]
        BY <4>1
      <4>3. [run |-> r, by |-> by, at |-> "hook"] \in Completions
        BY DEF Completions
      <4>. QED
        BY <4>2, <4>3
    <3>2. ~runs[r].told /\ runs[r].suppressed # "steer" /\ flow[r] \notin HookFlows
      BY <2>2 DEF MayEmit, InHook, Speaks, HookFlows
    <3>3. \A a \in completing : a.at = "hook" => a.run # r
      BY <2>2 DEF MayEmit, InHook
    <3>4. completing' = (completing \ {c}) \cup {b}
      BY <2>2, <3>1
    <3>5. ASSUME NEW a \in completing'
          PROVE  /\ Ended(a.run)
                 /\ a.at = "hook" => /\ ~runs[a.run].told /\ runs[a.run].suppressed # "steer"
                                     /\ flow[a.run] \notin HookFlows
      BY <1>0, <1>1, <3>1, <3>2, <3>4 DEF GoodCompletions
    <3>6. \A a, d \in completing' : a.at = "hook" /\ d.at = "hook" /\ a.run = d.run => a = d
      BY <1>0, <3>1, <3>3, <3>4 DEF GoodCompletions
    <3>7. \A a \in completing' : \E d \in completing : d.run = a.run
      BY <3>1, <3>4
    <3>8. completing' \subseteq Completions
      BY <1>0, <3>1, <3>4
    <3>. QED
      BY <3>5, <3>6, <3>7, <3>8 DEF GoodCompletions, Ended, Completions
  <2>. QED
    BY <2>1, <2>2
<1>6. GoodLaunches'
  BY <1>1, <1>2, <1>5, LaunchesKept DEF RegistryInv
<1>7. GoodSteers'
  BY <1>1, <1>2, SteersKept DEF RegistryInv, GoodSteers
<1>. QED
  BY <1>3, <1>4, <1>5, <1>6, <1>7 DEF RegistryInv

(* or the cleanup begins.                                                  *)
LEMMA FrozenKeeps ==
  ASSUME RegistryInv, NEW c \in completing, Frozen(c)
  PROVE  RegistryInv'
<1>0. GoodCompletions /\ completing \subseteq Completions
  BY DEF RegistryInv, GoodCompletions, Completions
<1>1. PICK r \in Runs : r = c.run
  BY <1>0 DEF Completions
<1>2. CASE runs' = runs /\ flow' = flow /\ disk' = runs
           /\ (\/ completing' = completing \ {c}
               \/ /\ completing' = (completing \ {c}) \cup {[c EXCEPT !.at = "hook"]}
                  /\ Speaks(runs[r]) /\ MayEmit(r))
  BY <1>1, <1>2, FreezesOnly
<1>3. CASE Speaks(runs[r]) /\ completing' = completing \ {c} /\ Begin(r, runs, TRUE)
  <2>1. /\ Ended(r)
        /\ UNCHANGED <<arranged, gone, child, launches, waits, pendingErrors, resumed, retryTimers,
                       backoffTimers, steering, sweeping, delivered, hooks, exempt>>
    BY <1>0, <1>1 DEF Frozen, GoodCompletions
  <2>2. PICK rs, fl : rs = runs /\ fl = flow
    OBVIOUS
  <2>3. /\ rs = [y \in Runs |-> rs[y]] /\ flow = [y \in Runs |-> flow[y]]
        /\ \A y \in Runs : Good(rs[y], disk[y], fl[y], delivered[y], hooks[y])
    BY <2>2 DEF RegistryInv, Types, GoodRuns
  <2>4. \A y \in Runs : Sound(rs[y]) /\ Good(rs[y], rs[y], fl[y], delivered[y], hooks[y])
    BY <2>3 DEF Good
  <2>5. /\ runs' = [y \in Runs |-> runs'[y]] /\ flow' = [y \in Runs |-> flow'[y]]
        /\ \A y \in Runs : Resumed(rs[y], flow[y], runs'[y], flow'[y])
        /\ disk' = runs'
    <3>1. Begin(r, rs, TRUE) /\ rs[r].ended # "no" /\ rs[r].suppressed # "steer"
      BY <1>3, <2>1, <2>2 DEF Ended, Speaks
    <3>. QED
      BY <2>3, <2>4, <3>1, BeginIs
  <2>6. \A y \in Runs : Evolves(runs[y], flow[y], rs[y], fl[y])
    BY <2>2 DEF Evolves
  <2>7. \A b \in completing' : b.at = "hook" => ~rs[b.run].told /\ fl[b.run] \notin HookFlows
    BY <1>0, <1>3, <2>2 DEF GoodCompletions
  <2>8. /\ Types' /\ GoodRuns' /\ GoodCompletions' /\ GoodLaunches' /\ Evolve
        /\ \A y \in Runs : KeepsMark(rs[y], fl[y], runs'[y], flow'[y])
    <3>1. /\ delivered' = [y \in Runs |-> delivered'[y]] /\ hooks' = [y \in Runs |-> hooks'[y]]
          /\ waits' \cup pendingErrors' \cup resumed' \cup retryTimers' \cup backoffTimers' \subseteq Runs
      BY <2>1 DEF RegistryInv, Types
    <3>2. \A y \in Runs : /\ Resumed(rs[y], fl[y], runs'[y], flow'[y])
                          /\ Good(rs[y], rs[y], fl[y], delivered'[y], hooks'[y])
      BY <2>1, <2>2, <2>4, <2>5
    <3>. QED
      BY <1>3, <2>1, <2>5, <2>6, <2>7, <3>1, <3>2, ResumingKeeps
  <2>9. GoodSteers'
    BY <2>1, <2>2, <2>8, SteersKept DEF RegistryInv, GoodSteers, KeepMarks
  <2>. QED
    BY <2>8, <2>9 DEF RegistryInv
<1>. QED
  BY <1>1, <1>2, <1>3 DEF Frozen

(* A hook that was not told before is told once, and no cleanup is in it   *)
(* any more.                                                               *)
LEMMA TellingIsGood ==
  ASSUME NEW e, NEW d, NEW f, NEW n, NEW h, Good(e, d, f, n, h), ~e.told,
         NEW well \in BOOLEAN, NEW g, f \in HookFlows => g = "none", f \notin HookFlows => g = f,
         NEW x, x = [e EXCEPT !.told = well]
  PROVE  /\ x \in Records /\ x.session = e.session /\ x.listed = e.listed /\ x.ended = e.ended
         /\ x.suppressed = e.suppressed /\ x.handled = e.handled /\ x.settled = e.settled
         /\ x.retries = e.retries /\ x.told = well /\ h = 0
         /\ Good(x, x, g, n, IF well THEN 1 ELSE 0) /\ (~well => Good(x, d, g, n, 0))
<1>1. e \in Records /\ h = 0
  BY DEF Good, Sound
<1>2. /\ x \in Records /\ x.session = e.session /\ x.listed = e.listed /\ x.ended = e.ended
      /\ x.suppressed = e.suppressed /\ x.handled = e.handled /\ x.settled = e.settled
      /\ x.retries = e.retries /\ x.told = well
  BY <1>1 DEF Records
<1>3. Sound(x) /\ (Begun(e) => Begun(x)) /\ g \in Flows /\ g \notin HookFlows
  BY <1>2 DEF Good, Sound, Begun, Flows, HookFlows, Before
<1>4. Good(x, x, g, n, IF well THEN 1 ELSE 0)
  BY <1>1, <1>2, <1>3 DEF Good, Before
<1>5. ~well => Good(x, d, g, n, 0)
  BY <1>1, <1>2, <1>3 DEF Good, Before
<1>. QED
  BY <1>1, <1>2, <1>4, <1>5

(* The hook of a completion or of a kill returns.                          *)
LEMMA HookReturnsKeeps ==
  ASSUME RegistryInv, NEW c \in completing, HookReturns(c)
  PROVE  RegistryInv'
<1>0. GoodCompletions /\ completing \subseteq Completions
  BY DEF RegistryInv, GoodCompletions, Completions
<1>1. PICK r \in Runs : r = c.run
  BY <1>0 DEF Completions
<1>2. PICK rs : \E well \in BOOLEAN :
        /\ rs = [runs EXCEPT ![r].told = @ \/ well]
        /\ hooks' = [hooks EXCEPT ![r] = IF well THEN @ + 1 ELSE @]
        /\ \/ runs' = rs /\ disk' = (IF well THEN rs ELSE disk) /\ flow' = flow
           \/ Begin(r, rs, well)
  <2>1. PICK well \in {TRUE, ~May("hook failure")} :
        LET told == [runs EXCEPT ![r].told = @ \/ well] IN
        /\ hooks' = [hooks EXCEPT ![r] = IF well THEN @ + 1 ELSE @]
        /\ \/ runs' = told /\ disk' = (IF well THEN told ELSE disk) /\ flow' = flow
           \/ Begin(r, told, well)
    BY <1>1 DEF HookReturns
  <2>. QED
    BY <2>1
<1>w. PICK well \in BOOLEAN :
        /\ rs = [runs EXCEPT ![r].told = @ \/ well]
        /\ hooks' = [hooks EXCEPT ![r] = IF well THEN @ + 1 ELSE @]
        /\ \/ runs' = rs /\ disk' = (IF well THEN rs ELSE disk) /\ flow' = flow
           \/ Begin(r, rs, well)
  BY <1>2
<1>3. /\ c.at = "hook" /\ completing' = completing \ {c}
      /\ UNCHANGED <<arranged, gone, child, launches, waits, pendingErrors, resumed, retryTimers,
                     backoffTimers, steering, sweeping, delivered, exempt>>
  BY DEF HookReturns
<1>4. /\ ~runs[r].told /\ runs[r].suppressed # "steer" /\ runs[r].ended # "no"
      /\ flow[r] \notin HookFlows
      /\ \A b \in completing' : b.at = "hook" => b.run # r
  BY <1>0, <1>1, <1>3 DEF GoodCompletions, Ended
<1>g. ASSUME NEW y \in Runs PROVE Good(runs[y], disk[y], flow[y], delivered[y], hooks[y])
  BY DEF RegistryInv, GoodRuns
<1>h. /\ runs = [y \in Runs |-> runs[y]] /\ flow = [y \in Runs |-> flow[y]]
      /\ hooks = [y \in Runs |-> hooks[y]] /\ delivered = [y \in Runs |-> delivered[y]]
  BY DEF RegistryInv, Types
<1>5. /\ rs[r] = [runs[r] EXCEPT !.told = well] /\ \A y \in Runs : y # r => rs[y] = runs[y]
      /\ rs = [y \in Runs |-> rs[y]]
  <2>1. (runs[r].told \/ well) = well
    BY <1>4
  <2>2. rs = [runs EXCEPT ![r] = [runs[r] EXCEPT !.told = well]]
    BY <1>w, <1>h, <2>1
  <2>. QED
    BY <1>h, <2>2
<1>6. /\ rs[r] \in Records /\ rs[r].session = runs[r].session /\ rs[r].listed = runs[r].listed
      /\ rs[r].ended = runs[r].ended /\ rs[r].suppressed = runs[r].suppressed
      /\ hooks[r] = 0 /\ Good(rs[r], rs[r], flow[r], delivered[r], IF well THEN 1 ELSE 0)
      /\ (~well => Good(rs[r], disk[r], flow[r], delivered[r], 0))
  BY <1>4, <1>5, <1>g, TellingIsGood
<1>7. /\ \A y \in Runs : hooks'[y] = IF y = r THEN (IF well THEN 1 ELSE 0) ELSE hooks[y]
      /\ hooks' = [y \in Runs |-> hooks'[y]]
  BY <1>w, <1>6, <1>h
<1>8. \A y \in Runs : Good(rs[y], rs[y], flow[y], delivered[y], hooks'[y])
  BY <1>5, <1>6, <1>7, <1>g DEF Good
<1>9. \A y \in Runs : Sound(rs[y])
  BY <1>8 DEF Good
<1>10. /\ runs' = [y \in Runs |-> runs'[y]] /\ flow' = [y \in Runs |-> flow'[y]]
       /\ \A y \in Runs : Resumed(rs[y], flow[y], runs'[y], flow'[y])
       /\ \/ disk' = runs'
          \/ /\ disk' = disk /\ ~well
             /\ \A y \in Runs : Alike(rs[y], runs'[y]) /\ flow'[y] = flow[y]
  <2>1. CASE runs' = rs /\ disk' = (IF well THEN rs ELSE disk) /\ flow' = flow
    <3>1. \A y \in Runs : Alike(rs[y], runs'[y])
      BY <1>9, <2>1 DEF Sound, Alike
    <3>. QED
      BY <1>5, <1>h, <2>1, <3>1 DEF Resumed
  <2>2. CASE Begin(r, rs, well)
    <3>1. rs[r].ended # "no" /\ rs[r].suppressed # "steer"
      BY <1>4, <1>6
    <3>. QED
      BY <1>5, <1>9, <1>h, <2>2, <3>1, BeginIs
  <2>. QED
    BY <1>w, <2>1, <2>2
<1>11. PICK fl : fl = flow
  OBVIOUS
<1>12. \A y \in Runs : Evolves(runs[y], flow[y], rs[y], fl[y])
  BY <1>5, <1>6, <1>11 DEF Evolves
<1>13. \/ disk' = runs'
       \/ /\ disk' = disk
          /\ \A y \in Runs : /\ Alike(rs[y], runs'[y]) /\ flow'[y] = fl[y]
                             /\ Good(rs[y], disk[y], fl[y], delivered'[y], hooks'[y])
  BY <1>3, <1>5, <1>6, <1>7, <1>10, <1>11, <1>g
<1>14. \A b \in completing' : b.at = "hook" => ~rs[b.run].told /\ fl[b.run] \notin HookFlows
  BY <1>0, <1>3, <1>4, <1>5, <1>11 DEF GoodCompletions, Completions
<1>15. /\ Types' /\ GoodRuns' /\ GoodCompletions' /\ GoodLaunches' /\ Evolve
       /\ \A y \in Runs : KeepsMark(rs[y], fl[y], runs'[y], flow'[y])
  <2>1. /\ delivered' = [y \in Runs |-> delivered'[y]]
        /\ waits' \cup pendingErrors' \cup resumed' \cup retryTimers' \cup backoffTimers' \subseteq Runs
    BY <1>3 DEF RegistryInv, Types
  <2>2. \A y \in Runs : /\ Resumed(rs[y], fl[y], runs'[y], flow'[y])
                        /\ Good(rs[y], rs[y], fl[y], delivered'[y], hooks'[y])
    BY <1>3, <1>8, <1>10, <1>11
  <2>3. \A y \in Runs : \/ delivered'[y] = delivered[y] /\ hooks'[y] = hooks[y]
                        \/ \E b \in completing : b.run = y
    BY <1>1, <1>3, <1>7
  <2>. QED
    BY <1>3, <1>7, <1>10, <1>12, <1>13, <1>14, <2>1, <2>2, <2>3, ResumingKeeps
<1>16. KeepMarks
  <2>1. \A y \in Runs : rs[y].suppressed = runs[y].suppressed /\ fl[y] = flow[y]
    BY <1>5, <1>6, <1>11
  <2>. QED
    BY <1>15, <2>1 DEF KeepMarks, KeepsMark
<1>17. GoodSteers'
  BY <1>3, <1>15, <1>16, SteersKept DEF RegistryInv, GoodSteers
<1>. QED
  BY <1>15, <1>17 DEF RegistryInv

-----------------------------------------------------------------------------
(* Timers                                                                  *)

(* A record whose backoff is taken back is like the one before.            *)
LEMMA BackoffIsNothing ==
  ASSUME NEW e \in Records, NEW v \in BOOLEAN
  PROVE  Alike(e, [e EXCEPT !.backoff = v])
BY DEF Alike, Records

(* What is like a good record is good, and nothing has happened.           *)
LEMMA AlikeIsGood ==
  ASSUME NEW e, NEW d, NEW f, NEW n, NEW h, NEW x, Good(e, d, f, n, h), Alike(e, x)
  PROVE  /\ Good(x, x, f, n, h) /\ Good(x, d, f, n, h) /\ x \in Records
         /\ Evolves(e, f, x, f) /\ x.told = e.told /\ x.suppressed = e.suppressed
<1>1. Good(x, x, f, n, h) /\ Good(x, d, f, n, h)
  BY DEF Good, Sound, Begun, Alike
<1>2. x \in Records /\ Evolves(e, f, x, f) /\ x.told = e.told /\ x.suppressed = e.suppressed
  BY DEF Alike, Evolves
<1>. QED
  BY <1>1, <1>2

(* A timer of a run rings.                                                 *)
LEMMA TimersKeep ==
  ASSUME RegistryInv, NEW r \in Runs, RetryTimerRings(r) \/ BackoffTimerRings(r)
  PROVE  RegistryInv'
<1>1. PICK b : /\ Resume({r}, b, FALSE)
               /\ b.runs = [runs EXCEPT ![r] = [runs[r] EXCEPT !.backoff = FALSE]] /\ b.flow = flow
               /\ b.resumed \subseteq resumed /\ b.waits = waits /\ b.timers \subseteq backoffTimers
  <2>1. CASE RetryTimerRings(r)
    <3>. DEFINE b == [Base EXCEPT !.runs[r].backoff = FALSE]
    <3>1. /\ b.runs = [runs EXCEPT ![r] = [runs[r] EXCEPT !.backoff = FALSE]] /\ b.flow = flow
          /\ b.resumed \subseteq resumed /\ b.waits = waits /\ b.timers \subseteq backoffTimers
      BY DEF Base
    <3>2. Resume({r}, b, FALSE)
      BY <2>1 DEF RetryTimerRings
    <3>. QED
      BY <3>1, <3>2
  <2>2. CASE BackoffTimerRings(r)
    <3>. DEFINE b == [Base EXCEPT !.runs[r].backoff = FALSE, !.resumed = @ \ {r}, !.timers = @ \ {r}]
    <3>1. /\ b.runs = [runs EXCEPT ![r] = [runs[r] EXCEPT !.backoff = FALSE]] /\ b.flow = flow
          /\ b.resumed \subseteq resumed /\ b.waits = waits /\ b.timers \subseteq backoffTimers
      BY DEF Base
    <3>2. Resume({r}, b, FALSE)
      BY <2>2 DEF BackoffTimerRings
    <3>. QED
      BY <3>1, <3>2
  <2>. QED
    BY <2>1, <2>2
<1>2. /\ pendingErrors' = pendingErrors /\ retryTimers' \subseteq retryTimers
      /\ UNCHANGED <<arranged, gone, child, launches, completing, steering, sweeping, delivered,
                     hooks, exempt>>
  BY DEF RetryTimerRings, BackoffTimerRings
<1>3. PICK rs, fl : rs = b.runs /\ fl = b.flow
  OBVIOUS
<1>g. ASSUME NEW y \in Runs PROVE Good(runs[y], disk[y], flow[y], delivered[y], hooks[y])
  BY DEF RegistryInv, GoodRuns
<1>4. /\ runs = [y \in Runs |-> runs[y]] /\ delivered' = [y \in Runs |-> delivered'[y]]
      /\ hooks' = [y \in Runs |-> hooks'[y]]
  BY <1>2 DEF RegistryInv, Types
<1>5. ASSUME NEW y \in Runs PROVE Alike(runs[y], rs[y])
  <2>1. runs[y] \in Records
    BY <1>g DEF Good, Sound
  <2>2. CASE y = r
    BY <1>1, <1>3, <1>4, <2>1, <2>2, BackoffIsNothing
  <2>3. CASE y # r
    BY <1>1, <1>3, <1>4, <2>1, <2>3 DEF Alike
  <2>. QED
    BY <2>2, <2>3
<1>6. ASSUME NEW y \in Runs
      PROVE  /\ Good(rs[y], rs[y], flow[y], delivered[y], hooks[y])
             /\ Good(rs[y], disk[y], flow[y], delivered[y], hooks[y])
             /\ rs[y] \in Records /\ Evolves(runs[y], flow[y], rs[y], flow[y])
             /\ rs[y].told = runs[y].told /\ rs[y].suppressed = runs[y].suppressed
  <2>1. Alike(runs[y], rs[y]) /\ Good(runs[y], disk[y], flow[y], delivered[y], hooks[y])
    BY <1>5, <1>g
  <2>2. PICK e, d, f, n, h, x : /\ e = runs[y] /\ d = disk[y] /\ f = flow[y] /\ n = delivered[y]
                               /\ h = hooks[y] /\ x = rs[y]
    OBVIOUS
  <2>3. Alike(e, x) /\ Good(e, d, f, n, h)
    BY <2>1, <2>2
  <2>4. /\ Good(x, x, f, n, h) /\ Good(x, d, f, n, h) /\ x \in Records
        /\ Evolves(e, f, x, f) /\ x.told = e.told /\ x.suppressed = e.suppressed
    BY <2>3, AlikeIsGood
  <2>. QED
    BY <2>2, <2>4
<1>7. /\ runs' = [y \in Runs |-> runs'[y]] /\ flow' = [y \in Runs |-> flow'[y]]
      /\ \A y \in Runs : Resumed(rs[y], fl[y], runs'[y], flow'[y])
      /\ \/ disk' = runs'
         \/ /\ disk' = disk
            /\ \A y \in Runs : Alike(rs[y], runs'[y]) /\ flow'[y] = fl[y]
      /\ resumed' \subseteq b.resumed \cup {r} /\ waits' \subseteq b.waits \cup {r}
      /\ backoffTimers' \subseteq b.timers \cup {r}
  <2>1. {r} \in SUBSET Runs /\ \A y \in Runs : b.runs[y] \in Records
    BY <1>3, <1>6
  <2>. QED
    BY <1>1, <1>3, <2>1, ResumeIs
<1>8. /\ Types' /\ GoodRuns' /\ GoodCompletions' /\ GoodLaunches' /\ Evolve
      /\ \A y \in Runs : KeepsMark(rs[y], fl[y], runs'[y], flow'[y])
  <2>1. waits' \cup pendingErrors' \cup resumed' \cup retryTimers' \cup backoffTimers' \subseteq Runs
    BY <1>1, <1>2, <1>7 DEF RegistryInv, Types
  <2>2. \A y \in Runs : /\ Evolves(runs[y], flow[y], rs[y], fl[y])
                        /\ Good(rs[y], rs[y], fl[y], delivered'[y], hooks'[y])
    BY <1>1, <1>2, <1>3, <1>6
  <2>3. \/ disk' = runs'
        \/ /\ disk' = disk
           /\ \A y \in Runs : /\ Alike(rs[y], runs'[y]) /\ flow'[y] = fl[y]
                              /\ Good(rs[y], disk[y], fl[y], delivered'[y], hooks'[y])
    BY <1>1, <1>2, <1>3, <1>6, <1>7
  <2>4. \A c \in completing' : c.at = "hook" => ~rs[c.run].told /\ fl[c.run] \notin HookFlows
    BY <1>1, <1>2, <1>3, <1>6 DEF RegistryInv, GoodCompletions
  <2>. QED
    BY <1>2, <1>4, <1>7, <2>1, <2>2, <2>3, <2>4, ResumingKeeps
<1>9. KeepMarks
  <2>1. \A y \in Runs : rs[y].suppressed = runs[y].suppressed /\ fl[y] = flow[y]
    BY <1>1, <1>3, <1>6
  <2>. QED
    BY <1>8, <2>1 DEF KeepMarks, KeepsMark
<1>10. GoodSteers'
  BY <1>2, <1>8, <1>9, SteersKept DEF RegistryInv, GoodSteers
<1>. QED
  BY <1>8, <1>10 DEF RegistryInv

-----------------------------------------------------------------------------
(* The end of an announcement                                              *)

(* A run that has ended may be settled, or leave the registry.             *)
SettledFrom(z, x) ==
  /\ x \in Records /\ x.session = z.session /\ (x.listed => z.listed) /\ x.ended = z.ended
  /\ x.suppressed = z.suppressed /\ x.handled = z.handled /\ (z.settled => x.settled)
  /\ x.retries = z.retries /\ x.told = z.told

(* It stays good.                                                          *)
LEMMA SettledIsGood ==
  ASSUME NEW z, NEW f, NEW n, NEW h, NEW x, Good(z, z, f, n, h), z.ended # "no", SettledFrom(z, x)
  PROVE  Good(x, x, f, n, h) /\ Evolves(z, f, x, f)
<1>1. Sound(x)
  BY DEF Good, Sound, SettledFrom
<1>2. Good(x, x, f, n, h)
  BY <1>1 DEF Good, Begun, SettledFrom
<1>3. Evolves(z, f, x, f)
  BY DEF Evolves, SettledFrom
<1>. QED
  BY <1>2, <1>3

(* The bookkeeping at the end of a cleanup, which lets other runs go on:   *)
(* z is the record of the run that is through.                             *)
LEMMA SettleKeeps ==
  ASSUME RegistryInv, NEW r \in Runs, NEW z, NEW own, NEW delete \in BOOLEAN,
         own = [runs EXCEPT ![r] = z], Settle(r, own, delete),
         flow[r] # "none", flow[r] # "woken",
         Good(z, z, "none", delivered[r], hooks'[r]), z.ended # "no",
         Evolves(runs[r], flow[r], z, "none"),
         z.told => \A c \in completing : c.at = "hook" => c.run # r,
         hooks' = [y \in Runs |-> hooks'[y]], \A y \in Runs : y # r => hooks'[y] = hooks[y],
         UNCHANGED <<arranged, gone, child, launches, completing, steering, sweeping, delivered,
                     exempt>>
  PROVE  RegistryInv'
<1>. DEFINE mine == [own EXCEPT ![r].listed = @ /\ ~delete, ![r].settled = @ \/ ~delete]
            expired == {x \in Deferred(mine, r) : own[x].session \notin arranged.completion /\ own[x].old}
            others == Deferred(mine, r) \ expired
            all == [x \in Runs |-> [mine[x] EXCEPT !.settled = @ \/ x \in expired]]
            base == [Base EXCEPT !.runs = all, !.resumed = @ \ others, !.flow[r] = "none"]
<1>1. /\ Resume(others, base, TRUE) /\ retryTimers' = retryTimers
      /\ pendingErrors' \subseteq pendingErrors
  <2>1. Resume(others, base, TRUE)
    BY Zenon DEF Settle
  <2>2. retryTimers' = retryTimers /\ pendingErrors' \subseteq pendingErrors
    BY DEF Settle
  <2>. QED
    BY <2>1, <2>2
<1>2. /\ base.runs = all /\ base.flow = [flow EXCEPT ![r] = "none"] /\ base.resumed \subseteq resumed
      /\ base.waits = waits /\ base.timers = backoffTimers
  BY DEF Base
<1>h. /\ runs = [y \in Runs |-> runs[y]] /\ flow = [y \in Runs |-> flow[y]]
      /\ delivered' = [y \in Runs |-> delivered'[y]]
  BY DEF RegistryInv, Types
<1>g. ASSUME NEW y \in Runs PROVE Good(runs[y], disk[y], flow[y], delivered[y], hooks[y])
  BY DEF RegistryInv, GoodRuns
<1>3. /\ \A x \in Runs : x # r => mine[x] = runs[x]
      /\ mine[r] = [z EXCEPT !.listed = @ /\ ~delete, !.settled = @ \/ ~delete]
  BY <1>h
<1>4. /\ others \subseteq Runs \ {r} /\ expired \subseteq Runs \ {r}
      /\ \A x \in expired : mine[x].ended # "no"
  BY DEF Deferred
<1>. HIDE DEF mine, expired, others
<1>5. ASSUME NEW y \in Runs
      PROVE  LET g == IF y = r THEN "none" ELSE flow[y] IN
             /\ Good(all[y], all[y], g, delivered[y], hooks'[y]) /\ all[y] \in Records
             /\ Evolves(runs[y], flow[y], all[y], g)
             /\ all[y].told = (IF y = r THEN z ELSE runs[y]).told
             /\ y # r => all[y].suppressed = runs[y].suppressed
  <2>1. CASE y = r
    <3>1. z \in Records /\ r \notin expired
      BY <1>4 DEF Good, Sound
    <3>2. PICK l \in BOOLEAN, s \in BOOLEAN : l = (z.listed /\ ~delete) /\ s = (z.settled \/ ~delete)
      OBVIOUS
    <3>3. mine[r] = [z EXCEPT !.listed = l, !.settled = s]
      BY <1>3, <3>1, <3>2 DEF Records
    <3>4. mine[r].settled = s /\ mine[r] \in Records
      BY <3>1, <3>3 DEF Records
    <3>5. all[r] = [mine[r] EXCEPT !.settled = s]
      BY <3>1, <3>4
    <3>6. all[r] = [z EXCEPT !.listed = l, !.settled = s]
      BY <3>1, <3>3, <3>5 DEF Records
    <3>7. PICK n, h, x : n = delivered[r] /\ h = hooks'[r] /\ x = all[r]
      OBVIOUS
    <3>8. /\ Good(x, x, "none", n, h) /\ x \in Records /\ Evolves(z, "none", x, "none")
          /\ x.told = z.told /\ x.suppressed = z.suppressed
      <4>1. x = [z EXCEPT !.listed = l, !.settled = s] /\ Good(z, z, "none", n, h)
        BY <3>6, <3>7
      <4>2. SettledFrom(z, x)
        BY <3>1, <3>2, <4>1 DEF SettledFrom, Records
      <4>3. Good(x, x, "none", n, h) /\ Evolves(z, "none", x, "none")
        BY <4>1, <4>2, SettledIsGood
      <4>. QED
        BY <4>2, <4>3 DEF SettledFrom
    <3>9. Evolves(runs[r], flow[r], x, "none")
      BY <3>8 DEF Evolves
    <3>. QED
      BY <2>1, <3>7, <3>8, <3>9
  <2>2. CASE y # r
    <3>1. PICK e, d, f, n, h : /\ e = runs[y] /\ d = disk[y] /\ f = flow[y] /\ n = delivered[y]
                               /\ h = hooks[y] /\ h = hooks'[y]
      BY <2>2
    <3>2. Good(e, d, f, n, h)
      BY <1>g, <3>1
    <3>3. e \in Records /\ mine[y] = e /\ Good(e, e, f, n, h)
      BY <1>3, <2>2, <3>1, <3>2 DEF Good, Sound
    <3>4. PICK s \in BOOLEAN : s = (e.settled \/ y \in expired)
      OBVIOUS
    <3>5. all[y] = [e EXCEPT !.settled = s]
      BY <3>3, <3>4
    <3>6. CASE y \in expired
      <4>1. PICK l \in BOOLEAN : l = e.listed
        BY <3>3 DEF Records
      <4>2. PICK x : x = all[y]
        OBVIOUS
      <4>3. x = [e EXCEPT !.listed = l, !.settled = s] /\ e.ended # "no"
        BY <1>4, <3>3, <3>5, <3>6, <4>1, <4>2 DEF Records
      <4>4. /\ Good(x, x, f, n, h) /\ x \in Records /\ Evolves(e, f, x, f)
            /\ x.told = e.told /\ x.suppressed = e.suppressed
        <5>1. SettledFrom(e, x)
          <6>1. e \in Records /\ (e.settled => s) /\ l = e.listed
            BY <3>3, <3>4, <4>1
          <6>2. x = [e EXCEPT !.listed = l, !.settled = s]
            BY <4>3
          <6>. HIDE DEF all, base
          <6>. QED
            BY <6>1, <6>2 DEF SettledFrom, Records
        <5>2. Good(x, x, f, n, h) /\ Evolves(e, f, x, f)
          BY <3>3, <4>3, <5>1, SettledIsGood
        <5>. QED
          BY <5>1, <5>2 DEF SettledFrom
      <4>. QED
        BY <2>2, <3>1, <4>2, <4>4
    <3>7. CASE y \notin expired
      <4>1. all[y] = e
        BY <3>3, <3>4, <3>5, <3>7 DEF Records
      <4>. QED
        BY <2>2, <3>1, <3>3, <4>1 DEF Evolves
    <3>. QED
      BY <3>6, <3>7
  <2>. QED
    BY <2>1, <2>2
<1>6. PICK rs, fl : rs = base.runs /\ fl = base.flow
  OBVIOUS
<1>7. /\ runs' = [y \in Runs |-> runs'[y]] /\ flow' = [y \in Runs |-> flow'[y]]
      /\ \A y \in Runs : Resumed(rs[y], fl[y], runs'[y], flow'[y])
      /\ disk' = runs'
      /\ resumed' \subseteq base.resumed \cup others /\ waits' \subseteq base.waits \cup others
      /\ backoffTimers' \subseteq base.timers \cup others
  <2>1. others \in SUBSET Runs /\ \A y \in Runs : base.runs[y] \in Records
    BY <1>2, <1>4, <1>5
  <2>2. PICK b : b = base
    OBVIOUS
  <2>3. Resume(others, b, TRUE) /\ (\A y \in Runs : b.runs[y] \in Records) /\ rs = b.runs /\ fl = b.flow
    BY <1>1, <1>6, <2>1, <2>2
  <2>4. PICK R \in SUBSET Runs : R = others
    BY <2>1
  <2>5. Resume(R, b, TRUE)
    BY <2>3, <2>4
  <2>. HIDE DEF base
  <2>. QED
    BY <2>2, <2>3, <2>4, <2>5, ResumeIs
<1>8. \A y \in Runs : rs[y] = all[y] /\ fl[y] = IF y = r THEN "none" ELSE flow[y]
  BY <1>2, <1>6, <1>h
<1>9. /\ Types' /\ GoodRuns' /\ GoodCompletions' /\ GoodLaunches' /\ Evolve
      /\ \A y \in Runs : KeepsMark(rs[y], fl[y], runs'[y], flow'[y])
  <2>1. waits' \cup pendingErrors' \cup resumed' \cup retryTimers' \cup backoffTimers' \subseteq Runs
    BY <1>1, <1>2, <1>4, <1>7 DEF RegistryInv, Types
  <2>2. \A y \in Runs : /\ Evolves(runs[y], flow[y], rs[y], fl[y])
                        /\ Good(rs[y], rs[y], fl[y], delivered'[y], hooks'[y])
    BY <1>5, <1>8
  <2>3. ASSUME NEW c \in completing', c.at = "hook" PROVE ~rs[c.run].told /\ fl[c.run] \notin HookFlows
    <3>1. c \in completing /\ c.run \in Runs /\ ~runs[c.run].told /\ flow[c.run] \notin HookFlows
      BY <2>3 DEF RegistryInv, GoodCompletions
    <3>2. rs[c.run].told = (IF c.run = r THEN z ELSE runs[c.run]).told
      <4>1. PICK q \in Runs : q = c.run
        BY <3>1
      <4>2. all[q].told = (IF q = r THEN z ELSE runs[q]).told
        BY <1>5
      <4>. QED
        BY <1>8, <4>1, <4>2
    <3>3. c.run = r => ~z.told
      BY <2>3, <3>1
    <3>4. fl[c.run] \notin HookFlows
      BY <1>8, <3>1 DEF HookFlows
    <3>. QED
      BY <3>1, <3>2, <3>3, <3>4
  <2>4. \A y \in Runs : (delivered'[y] = delivered[y] /\ hooks'[y] = hooks[y]) \/ flow[y] # "none"
    OBVIOUS
  <2>. QED
    BY <1>7, <1>h, <2>1, <2>2, <2>3, <2>4, ResumingKeeps
<1>10. KeepMarks
  <2>1. \A y \in Runs : y # r => rs[y].suppressed = runs[y].suppressed /\ fl[y] = flow[y]
    BY <1>5, <1>8
  <2>. QED
    BY <1>9, <2>1 DEF KeepMarks, KeepsMark
<1>11. GoodSteers'
  BY <1>9, <1>10, SteersKept DEF RegistryInv, GoodSteers
<1>. QED
  BY <1>9, <1>11 DEF RegistryInv

(* A run in an announcement changes its record and its stage; it comes to  *)
(* the hook only when nobody else is in it.                                *)
LEMMA RunMoves ==
  ASSUME RegistryInv, NEW r \in Runs, NEW z, NEW g,
         runs' = [runs EXCEPT ![r] = z], flow' = [flow EXCEPT ![r] = g],
         \/ disk' = disk /\ Good(z, disk[r], g, delivered[r], hooks[r])
         \/ disk' = runs' /\ Good(z, z, g, delivered[r], hooks[r]),
         flow[r] # "none", Evolves(runs[r], flow[r], z, g), z.told = runs[r].told,
         g \in HookFlows => MayEmit(r),
         waits' \cup pendingErrors' \cup resumed' \cup retryTimers' \cup backoffTimers' \subseteq Runs,
         UNCHANGED <<arranged, gone, child, launches, completing, steering, sweeping, delivered,
                     hooks, exempt>>
  PROVE  RegistryInv'
<1>h. /\ runs = [y \in Runs |-> runs[y]] /\ flow = [y \in Runs |-> flow[y]]
      /\ disk = [y \in Runs |-> disk[y]]
  BY DEF RegistryInv, Types
<1>g. ASSUME NEW y \in Runs PROVE Good(runs[y], disk[y], flow[y], delivered[y], hooks[y])
  BY DEF RegistryInv, GoodRuns
<1>1. /\ runs'[r] = z /\ flow'[r] = g
      /\ \A y \in Runs : y # r => runs'[y] = runs[y] /\ flow'[y] = flow[y]
      /\ runs' = [y \in Runs |-> runs'[y]] /\ flow' = [y \in Runs |-> flow'[y]]
      /\ disk' = [y \in Runs |-> disk'[y]]
  BY <1>h
<1>2. Evolve /\ KeepMarks
  BY <1>1 DEF Evolve, Evolves, KeepMarks, KeepsMark
<1>3. Types'
  <2>1. sweeping # NoRun => runs'[sweeping].session \in Sessions
    BY <1>2 DEF RegistryInv, Types, Evolve, Evolves
  <2>. QED
    BY <1>1, <2>1 DEF RegistryInv, Types
<1>4. GoodRuns'
  <2>1. ASSUME NEW y \in Runs PROVE Good(runs'[y], disk'[y], flow'[y], delivered'[y], hooks'[y])
    <3>1. CASE y = r
      BY <1>1, <3>1
    <3>2. CASE y # r
      <4>1. /\ runs'[y] = runs[y] /\ flow'[y] = flow[y] /\ (disk'[y] = disk[y] \/ disk'[y] = runs[y])
            /\ delivered'[y] = delivered[y] /\ hooks'[y] = hooks[y]
        BY <1>1, <3>2
      <4>. QED
        BY <1>g, <4>1 DEF Good
    <3>. QED
      BY <3>1, <3>2
  <2>. QED
    BY <2>1 DEF GoodRuns
<1>5. GoodCompletions'
  <2>1. GoodCompletions /\ completing' \subseteq Completions
    BY DEF RegistryInv, GoodCompletions, Completions
  <2>2. ASSUME NEW c \in completing', c.at = "hook"
        PROVE  ~runs'[c.run].told /\ flow'[c.run] \notin HookFlows
    <3>1. c \in completing /\ c.run \in Runs /\ ~runs[c.run].told /\ flow[c.run] \notin HookFlows
      BY <2>1, <2>2 DEF GoodCompletions
    <3>2. CASE c.run = r
      <4>1. g \notin HookFlows
        BY <2>2, <3>1, <3>2 DEF MayEmit, InHook
      <4>. QED
        BY <1>1, <3>1, <3>2, <4>1
    <3>3. CASE c.run # r
      BY <1>1, <3>1, <3>3
    <3>. QED
      BY <3>2, <3>3
  <2>. QED
    BY <1>2, <2>1, <2>2, CompletionsKept
<1>6. GoodLaunches'
  <2>1. \A y \in Runs : disk'[y].listed => disk[y].listed \/ runs[y].listed
    BY <1>2 DEF Evolve, Evolves
  <2>. QED
    BY <1>2, <2>1, LaunchesKept DEF RegistryInv
<1>7. GoodSteers'
  BY <1>2, SteersKept DEF RegistryInv, GoodSteers
<1>. QED
  BY <1>3, <1>4, <1>5, <1>6, <1>7 DEF RegistryInv

(* An announcement that is over goes to the hook or to the bookkeeping:    *)
(* the record z is good at either, and nothing else of it has changed.     *)
LEMMA FinishedKeeps ==
  ASSUME RegistryInv, NEW r \in Runs, NEW z, NEW own, NEW delete \in BOOLEAN,
         own = [runs EXCEPT ![r] = z], Finished(r, own, delete), flow[r] \in {"true", "false"},
         z \in Records, Sound(z), z.session = runs[r].session, z.listed = runs[r].listed,
         z.ended = runs[r].ended, z.suppressed = runs[r].suppressed, z.handled = runs[r].handled,
         z.told = runs[r].told,
         UNCHANGED <<arranged, gone, child, launches, completing, steering, sweeping, delivered,
                     hooks, exempt>>
  PROVE  RegistryInv'
<1>1. Good(runs[r], disk[r], flow[r], delivered[r], hooks[r])
  BY DEF RegistryInv, GoodRuns
<1>2. /\ Good(z, z, "none", delivered[r], hooks[r])
      /\ \A g \in HookFlows : ~z.told => Good(z, disk[r], g, delivered[r], hooks[r])
  BY <1>1 DEF Good, Begun, Flows, Before, HookFlows
<1>3. z.ended # "no" /\ \A g \in HookFlows \cup {"none"} : Evolves(runs[r], flow[r], z, g)
  BY <1>1 DEF Good, Begun, Evolves
<1>4. CASE MayEmit(r) /\ runs' = own
           /\ flow' = [flow EXCEPT ![r] = IF delete THEN "hook delete" ELSE "hook keep"]
           /\ UNCHANGED <<disk, pendingErrors, resumed, waits, backoffTimers, retryTimers>>
  <2>1. PICK g \in HookFlows : flow' = [flow EXCEPT ![r] = g]
    BY <1>4 DEF HookFlows
  <2>2. ~z.told
    BY <1>4 DEF MayEmit
  <2>3. /\ disk' = disk /\ Good(z, disk[r], g, delivered[r], hooks[r])
        /\ flow[r] # "none" /\ Evolves(runs[r], flow[r], z, g)
    BY <1>2, <1>3, <1>4, <2>1, <2>2
  <2>4. waits' \cup pendingErrors' \cup resumed' \cup retryTimers' \cup backoffTimers' \subseteq Runs
    BY <1>4 DEF RegistryInv, Types
  <2>. QED
    BY <1>4, <2>1, <2>3, <2>4, RunMoves
<1>5. CASE Settle(r, own, delete)
  <2>1. Good(z, z, "none", delivered[r], hooks'[r]) /\ Evolves(runs[r], flow[r], z, "none")
    BY <1>2, <1>3
  <2>2. z.told => \A c \in completing : c.at = "hook" => c.run # r
    BY DEF RegistryInv, GoodCompletions
  <2>3. hooks' = [y \in Runs |-> hooks'[y]] /\ \A y \in Runs : y # r => hooks'[y] = hooks[y]
    BY DEF RegistryInv, Types
  <2>. QED
    BY <1>3, <1>5, <2>1, <2>2, <2>3, SettleKeeps
<1>. QED
  BY <1>4, <1>5 DEF Finished

(* The announcement is over, with success                                  *)
LEMMA AnnouncedKeeps ==
  ASSUME RegistryInv, NEW r \in Runs, Announced(r)
  PROVE  RegistryInv'
<1>1. /\ flow[r] = "true"
      /\ UNCHANGED <<arranged, gone, child, launches, completing, steering, sweeping, delivered,
                     hooks, exempt>>
  BY DEF Announced
<1>2. Good(runs[r], disk[r], flow[r], delivered[r], hooks[r])
  BY DEF RegistryInv, GoodRuns
<1>3. CASE Listed(r)
  <2>1. PICK delete \in BOOLEAN : delete = Deletes(r)
    <3>1. Deletes(r) \in BOOLEAN
      BY DEF Deletes
    <3>. QED
      BY <3>1, Zenon
  <2>2. PICK e, z : e = runs[r] /\ z = [e EXCEPT !.wake = FALSE]
    OBVIOUS
  <2>3. e \in Records /\ Sound(e)
    BY <1>2, <2>2 DEF Good, Sound
  <2>4. /\ z \in Records /\ z.session = e.session /\ z.listed = e.listed
        /\ z.ended = e.ended /\ z.suppressed = e.suppressed /\ z.handled = e.handled
        /\ z.told = e.told /\ z.settled = e.settled /\ z.retries = e.retries
    BY <2>2, <2>3 DEF Records
  <2>5. Sound(z)
    BY <2>3, <2>4 DEF Sound
  <2>6. PICK own : own = [runs EXCEPT ![r] = z] /\ Finished(r, own, delete)
    <3>1. [runs EXCEPT ![r].wake = FALSE] = [runs EXCEPT ![r] = z]
      BY <2>2
    <3>2. Finished(r, [runs EXCEPT ![r].wake = FALSE], delete)
      BY <1>3, <2>1 DEF Announced
    <3>. QED
      BY <3>1, <3>2
  <2>. QED
    BY <1>1, <2>2, <2>4, <2>5, <2>6, FinishedKeeps
<1>4. CASE ~Listed(r)
  <2>1. /\ flow' = [flow EXCEPT ![r] = "none"]
        /\ UNCHANGED <<runs, disk, pendingErrors, resumed, waits, backoffTimers, retryTimers>>
    BY <1>4 DEF Announced
  <2>2. Good(runs[r], disk[r], "none", delivered[r], hooks[r]) /\ Evolves(runs[r], flow[r], runs[r], "none")
    BY <1>1, <1>2 DEF Good, Flows, Before, HookFlows, Evolves
  <2>3. runs' = [runs EXCEPT ![r] = runs[r]]
    BY <2>1 DEF RegistryInv, Types
  <2>4. waits' \cup pendingErrors' \cup resumed' \cup retryTimers' \cup backoffTimers' \subseteq Runs
    BY <2>1 DEF RegistryInv, Types
  <2>5. PICK z : z = runs[r]
    OBVIOUS
  <2>6. "none" \notin HookFlows
    BY DEF HookFlows
  <2>. QED
    BY <1>1, <2>1, <2>2, <2>3, <2>4, <2>5, <2>6, RunMoves
<1>. QED
  BY <1>3, <1>4

(* or not: then it is tried again, or given up.                            *)
LEMMA FailedKeeps ==
  ASSUME RegistryInv, NEW r \in Runs, Failed(r)
  PROVE  RegistryInv'
<1>1. /\ flow[r] = "false"
      /\ UNCHANGED <<arranged, gone, child, launches, completing, steering, sweeping, delivered,
                     hooks, exempt>>
  BY DEF Failed
<1>2. Good(runs[r], disk[r], flow[r], delivered[r], hooks[r])
  BY DEF RegistryInv, GoodRuns
<1>3. runs = [y \in Runs |-> runs[y]]
  BY DEF RegistryInv, Types
<1>4. PICK waiting \in BOOLEAN : waiting = (Completion(r) /\ PendingBelow(runs[r].session) # {})
  OBVIOUS
<1>5. PICK e : e = runs[r]
  OBVIOUS
<1>6. /\ e \in Records /\ Sound(e) /\ Begun(e) /\ delivered[r] = 0 /\ hooks[r] \in {0, 1}
      /\ e.retries < MaxRetries /\ (hooks[r] = 1 => e.told)
  BY <1>1, <1>2, <1>5 DEF Good, Sound, Before
<1>7. PICK q : q = IF waiting THEN e.retries ELSE e.retries + 1
  OBVIOUS
<1>8. q \in 0..MaxRetries
  <2>1. e.retries \in Nat /\ MaxRetries \in Nat
    BY <1>6, Constants DEF Records
  <2>. QED
    BY <1>6, <1>7, <2>1
<1>9. PICK b \in BOOLEAN, w \in BOOLEAN : b = (e.backoff \/ ~waiting) /\ w = (e.wake \/ waiting)
  OBVIOUS
<1>. DEFINE counted == [runs EXCEPT ![r].retries = IF waiting THEN @ ELSE @ + 1,
                                    ![r].backoff = @ \/ ~waiting]
<1>10. counted = [runs EXCEPT ![r] = [e EXCEPT !.retries = q, !.backoff = b]]
  BY <1>3, <1>5, <1>6, <1>7, <1>9 DEF Records
<1>11. CASE ~Listed(r)
  <2>1. /\ flow' = [flow EXCEPT ![r] = "none"]
        /\ UNCHANGED <<runs, disk, pendingErrors, resumed, waits, backoffTimers, retryTimers>>
    BY <1>11 DEF Failed
  <2>2. Good(runs[r], disk[r], "none", delivered[r], hooks[r]) /\ Evolves(runs[r], flow[r], runs[r], "none")
    BY <1>1, <1>2 DEF Good, Flows, Before, HookFlows, Evolves
  <2>3. runs' = [runs EXCEPT ![r] = runs[r]]
    BY <2>1 DEF RegistryInv, Types
  <2>4. waits' \cup pendingErrors' \cup resumed' \cup retryTimers' \cup backoffTimers' \subseteq Runs
    BY <2>1 DEF RegistryInv, Types
  <2>5. "none" \notin HookFlows
    BY DEF HookFlows
  <2>. QED
    BY <1>1, <2>1, <2>2, <2>3, <2>4, <2>5, RunMoves
<1>12. CASE /\ Defers(r) \/ Retries(r)
            /\ runs' = [counted EXCEPT ![r].handled = FALSE, ![r].backoff = TRUE, ![r].wake = @ \/ waiting]
            /\ disk' = runs' /\ resumed' = resumed \ {r} /\ flow' = [flow EXCEPT ![r] = "none"]
            /\ retryTimers' \subseteq retryTimers \cup {r}
            /\ UNCHANGED <<pendingErrors, waits, backoffTimers>>
  <2>1. PICK z : z = [e EXCEPT !.retries = q, !.handled = FALSE, !.backoff = TRUE, !.wake = w]
    OBVIOUS
  <2>2. runs' = [runs EXCEPT ![r] = z]
    <3>1. PICK c : c = [e EXCEPT !.retries = q, !.backoff = b]
      OBVIOUS
    <3>2. runs' = [runs EXCEPT ![r] = [c EXCEPT !.handled = FALSE, !.backoff = TRUE,
                                                !.wake = c.wake \/ waiting]]
      BY <1>3, <1>10, <1>12, <3>1
    <3>3. (c.wake \/ waiting) = w
      BY <1>6, <1>9, <3>1 DEF Records
    <3>4. [c EXCEPT !.handled = FALSE, !.backoff = TRUE, !.wake = w] = z
      BY <1>6, <2>1, <3>1 DEF Records
    <3>. QED
      BY <3>2, <3>3, <3>4
  <2>3. q < MaxRetries
    <3>1. e.retries \in Nat /\ MaxRetries \in Nat
      BY <1>6, Constants DEF Records
    <3>2. ~waiting => e.retries + 1 < MaxRetries
      BY <1>4, <1>5, <1>12 DEF Defers, Retries
    <3>. QED
      BY <1>6, <1>7, <3>1, <3>2
  <2>4. /\ z \in Records /\ z.session = e.session /\ z.listed = e.listed
        /\ z.ended = e.ended /\ z.suppressed = e.suppressed /\ z.handled = FALSE
        /\ z.told = e.told /\ z.settled = e.settled /\ z.retries = q
    BY <1>6, <1>8, <2>1 DEF Records
  <2>5. q # MaxRetries
    BY <1>8, <2>3, Constants
  <2>6. Sound(z)
    BY <1>6, <2>4, <2>5 DEF Sound, Begun
  <2>7. Good(z, z, "none", delivered[r], hooks[r])
    BY <1>6, <2>4, <2>6 DEF Good, Flows, Before, HookFlows
  <2>8. Evolves(runs[r], flow[r], z, "none") /\ z.told = runs[r].told
    BY <1>1, <1>5, <2>4 DEF Evolves
  <2>9. "none" \notin HookFlows
    BY DEF HookFlows
  <2>10. waits' \cup pendingErrors' \cup resumed' \cup retryTimers' \cup backoffTimers' \subseteq Runs
    BY <1>12 DEF RegistryInv, Types
  <2>. QED
    BY <1>1, <1>12, <2>2, <2>7, <2>8, <2>9, <2>10, RunMoves
<1>13. CASE Finished(r, [counted EXCEPT ![r].wake = FALSE], FALSE)
  <2>1. PICK z : z = [e EXCEPT !.retries = q, !.backoff = b, !.wake = FALSE]
    OBVIOUS
  <2>2. [counted EXCEPT ![r].wake = FALSE] = [runs EXCEPT ![r] = z]
    BY <1>3, <1>6, <1>10, <2>1 DEF Records
  <2>3. PICK own : own = [runs EXCEPT ![r] = z] /\ Finished(r, own, FALSE)
    BY <1>13, <2>2
  <2>4. /\ z \in Records /\ z.session = e.session /\ z.listed = e.listed
        /\ z.ended = e.ended /\ z.suppressed = e.suppressed /\ z.handled = e.handled
        /\ z.told = e.told /\ z.settled = e.settled /\ z.retries = q
    BY <1>6, <1>8, <1>9, <2>1 DEF Records
  <2>5. Sound(z)
    BY <1>6, <2>4 DEF Sound, Begun
  <2>. QED
    BY <1>1, <1>5, <2>3, <2>4, <2>5, FinishedKeeps
<1>. QED
  BY <1>4, <1>11, <1>12, <1>13 DEF Failed

(* The hook of the cleanup returns.                                        *)
LEMMA CleanupHookReturnsKeeps ==
  ASSUME RegistryInv, NEW r \in Runs, CleanupHookReturns(r)
  PROVE  RegistryInv'
<1>1. /\ flow[r] \in HookFlows
      /\ UNCHANGED <<arranged, gone, child, launches, completing, steering, sweeping, delivered,
                     exempt>>
  BY DEF CleanupHookReturns, HookFlows
<1>2. PICK delete \in BOOLEAN : delete = (flow[r] = "hook delete")
  OBVIOUS
<1>3. PICK well \in BOOLEAN :
        /\ hooks' = [hooks EXCEPT ![r] = IF well THEN @ + 1 ELSE @]
        /\ Settle(r, [runs EXCEPT ![r].told = @ \/ well], delete)
  BY <1>2 DEF CleanupHookReturns
<1>4. PICK e, d, f, n, h, z : /\ e = runs[r] /\ d = disk[r] /\ f = flow[r] /\ n = delivered[r]
                              /\ h = hooks[r] /\ z = [e EXCEPT !.told = well]
  OBVIOUS
<1>5. Good(e, d, f, n, h) /\ f \in HookFlows /\ ~e.told /\ e \in Records /\ e.ended # "no"
  BY <1>1, <1>4 DEF RegistryInv, GoodRuns, Good, Sound, Begun, HookFlows
<1>6. /\ z \in Records /\ z.session = e.session /\ z.listed = e.listed /\ z.ended = e.ended
      /\ z.suppressed = e.suppressed /\ z.told = well /\ h = 0
      /\ Good(z, z, "none", n, IF well THEN 1 ELSE 0)
  <2>1. f # "none"
    BY <1>5 DEF HookFlows
  <2>. QED
    BY <1>4, <1>5, <2>1, TellingIsGood
<1>7. /\ hooks'[r] = IF well THEN 1 ELSE 0
      /\ hooks' = [y \in Runs |-> hooks'[y]] /\ \A y \in Runs : y # r => hooks'[y] = hooks[y]
  <2>1. hooks = [y \in Runs |-> hooks[y]] /\ hooks[r] = 0
    BY <1>4, <1>6 DEF RegistryInv, Types
  <2>. QED
    BY <1>3, <2>1
<1>8. PICK own : own = [runs EXCEPT ![r] = z] /\ Settle(r, own, delete)
  <2>1. (e.told \/ well) = well
    BY <1>5
  <2>2. [runs EXCEPT ![r].told = @ \/ well] = [runs EXCEPT ![r] = z]
    BY <1>4, <2>1
  <2>. QED
    BY <1>3, <2>2
<1>9. Good(z, z, "none", delivered[r], hooks'[r]) /\ Evolves(runs[r], flow[r], z, "none")
  BY <1>4, <1>5, <1>6, <1>7 DEF Evolves, HookFlows
<1>10. \A c \in completing : c.at = "hook" => c.run # r
  BY <1>1 DEF RegistryInv, GoodCompletions
<1>11. flow[r] # "none" /\ flow[r] # "woken" /\ z.ended # "no"
  BY <1>1, <1>4, <1>5, <1>6 DEF HookFlows
<1>. QED
  BY <1>1, <1>7, <1>8, <1>9, <1>10, <1>11, SettleKeeps

-----------------------------------------------------------------------------
(* Replacing, steering, killing and sweeping                               *)

(* A record that is new.                                                   *)
LEMMA FreshIs ==
  ASSUME NEW s \in Sessions \cup {Top}, NEW w \in BOOLEAN
  PROVE  LET x == Fresh(s, w) IN
         /\ x \in Records /\ x.session = s /\ x.listed = TRUE /\ x.ended = "no"
         /\ x.suppressed = "no" /\ x.handled = FALSE /\ x.settled = FALSE /\ x.retries = 0
         /\ x.told = FALSE
<1>1. 0 \in 0..MaxRetries
  BY Constants
<1>. QED
  BY <1>1 DEF Fresh, Records

(* A record that leaves the registry,                                      *)
LEMMA UnlistedIs ==
  ASSUME NEW e \in Records
  PROVE  LET x == Unlisted(e) IN
         /\ x \in Records /\ x.session = e.session /\ x.listed = FALSE /\ x.ended = e.ended
         /\ x.suppressed = e.suppressed /\ x.handled = e.handled /\ x.settled = e.settled
         /\ x.retries = e.retries /\ x.told = e.told
BY DEF Unlisted, Records

(* stays good, in memory and in the file.                                  *)
LEMMA UnlistedIsGood ==
  ASSUME NEW e, NEW d, NEW f, NEW n, NEW h, Good(e, d, f, n, h)
  PROVE  /\ Good(Unlisted(e), d, f, n, h) /\ Good(Unlisted(e), Unlisted(e), f, n, h)
         /\ Evolves(e, f, Unlisted(e), f) /\ Unlisted(e).told = e.told
         /\ Unlisted(e).suppressed = e.suppressed /\ ~Unlisted(e).listed
<1>. DEFINE x == Unlisted(e)
<1>1. /\ x \in Records /\ x.session = e.session /\ x.listed = FALSE /\ x.ended = e.ended
      /\ x.suppressed = e.suppressed /\ x.handled = e.handled /\ x.settled = e.settled
      /\ x.retries = e.retries /\ x.told = e.told
  BY UnlistedIs DEF Good, Sound
<1>. HIDE DEF x
<1>2. Good(x, d, f, n, h) /\ Good(x, x, f, n, h)
  BY <1>1 DEF Good, Sound, Begun
<1>3. Evolves(e, f, x, f)
  BY <1>1 DEF Evolves
<1>. QED
  BY <1>1, <1>2, <1>3 DEF x

(* A run is recorded, perhaps in the place of another.                     *)
LEMMA RecordedKeeps ==
  ASSUME RegistryInv, NEW l \in launches, Recorded(l)
  PROVE  RegistryInv'
<1>0. GoodLaunches
  BY DEF RegistryInv
<1>1. PICK n \in Runs, s \in Sessions, p \in Runs \cup {NoRun}, how \in Steers \cup {"spawn", "wake"} :
        n = l.run /\ s = l.session /\ p = l.prev /\ how = l.how
  BY <1>0 DEF GoodLaunches
<1>2. /\ Untold(n) /\ child[n] # "none"
      /\ how = "wake" => p \in Runs /\ flow[p] = "woken"
      /\ \A m \in launches' : m.run # n
      /\ \A m \in launches' : m.how = "wake" /\ how = "wake" => m.prev # p
      /\ launches' = launches \ {l}
  BY <1>0, <1>1 DEF GoodLaunches, Recorded
<1>g. ASSUME NEW y \in Runs PROVE Good(runs[y], disk[y], flow[y], delivered[y], hooks[y])
  BY DEF RegistryInv, GoodRuns
<1>h. /\ runs = [y \in Runs |-> runs[y]] /\ flow = [y \in Runs |-> flow[y]]
      /\ disk = [y \in Runs |-> disk[y]]
  BY DEF RegistryInv, Types
<1>3. PICK known \in BOOLEAN : known = (how = "wake" => Listed(p))
  OBVIOUS
<1>4. PICK w \in BOOLEAN : w = (how = "wake")
  OBVIOUS
<1>5. /\ steering' = [t \in Steers |-> IF t = how THEN NoRun ELSE steering[t]]
      /\ flow' = [r \in Runs |-> IF w /\ r = p THEN IF known THEN "true" ELSE "delivering" ELSE flow[r]]
      /\ exempt \subseteq exempt'
      /\ UNCHANGED <<arranged, gone, child, retryTimers, backoffTimers, completing, sweeping,
                     delivered, hooks>>
  BY <1>1, <1>3, <1>4 DEF Recorded
<1>6. \/ /\ known
         /\ runs' = [r \in Runs |-> IF r = p THEN Unlisted(runs[r])
                                    ELSE IF r = n THEN Fresh(s, w) ELSE runs[r]]
         /\ disk' = runs' /\ pendingErrors' \subseteq pendingErrors /\ resumed' \subseteq resumed
         /\ waits' = waits \cup {n}
      \/ UNCHANGED <<runs, disk, pendingErrors, resumed, waits>> /\ ~known
  <2>1. CASE known
    <3>1. /\ runs' = [r \in Runs |-> IF r = p THEN Unlisted(runs[r])
                                     ELSE [runs EXCEPT ![n] = Fresh(s, w)][r]]
          /\ disk' = runs' /\ pendingErrors' = pendingErrors \ {p} /\ resumed' = resumed \ {p}
          /\ waits' = waits \cup {n}
      <4>1. l.how = "wake" => Listed(l.prev)
        BY <1>1, <1>3, <2>1
      <4>2. /\ runs' = [r \in Runs |-> IF r = l.prev THEN Unlisted(runs[r])
                                       ELSE [runs EXCEPT ![l.run] = Fresh(l.session, l.how = "wake")][r]]
            /\ disk' = runs' /\ pendingErrors' = pendingErrors \ {l.prev}
            /\ resumed' = resumed \ {l.prev} /\ waits' = waits \cup {l.run}
        BY <4>1, Zenon DEF Recorded
      <4>3. (l.how = "wake") = w
        BY <1>1, <1>4
      <4>. QED
        BY <1>1, <4>2, <4>3
    <3>2. \A r \in Runs : [runs EXCEPT ![n] = Fresh(s, w)][r] = IF r = n THEN Fresh(s, w) ELSE runs[r]
      BY <1>h
    <3>. QED
      BY <2>1, <3>1, <3>2
  <2>2. CASE ~known
    BY <1>1, <1>3, <2>2 DEF Recorded
  <2>. QED
    BY <2>1, <2>2
<1>7. PICK x : x = Fresh(s, w)
  OBVIOUS
<1>8. /\ x \in Records /\ x.session = s /\ x.listed = TRUE /\ x.ended = "no"
      /\ x.suppressed = "no" /\ x.handled = FALSE /\ x.settled = FALSE /\ x.retries = 0
      /\ x.told = FALSE
  BY <1>7, FreshIs
<1>9. ASSUME NEW y \in Runs, y # n \/ y = p
      PROVE  /\ runs'[y].session = runs[y].session /\ runs'[y].ended = runs[y].ended
             /\ runs'[y].suppressed = runs[y].suppressed /\ runs'[y].told = runs[y].told
             /\ runs'[y].listed => runs[y].listed
             /\ ~w \/ y # p => flow'[y] = flow[y]
             /\ w /\ y = p => flow[y] = "woken" /\ flow'[y] \in {"true", "delivering"}
             /\ Good(runs'[y], disk'[y], flow'[y], delivered[y], hooks[y])
             /\ disk'[y].listed => disk[y].listed \/ runs[y].listed
  <2>1. PICK e, d, f, m, h : /\ e = runs[y] /\ d = disk[y] /\ f = flow[y] /\ m = delivered[y]
                             /\ h = hooks[y] /\ Good(e, d, f, m, h)
    BY <1>g
  <2>2. PICK u : u = Unlisted(e)
    OBVIOUS
  <2>3. /\ Good(u, u, f, m, h) /\ u.session = e.session /\ u.ended = e.ended /\ u.told = e.told
        /\ u.suppressed = e.suppressed /\ ~u.listed /\ Good(e, e, f, m, h)
    <3>1. e \in Records
      BY <2>1 DEF Good, Sound
    <3>2. Good(u, u, f, m, h)
      BY <2>1, <2>2, UnlistedIsGood
    <3>. QED
      BY <2>1, <2>2, <3>1, <3>2, UnlistedIs DEF Good
  <2>4. PICK z, v, g : z = runs'[y] /\ v = disk'[y] /\ g = flow'[y]
    OBVIOUS
  <2>5. z \in {e, u} /\ (v = z \/ (z = e /\ v = d))
    BY <1>6, <1>9, <2>1, <2>2, <2>4
  <2>6. /\ ~w \/ y # p => g = f
        /\ w /\ y = p => f = "woken" /\ g \in {"true", "delivering"}
    BY <1>2, <1>4, <1>5, <2>1, <2>4
  <2>7. Good(z, v, f, m, h)
    BY <2>1, <2>3, <2>5
  <2>8. Good(z, v, g, m, h)
    BY <2>6, <2>7 DEF Good, Flows, Before, HookFlows
  <2>9. /\ z.session = e.session /\ z.ended = e.ended /\ z.suppressed = e.suppressed
        /\ z.told = e.told /\ (z.listed => e.listed) /\ (v.listed => d.listed \/ e.listed)
    BY <2>3, <2>5
  <2>. QED
    BY <2>1, <2>4, <2>6, <2>8, <2>9
<1>10. ASSUME n # p PROVE (runs'[n] = x /\ disk'[n] = x) \/ (runs'[n] = runs[n] /\ disk'[n] = disk[n])
  BY <1>6, <1>7, <1>10
<1>11. Types'
  <2>1. runs' = [y \in Runs |-> runs'[y]] /\ disk' = [y \in Runs |-> disk'[y]]
        /\ flow' = [y \in Runs |-> flow'[y]]
    BY <1>5, <1>6, <1>h
  <2>2. waits' \cup pendingErrors' \cup resumed' \cup retryTimers' \cup backoffTimers' \subseteq Runs
    BY <1>5, <1>6 DEF RegistryInv, Types
  <2>3. sweeping # NoRun => runs'[sweeping].session \in Sessions
    BY <1>8, <1>9, <1>10 DEF RegistryInv, Types
  <2>. QED
    BY <1>5, <2>1, <2>2, <2>3 DEF RegistryInv, Types
<1>12. GoodRuns'
  <2>1. ASSUME NEW y \in Runs PROVE Good(runs'[y], disk'[y], flow'[y], delivered'[y], hooks'[y])
    <3>1. CASE y # n \/ y = p
      BY <1>5, <1>9, <3>1
    <3>2. CASE y = n /\ n # p
      <4>1. flow'[n] = "none" /\ delivered'[n] = 0 /\ hooks'[n] = 0
        BY <1>2, <1>5, <3>2 DEF Untold
      <4>2. Good(x, x, "none", 0, 0)
        <5>1. Sound(x)
          BY <1>8, Constants DEF Sound
        <5>. QED
          BY <1>8, <5>1 DEF Good, Flows, Before, HookFlows
      <4>3. Good(runs[n], disk[n], "none", 0, 0)
        BY <1>2, <1>g DEF Untold
      <4>. QED
        BY <1>10, <3>2, <4>1, <4>2, <4>3
    <3>. QED
      BY <3>1, <3>2
  <2>. QED
    BY <2>1 DEF GoodRuns
<1>13. GoodCompletions'
  <2>1. GoodCompletions /\ completing' = completing
    BY <1>5 DEF RegistryInv
  <2>2. ASSUME NEW c \in completing
        PROVE  /\ runs'[c.run].ended # "no"
               /\ c.at = "hook" => /\ ~runs'[c.run].told /\ runs'[c.run].suppressed # "steer"
                                   /\ flow'[c.run] \notin HookFlows
    <3>1. PICK q \in Runs : q = c.run
      BY <2>1 DEF GoodCompletions
    <3>2. q # n /\ Ended(q)
      BY <1>2, <2>1, <3>1 DEF Untold, GoodCompletions
    <3>3. c.at = "hook" => /\ ~runs[q].told /\ runs[q].suppressed # "steer"
                           /\ flow[q] \notin HookFlows
      BY <2>1, <3>1 DEF GoodCompletions
    <3>4. flow'[q] = flow[q] \/ flow'[q] \in {"true", "delivering"}
      BY <1>9, <3>2
    <3>. QED
      BY <1>9, <3>1, <3>2, <3>3, <3>4 DEF Ended, HookFlows
  <2>. QED
    BY <2>1, <2>2 DEF GoodCompletions, Ended
<1>14. GoodLaunches'
  <2>1. ASSUME NEW r \in Runs, r # n, Untold(r) PROVE Untold(r)'
    <3>1. flow'[r] = "none"
      BY <1>9, <2>1 DEF Untold
    <3>2. ~runs'[r].listed /\ ~disk'[r].listed
      BY <1>9, <2>1 DEF Untold
    <3>3. \A t \in Steers : steering'[t] # r
      BY <1>5, <2>1, Constants DEF Untold
    <3>. QED
      BY <1>5, <2>1, <3>1, <3>2, <3>3 DEF Untold
  <2>2. \A r \in Runs : child'[r] = "none" => Untold(r)'
    BY <1>0, <1>2, <1>5, <2>1 DEF GoodLaunches
  <2>3. ASSUME NEW m \in launches' PROVE child'[m.run] # "none" /\ Untold(m.run)'
    <3>1. m \in launches /\ m.run \in Runs /\ m.run # n
      BY <1>0, <1>2 DEF GoodLaunches
    <3>2. child[m.run] # "none" /\ Untold(m.run)
      BY <1>0, <3>1 DEF GoodLaunches
    <3>. QED
      BY <1>5, <2>1, <3>1, <3>2
  <2>4. ASSUME NEW m \in launches', m.how = "wake" PROVE m.prev \in Runs /\ flow'[m.prev] = "woken"
    <3>1. m \in launches /\ m.prev \in Runs /\ flow[m.prev] = "woken"
      BY <1>0, <1>2, <2>4 DEF GoodLaunches
    <3>2. w => m.prev # p
      BY <1>2, <1>4, <2>4
    <3>. QED
      BY <1>5, <3>1, <3>2
  <2>. QED
    BY <1>0, <1>2, <2>2, <2>3, <2>4 DEF GoodLaunches
<1>15. GoodSteers'
  <2>1. steering' \in [Steers -> Runs \cup {NoRun}]
    BY <1>5 DEF RegistryInv, GoodSteers
  <2>2. ASSUME NEW t \in Steers, steering'[t] # NoRun
        PROVE  /\ runs'[steering'[t]].session \in Sessions
               /\ {<<"steered", steering'[t]>>, <<"killed", steering'[t]>>} \cap exempt' = {} =>
                    runs'[steering'[t]].suppressed = "steer" /\ flow'[steering'[t]] = "none"
    <3>1. PICK q \in Runs : q = steering'[t] /\ q = steering[t] /\ q # n
      BY <1>2, <1>5, <2>1, <2>2 DEF Untold
    <3>2. /\ runs[q].session \in Sessions
          /\ {<<"steered", q>>, <<"killed", q>>} \cap exempt = {} =>
               runs[q].suppressed = "steer" /\ flow[q] = "none"
      BY <2>2, <3>1 DEF RegistryInv, GoodSteers
    <3>3. {<<"steered", q>>, <<"killed", q>>} \cap exempt' = {} =>
            {<<"steered", q>>, <<"killed", q>>} \cap exempt = {}
      BY <1>5
    <3>. QED
      BY <1>9, <3>1, <3>2, <3>3
  <2>3. ASSUME NEW t \in Steers, NEW u \in Steers, t # u, steering'[t] = steering'[u],
               steering'[t] # NoRun
        PROVE  <<"steered", steering'[t]>> \in exempt'
    <3>1. steering'[t] = steering[t] /\ steering'[u] = steering[u]
      BY <1>5, <2>3
    <3>. QED
      BY <1>5, <2>3, <3>1 DEF RegistryInv, GoodSteers
  <2>. QED
    BY <2>1, <2>2, <2>3 DEF GoodSteers
<1>. QED
  BY <1>11, <1>12, <1>13, <1>14, <1>15 DEF RegistryInv

(* Aborting leaves alone who does not exist.                               *)
LEMMA AbortedIs ==
  ASSUME NEW R, child' = Aborted(R)
  PROVE  /\ child' = [x \in Runs |-> child'[x]]
         /\ \A x \in Runs : child'[x] = child[x] \/ (child[x] # "none" /\ child'[x] # "none")
BY DEF Aborted

(* A steer marks a run that works.                                         *)
LEMMA SteerMarksKeeps ==
  ASSUME RegistryInv, NEW s \in Steers, NEW r \in Runs, SteerMarks(s, r)
  PROVE  RegistryInv'
<1>1. /\ steering[s] = NoRun /\ Listed(r) /\ ~Ended(r)
      /\ steering' = [steering EXCEPT ![s] = r]
      /\ runs' = [runs EXCEPT ![r].suppressed = "steer"] /\ disk' = runs'
      /\ child' = Aborted({r})
      /\ exempt' = exempt \cup {<<"steered", r>> : t \in {u \in Steers : steering[u] = r}}
      /\ UNCHANGED <<arranged, gone, launches, waits, pendingErrors, resumed, retryTimers,
                     backoffTimers, completing, flow, sweeping, delivered, hooks>>
  BY DEF SteerMarks
<1>g. ASSUME NEW y \in Runs PROVE Good(runs[y], disk[y], flow[y], delivered[y], hooks[y])
  BY DEF RegistryInv, GoodRuns
<1>2. PICK e, z : e = runs[r] /\ z = [e EXCEPT !.suppressed = "steer"]
  OBVIOUS
<1>3. e \in Records /\ Sound(e) /\ e.ended = "no" /\ e.listed /\ flow[r] = "none" /\ delivered[r] = 0
  BY <1>1, <1>2, <1>g DEF Good, Sound, Begun, Ended, Listed
<1>4. /\ z \in Records /\ z.session = e.session /\ z.listed = e.listed
      /\ z.ended = "no" /\ z.suppressed = "steer" /\ z.handled = e.handled
      /\ z.told = e.told /\ z.settled = e.settled /\ z.retries = e.retries
  BY <1>2, <1>3 DEF Records
<1>5. Sound(z)
  BY <1>3, <1>4 DEF Sound
<1>6. Good(z, z, flow[r], delivered[r], hooks[r])
  <2>1. hooks[r] \in {0, 1} /\ (hooks[r] = 1 => e.told)
    BY <1>2, <1>g DEF Good
  <2>. QED
    BY <1>3, <1>4, <1>5, <2>1 DEF Good, Flows, Before, HookFlows
<1>7. /\ \A y \in Runs : runs'[y] = IF y = r THEN z ELSE runs[y]
      /\ runs' = [y \in Runs |-> runs'[y]]
  BY <1>1, <1>2 DEF RegistryInv, Types
<1>8. Evolve /\ KeepMarks
  <2>1. ASSUME NEW y \in Runs
        PROVE  /\ Evolves(runs[y], flow[y], runs'[y], flow'[y])
               /\ KeepsMark(runs[y], flow[y], runs'[y], flow'[y])
    <3>1. CASE y = r
      BY <1>1, <1>2, <1>3, <1>4, <1>7, <3>1 DEF Evolves, KeepsMark
    <3>2. CASE y # r
      BY <1>1, <1>7, <3>2 DEF Evolves, KeepsMark
    <3>. QED
      BY <3>1, <3>2
  <2>. QED
    BY <2>1 DEF Evolve, KeepMarks
<1>9. /\ child' = [x \in Runs |-> child'[x]]
      /\ \A x \in Runs : child'[x] = child[x] \/ (child[x] # "none" /\ child'[x] # "none")
  BY <1>1, AbortedIs
<1>10. Types'
  <2>1. sweeping # NoRun => runs'[sweeping].session \in Sessions
    BY <1>8 DEF RegistryInv, Types, Evolve, Evolves
  <2>. QED
    BY <1>1, <1>7, <1>9, <2>1 DEF RegistryInv, Types
<1>11. GoodRuns'
  <2>1. ASSUME NEW y \in Runs PROVE Good(runs'[y], disk'[y], flow'[y], delivered'[y], hooks'[y])
    <3>1. CASE y = r
      BY <1>1, <1>6, <1>7, <3>1
    <3>2. CASE y # r
      BY <1>1, <1>7, <1>g, <3>2 DEF Good
    <3>. QED
      BY <3>1, <3>2
  <2>. QED
    BY <2>1 DEF GoodRuns
<1>12. GoodCompletions'
  <2>1. GoodCompletions /\ completing' \subseteq Completions /\ completing' = completing
    BY <1>1 DEF RegistryInv, GoodCompletions, Completions
  <2>2. \A c \in completing' : c.at = "hook" => ~runs'[c.run].told /\ flow'[c.run] \notin HookFlows
    BY <1>1, <1>2, <1>4, <1>7, <2>1 DEF GoodCompletions
  <2>. QED
    BY <1>8, <2>1, <2>2, CompletionsKept
<1>13. GoodLaunches'
  <2>1. \A y \in Runs : disk'[y].listed => disk[y].listed \/ runs[y].listed
    BY <1>1, <1>8 DEF Evolve, Evolves
  <2>2. \A t \in Steers : steering'[t] \in {steering[t], NoRun} \/ runs[steering'[t]].listed
    BY <1>1 DEF RegistryInv, GoodSteers, Listed
  <2>. QED
    BY <1>1, <1>8, <1>9, <2>1, <2>2, LaunchesKept DEF RegistryInv
<1>14. GoodSteers'
  <2>1. GoodSteers /\ exempt \subseteq exempt'
    BY <1>1 DEF RegistryInv
  <2>2. /\ steering'[s] = r /\ \A t \in Steers : t # s => steering'[t] = steering[t]
        /\ steering' \in [Steers -> Runs \cup {NoRun}]
    BY <1>1, <2>1 DEF GoodSteers
  <2>3. runs'[r].session \in Sessions /\ runs'[r].suppressed = "steer" /\ flow'[r] = "none"
    BY <1>1, <1>3, <1>4, <1>7 DEF Sound
  <2>4. ASSUME NEW t \in Steers, steering'[t] # NoRun
        PROVE  /\ runs'[steering'[t]].session \in Sessions
               /\ {<<"steered", steering'[t]>>, <<"killed", steering'[t]>>} \cap exempt' = {} =>
                    runs'[steering'[t]].suppressed = "steer" /\ flow'[steering'[t]] = "none"
    <3>1. CASE steering'[t] = r
      BY <2>3, <3>1
    <3>2. CASE steering'[t] # r
      <4>1. PICK q \in Runs : q = steering'[t] /\ q = steering[t] /\ q # r
        BY <2>2, <2>4, <3>2
      <4>2. /\ runs[q].session \in Sessions
            /\ {<<"steered", q>>, <<"killed", q>>} \cap exempt = {} =>
                 runs[q].suppressed = "steer" /\ flow[q] = "none"
        BY <2>1, <2>4, <4>1 DEF GoodSteers
      <4>3. runs'[q] = runs[q] /\ flow'[q] = flow[q]
        BY <1>1, <1>7, <4>1
      <4>. QED
        BY <2>1, <4>1, <4>2, <4>3
    <3>. QED
      BY <3>1, <3>2
  <2>5. ASSUME NEW t \in Steers, NEW u \in Steers, t # u, steering'[t] = steering'[u],
               steering'[t] # NoRun
        PROVE  <<"steered", steering'[t]>> \in exempt'
    <3>1. CASE t = s \/ u = s
      <4>1. \E v \in Steers : steering[v] = r
        BY <2>2, <2>5, <3>1
      <4>2. <<"steered", r>> \in exempt'
        BY <1>1, <4>1
      <4>. QED
        BY <2>2, <2>5, <3>1, <4>2
    <3>2. CASE t # s /\ u # s
      <4>1. steering'[t] = steering[t] /\ steering'[u] = steering[u]
        BY <2>2, <3>2
      <4>. QED
        BY <2>1, <2>5, <4>1 DEF GoodSteers
    <3>. QED
      BY <3>1, <3>2
  <2>. QED
    BY <2>2, <2>4, <2>5 DEF GoodSteers
<1>. QED
  BY <1>10, <1>11, <1>12, <1>13, <1>14 DEF RegistryInv

(* The sweeper takes a run out.                                            *)
LEMMA SweepsKeeps ==
  ASSUME RegistryInv, NEW r \in Runs, Sweeps(r)
  PROVE  RegistryInv'
<1>1. /\ Listed(r) /\ runs' = [runs EXCEPT ![r].listed = FALSE]
      /\ pendingErrors' = pendingErrors \ {r} /\ sweeping' = r
      /\ gone' = IF sweeping = NoRun THEN gone ELSE gone \cup {runs[sweeping].session}
      /\ UNCHANGED <<arranged, disk, child, launches, waits, resumed, retryTimers, backoffTimers,
                     completing, flow, steering, delivered, hooks, exempt>>
  BY DEF Sweeps
<1>g. ASSUME NEW y \in Runs PROVE Good(runs[y], disk[y], flow[y], delivered[y], hooks[y])
  BY DEF RegistryInv, GoodRuns
<1>2. PICK e, d, f, n, h, u : /\ e = runs[r] /\ d = disk[r] /\ f = flow[r] /\ n = delivered[r]
                              /\ h = hooks[r] /\ u = Unlisted(e) /\ Good(e, d, f, n, h)
  BY <1>g
<1>3. /\ Good(u, d, f, n, h) /\ Evolves(e, f, u, f) /\ u.told = e.told /\ u.suppressed = e.suppressed
      /\ e.session \in Sessions
  <2>1. e.session \in Sessions
    BY <1>1, <1>2 DEF Good, Sound, Listed
  <2>. QED
    BY <1>2, <2>1, UnlistedIsGood
<1>4. /\ \A y \in Runs : runs'[y] = IF y = r THEN u ELSE runs[y]
      /\ runs' = [y \in Runs |-> runs'[y]]
  BY <1>1, <1>2 DEF RegistryInv, Types, Unlisted
<1>5. Evolve /\ KeepMarks
  <2>1. ASSUME NEW y \in Runs
        PROVE  /\ Evolves(runs[y], flow[y], runs'[y], flow'[y])
               /\ KeepsMark(runs[y], flow[y], runs'[y], flow'[y])
    <3>1. CASE y = r
      BY <1>1, <1>2, <1>3, <1>4, <3>1 DEF KeepsMark
    <3>2. CASE y # r
      BY <1>1, <1>4, <3>2 DEF Evolves, KeepsMark
    <3>. QED
      BY <3>1, <3>2
  <2>. QED
    BY <2>1 DEF Evolve, KeepMarks
<1>6. Types'
  <2>1. runs'[r].session \in Sessions
    BY <1>2, <1>3, <1>4 DEF Evolves
  <2>2. gone' \subseteq Sessions
    BY <1>1 DEF RegistryInv, Types
  <2>. QED
    BY <1>1, <1>4, <2>1, <2>2 DEF RegistryInv, Types
<1>7. GoodRuns'
  BY <1>1, <1>2, <1>3, <1>4, <1>g DEF GoodRuns
<1>8. GoodCompletions'
  <2>1. GoodCompletions /\ completing' \subseteq Completions /\ completing' = completing
    BY <1>1 DEF RegistryInv, GoodCompletions, Completions
  <2>2. \A c \in completing' : c.at = "hook" => ~runs'[c.run].told /\ flow'[c.run] \notin HookFlows
    BY <1>1, <1>2, <1>3, <1>4, <2>1 DEF GoodCompletions
  <2>. QED
    BY <1>5, <2>1, <2>2, CompletionsKept
<1>9. GoodLaunches'
  BY <1>1, <1>5, LaunchesKept DEF RegistryInv
<1>10. GoodSteers'
  BY <1>1, <1>5, SteersKept DEF RegistryInv, GoodSteers
<1>. QED
  BY <1>6, <1>7, <1>8, <1>9, <1>10 DEF RegistryInv

(* A kill ends the runs of a session that work.                            *)
LEMMA KillKeeps ==
  ASSUME RegistryInv, NEW s \in Sessions, Kill(s)
  PROVE  RegistryInv'
<1>. DEFINE here == {r \in Runs : Listed(r) /\ runs[r].session = s}
            killed == {r \in here : ~Ended(r)}
            telling == {r \in killed : MayEmit(r) /\ \A x \in killed : r <= x}
            Ends(e) == [e EXCEPT !.ended = "killed", !.suppressed = "killed",
                                 !.handled = TRUE, !.settled = TRUE]
            news == {[run |-> r, by |-> "kill", at |-> "hook"] : r \in telling}
<1>1. /\ runs' = [r \in Runs |-> IF r \in killed THEN Ends(runs[r]) ELSE runs[r]]
      /\ disk' = runs' /\ child' = Aborted(killed)
      /\ pendingErrors' = pendingErrors \ here
      /\ completing' = completing \cup news
      /\ exempt' = exempt \cup {<<"killed", r>> : r \in killed}
      /\ UNCHANGED <<arranged, gone, launches, waits, resumed, retryTimers, backoffTimers,
                     flow, steering, sweeping, delivered, hooks>>
  BY DEF Kill
<1>g. ASSUME NEW y \in Runs PROVE Good(runs[y], disk[y], flow[y], delivered[y], hooks[y])
  BY DEF RegistryInv, GoodRuns
<1>2. /\ killed \subseteq Runs /\ \A r \in killed : runs[r].listed /\ runs[r].ended = "no"
      /\ telling \subseteq killed /\ (\A r \in telling : MayEmit(r))
      /\ \A r \in telling : \A x \in telling : r <= x
  BY DEF Listed, Ended
<1>3. \A r \in telling : \A x \in telling : r = x
  <2>1. ASSUME NEW r \in telling, NEW x \in telling PROVE r = x
    <3>1. r \in Nat /\ x \in Nat /\ r <= x /\ x <= r
      BY <1>2, Constants
    <3>. QED
      BY <3>1
  <2>. QED
    BY <2>1
<1>n. /\ \A c \in news : c.run \in telling /\ c.by = "kill" /\ c.at = "hook"
      /\ \A c, d \in news : c.run = d.run => c = d
  OBVIOUS
<1>. HIDE DEF here, killed, telling, news
<1>4. ASSUME NEW y \in killed
      PROVE  /\ runs'[y].session = runs[y].session /\ runs'[y].ended = "killed"
             /\ runs'[y].suppressed = "killed" /\ runs'[y].told = runs[y].told
             /\ runs'[y].listed = runs[y].listed /\ flow[y] = "none"
             /\ Good(runs'[y], runs'[y], flow[y], delivered[y], hooks[y])
  <2>1. PICK e, z : e = runs[y] /\ z = Ends(e)
    OBVIOUS
  <2>2. y \in Runs /\ runs'[y] = z /\ e.ended = "no"
    BY <1>1, <1>2, <2>1
  <2>3. e \in Records /\ Sound(e) /\ flow[y] = "none" /\ delivered[y] = 0
        /\ hooks[y] \in {0, 1} /\ (hooks[y] = 1 => e.told)
    BY <1>g, <2>1, <2>2 DEF Good, Sound, Begun
  <2>4. /\ z \in Records /\ z.session = e.session /\ z.listed = e.listed
        /\ z.ended = "killed" /\ z.suppressed = "killed" /\ z.handled = TRUE
        /\ z.told = e.told /\ z.settled = TRUE /\ z.retries = e.retries
    BY <2>1, <2>3 DEF Records
  <2>5. Sound(z)
    BY <2>2, <2>3, <2>4 DEF Sound
  <2>6. Good(z, z, flow[y], delivered[y], hooks[y])
    BY <2>3, <2>4, <2>5 DEF Good, Flows, Before, HookFlows
  <2>. QED
    BY <2>1, <2>2, <2>3, <2>4, <2>6
<1>5. \A y \in Runs : y \notin killed => runs'[y] = runs[y]
  BY <1>1
<1>6. Evolve
  <2>1. ASSUME NEW y \in Runs PROVE Evolves(runs[y], flow[y], runs'[y], flow'[y])
    <3>1. CASE y \in killed
      BY <1>1, <1>4, <3>1 DEF Evolves
    <3>2. CASE y \notin killed
      BY <1>1, <1>5, <3>2 DEF Evolves
    <3>. QED
      BY <3>1, <3>2
  <2>. QED
    BY <2>1 DEF Evolve
<1>7. /\ child' = [x \in Runs |-> child'[x]]
      /\ \A x \in Runs : child'[x] = child[x] \/ (child[x] # "none" /\ child'[x] # "none")
  BY <1>1, AbortedIs
<1>8. Types'
  <2>1. sweeping # NoRun => runs'[sweeping].session \in Sessions
    BY <1>6 DEF RegistryInv, Types, Evolve, Evolves
  <2>2. runs' = [r \in Runs |-> runs'[r]]
    BY <1>1
  <2>. QED
    BY <1>1, <1>7, <2>1, <2>2 DEF RegistryInv, Types
<1>9. GoodRuns'
  <2>1. ASSUME NEW y \in Runs PROVE Good(runs'[y], disk'[y], flow'[y], delivered'[y], hooks'[y])
    <3>1. CASE y \in killed
      BY <1>1, <1>4, <3>1
    <3>2. CASE y \notin killed
      BY <1>1, <1>5, <1>g, <3>2 DEF Good
    <3>. QED
      BY <3>1, <3>2
  <2>. QED
    BY <2>1 DEF GoodRuns
<1>10. GoodCompletions'
  <2>1. GoodCompletions /\ completing \subseteq Completions
    BY DEF RegistryInv, GoodCompletions, Completions
  <2>2. completing' \subseteq Completions
    <3>1. \A r \in Runs : [run |-> r, by |-> "kill", at |-> "hook"] \in Completions
      BY DEF Completions
    <3>. QED
      BY <1>1, <1>2, <2>1, <3>1 DEF news
  <2>3. ASSUME NEW c \in completing'
        PROVE  /\ runs'[c.run].ended # "no"
               /\ c.at = "hook" => /\ ~runs'[c.run].told /\ runs'[c.run].suppressed # "steer"
                                   /\ flow'[c.run] \notin HookFlows
    <3>1. CASE c \in completing
      <4>1. /\ c.run \in Runs /\ Ended(c.run)
            /\ c.at = "hook" => /\ ~runs[c.run].told /\ runs[c.run].suppressed # "steer"
                                /\ flow[c.run] \notin HookFlows
        BY <2>1, <3>1 DEF GoodCompletions
      <4>2. c.run \notin killed
        BY <1>2, <4>1 DEF Ended
      <4>. QED
        BY <1>1, <1>5, <4>1, <4>2 DEF Ended
    <3>2. CASE c \in news
      <4>1. c.run \in killed /\ MayEmit(c.run)
        BY <1>2, <1>n, <3>2
      <4>2. ~runs[c.run].told
        BY <4>1 DEF MayEmit
      <4>. QED
        BY <1>1, <1>4, <4>1, <4>2 DEF HookFlows
    <3>. QED
      BY <1>1, <3>1, <3>2
  <2>4. ASSUME NEW c \in completing', NEW d \in completing', c.at = "hook", d.at = "hook", c.run = d.run
        PROVE  c = d
    <3>1. CASE c \in completing /\ d \in completing
      BY <2>1, <2>4, <3>1 DEF GoodCompletions
    <3>2. CASE c \in news /\ d \in news
      BY <1>n, <2>4, <3>2
    <3>3. \A a \in completing, b \in news : a.at = "hook" => a.run # b.run
      <4>1. \A b \in news : MayEmit(b.run)
        BY <1>2, <1>n
      <4>. QED
        BY <4>1 DEF MayEmit, InHook
    <3>. QED
      BY <1>1, <2>4, <3>1, <3>2, <3>3
  <2>. QED
    BY <2>2, <2>3, <2>4 DEF GoodCompletions, Ended, Completions
<1>11. GoodLaunches'
  <2>1. \A y \in Runs : disk'[y].listed => disk[y].listed \/ runs[y].listed
    BY <1>1, <1>6 DEF Evolve, Evolves
  <2>2. \A c \in completing' : runs[c.run].listed \/ \E b \in completing : b.run = c.run
    BY <1>1, <1>2, <1>n
  <2>3. UNCHANGED <<launches, delivered, hooks>> /\ \A t \in Steers : steering'[t] \in {steering[t], NoRun}
    BY <1>1
  <2>. QED
    BY <1>6, <1>7, <2>1, <2>2, <2>3, LaunchesKept DEF RegistryInv
<1>12. GoodSteers'
  <2>1. GoodSteers /\ steering' = steering /\ exempt \subseteq exempt'
        /\ \A r \in killed : <<"killed", r>> \in exempt'
    BY <1>1 DEF RegistryInv
  <2>2. ASSUME NEW t \in Steers, steering[t] # NoRun
        PROVE  /\ runs'[steering[t]].session \in Sessions
               /\ {<<"steered", steering[t]>>, <<"killed", steering[t]>>} \cap exempt' = {} =>
                    runs'[steering[t]].suppressed = "steer" /\ flow'[steering[t]] = "none"
    <3>1. PICK q \in Runs : q = steering[t]
      BY <2>1, <2>2 DEF GoodSteers
    <3>2. /\ runs[q].session \in Sessions
          /\ {<<"steered", q>>, <<"killed", q>>} \cap exempt = {} =>
               runs[q].suppressed = "steer" /\ flow[q] = "none"
      BY <2>1, <2>2, <3>1 DEF GoodSteers
    <3>3. CASE q \in killed
      BY <1>4, <2>1, <3>1, <3>2, <3>3
    <3>4. CASE q \notin killed
      <4>1. runs'[q] = runs[q] /\ flow'[q] = flow[q]
        BY <1>1, <1>5, <3>4
      <4>. QED
        BY <2>1, <3>1, <3>2, <4>1
    <3>. QED
      BY <3>3, <3>4
  <2>3. \A t, u \in Steers : t # u /\ steering[t] = steering[u] /\ steering[t] # NoRun =>
          <<"steered", steering[t]>> \in exempt'
    BY <2>1 DEF GoodSteers
  <2>4. steering' \in [Steers -> Runs \cup {NoRun}]
    BY <2>1 DEF GoodSteers
  <2>. QED
    BY <2>1, <2>2, <2>3, <2>4 DEF GoodSteers
<1>. QED
  BY <1>8, <1>9, <1>10, <1>11, <1>12 DEF RegistryInv

(* A record whose mark is taken back stays good.                           *)
LEMMA UnmarkedIsGood ==
  ASSUME NEW e, NEW d, NEW f, NEW n, NEW h, Good(e, d, f, n, h), e.suppressed = "steer",
         NEW x, x = [e EXCEPT !.suppressed = "no"]
  PROVE  Good(x, x, f, n, h) /\ Evolves(e, f, x, f) /\ x.told = e.told
<1>1. e \in Records
  BY DEF Good, Sound
<1>2. /\ x \in Records /\ x.session = e.session /\ x.listed = e.listed /\ x.ended = e.ended
      /\ x.suppressed = "no" /\ x.handled = e.handled /\ x.settled = e.settled
      /\ x.retries = e.retries /\ x.told = e.told
  BY <1>1 DEF Records
<1>3. Good(x, x, f, n, h)
  BY <1>2 DEF Good, Sound, Begun
<1>4. Evolves(e, f, x, f)
  BY <1>2 DEF Evolves
<1>. QED
  BY <1>2, <1>3, <1>4

(* A steer fails, and its run goes on.                                     *)
LEMMA SteerFailsKeeps ==
  ASSUME RegistryInv, NEW s \in Steers, SteerFails(s)
  PROVE  RegistryInv'
<1>1. PICK r \in Runs : r = steering[s]
  BY DEF SteerFails, RegistryInv, GoodSteers
<1>2. /\ steering' = [steering EXCEPT ![s] = NoRun]
      /\ UNCHANGED <<arranged, gone, child, launches, pendingErrors, retryTimers, completing,
                     sweeping, delivered, hooks, exempt>>
  BY DEF SteerFails
<1>3. GoodSteers /\ steering' \in [Steers -> Runs \cup {NoRun}] /\ steering'[s] = NoRun
      /\ \A t \in Steers : t # s => steering'[t] = steering[t]
  BY <1>2 DEF RegistryInv, GoodSteers
<1>g. ASSUME NEW y \in Runs PROVE Good(runs[y], disk[y], flow[y], delivered[y], hooks[y])
  BY DEF RegistryInv, GoodRuns
<1>h. /\ runs = [y \in Runs |-> runs[y]] /\ delivered' = [y \in Runs |-> delivered'[y]]
      /\ hooks' = [y \in Runs |-> hooks'[y]]
  BY <1>2 DEF RegistryInv, Types
<1>4. CASE UNCHANGED <<runs, disk, resumed, flow, waits, backoffTimers>>
  <2>1. Evolve /\ KeepMarks
    BY <1>4, NothingEvolves
  <2>2. Types'
    BY <1>2, <1>4 DEF RegistryInv, Types
  <2>3. GoodRuns'
    BY <1>2, <1>4 DEF RegistryInv, GoodRuns
  <2>4. GoodCompletions'
    BY <1>2, <1>4 DEF RegistryInv, GoodCompletions, Ended
  <2>5. \A t \in Steers : steering'[t] \in {steering[t], NoRun}
    BY <1>3
  <2>6. GoodLaunches'
    BY <1>2, <1>4, <2>1, <2>5, LaunchesKept DEF RegistryInv
  <2>7. GoodSteers'
    BY <1>2, <1>3, <2>1, <2>5, SteersKept
  <2>. QED
    BY <2>2, <2>3, <2>4, <2>6, <2>7 DEF RegistryInv
<1>5. CASE /\ runs[r].suppressed = "steer"
           /\ Resume({x \in {r} : Ended(r) /\ ~runs[r].settled},
                     [Base EXCEPT !.runs[r].suppressed = "no", !.resumed = @ \ {r}], TRUE)
  <2>1. PICK b : /\ b = [Base EXCEPT !.runs[r].suppressed = "no", !.resumed = @ \ {r}]
                 /\ Resume({x \in {r} : Ended(r) /\ ~runs[r].settled}, b, TRUE)
    BY <1>5
  <2>2. /\ b.runs = [runs EXCEPT ![r] = [runs[r] EXCEPT !.suppressed = "no"]] /\ b.flow = flow
        /\ b.resumed \subseteq resumed /\ b.waits = waits /\ b.timers = backoffTimers
    BY <2>1 DEF Base
  <2>3. PICK R \in SUBSET Runs : R = {x \in {r} : Ended(r) /\ ~runs[r].settled}
    OBVIOUS
  <2>4. PICK rs, fl : rs = b.runs /\ fl = b.flow
    OBVIOUS
  <2>5. ASSUME NEW y \in Runs
        PROVE  /\ Good(rs[y], rs[y], flow[y], delivered[y], hooks[y])
               /\ Evolves(runs[y], flow[y], rs[y], flow[y]) /\ rs[y].told = runs[y].told
               /\ y # r => rs[y].suppressed = runs[y].suppressed
    <3>1. PICK e, d, f, n, h, x : /\ e = runs[y] /\ d = disk[y] /\ f = flow[y] /\ n = delivered[y]
                                  /\ h = hooks[y] /\ x = rs[y] /\ Good(e, d, f, n, h)
      BY <1>g
    <3>2. CASE y = r
      <4>1. x = [e EXCEPT !.suppressed = "no"] /\ e.suppressed = "steer"
        BY <1>5, <1>h, <2>2, <2>4, <3>1, <3>2
      <4>2. Good(x, x, f, n, h) /\ Evolves(e, f, x, f) /\ x.told = e.told
        BY <3>1, <4>1, UnmarkedIsGood
      <4>. QED
        BY <3>1, <3>2, <4>2
    <3>3. CASE y # r
      <4>1. x = e
        BY <1>h, <2>2, <2>4, <3>1, <3>3
      <4>2. Good(e, e, f, n, h) /\ Evolves(e, f, e, f)
        BY <3>1 DEF Good, Evolves
      <4>. QED
        BY <3>1, <4>1, <4>2
    <3>. QED
      BY <3>2, <3>3
  <2>6. /\ runs' = [y \in Runs |-> runs'[y]] /\ flow' = [y \in Runs |-> flow'[y]]
        /\ \A y \in Runs : Resumed(rs[y], fl[y], runs'[y], flow'[y])
        /\ disk' = runs'
        /\ resumed' \subseteq b.resumed \cup R /\ waits' \subseteq b.waits \cup R
        /\ backoffTimers' \subseteq b.timers \cup R
    <3>1. \A y \in Runs : b.runs[y] \in Records
      BY <2>4, <2>5 DEF Good, Sound
    <3>2. Resume(R, b, TRUE)
      BY <2>1, <2>3
    <3>3. PICK saved \in BOOLEAN : saved = TRUE
      OBVIOUS
    <3>4. /\ runs' = [y \in Runs |-> runs'[y]] /\ flow' = [y \in Runs |-> flow'[y]]
          /\ \A y \in Runs : Resumed(b.runs[y], b.flow[y], runs'[y], flow'[y])
          /\ disk' = runs' \/ ~saved
          /\ resumed' \subseteq b.resumed \cup R /\ waits' \subseteq b.waits \cup R
          /\ backoffTimers' \subseteq b.timers \cup R
      BY <3>1, <3>2, <3>3, ResumeIs
    <3>. QED
      BY <2>4, <3>3, <3>4
  <2>7. /\ Types' /\ GoodRuns' /\ GoodCompletions' /\ GoodLaunches' /\ Evolve
        /\ \A y \in Runs : KeepsMark(rs[y], fl[y], runs'[y], flow'[y])
    <3>1. waits' \cup pendingErrors' \cup resumed' \cup retryTimers' \cup backoffTimers' \subseteq Runs
      BY <1>2, <2>2, <2>6 DEF RegistryInv, Types
    <3>2. \A y \in Runs : /\ Evolves(runs[y], flow[y], rs[y], fl[y])
                          /\ Good(rs[y], rs[y], fl[y], delivered'[y], hooks'[y])
      BY <1>2, <2>2, <2>4, <2>5
    <3>3. \A c \in completing' : c.at = "hook" => ~rs[c.run].told /\ fl[c.run] \notin HookFlows
      BY <1>2, <2>2, <2>4, <2>5 DEF RegistryInv, GoodCompletions
    <3>4. \A t \in Steers : steering'[t] \in {steering[t], NoRun}
      BY <1>3
    <3>. QED
      BY <1>2, <1>h, <2>6, <3>1, <3>2, <3>3, <3>4, ResumingKeeps
  <2>8. GoodSteers'
    <3>1. \A y \in Runs : y # r => KeepsMark(runs[y], flow[y], runs'[y], flow'[y])
      BY <2>2, <2>4, <2>5, <2>7 DEF KeepsMark
    <3>2. ASSUME NEW t \in Steers, steering'[t] # NoRun
          PROVE  /\ runs'[steering'[t]].session \in Sessions
                 /\ {<<"steered", steering'[t]>>, <<"killed", steering'[t]>>} \cap exempt' = {} =>
                      runs'[steering'[t]].suppressed = "steer" /\ flow'[steering'[t]] = "none"
      <4>1. PICK q \in Runs : q = steering'[t] /\ q = steering[t] /\ t # s
        BY <1>3, <3>2
      <4>2. /\ runs[q].session \in Sessions
            /\ {<<"steered", q>>, <<"killed", q>>} \cap exempt = {} =>
                 runs[q].suppressed = "steer" /\ flow[q] = "none"
        BY <1>3, <3>2, <4>1 DEF GoodSteers
      <4>3. runs'[q].session = runs[q].session
        BY <2>7 DEF Evolve, Evolves
      <4>4. CASE q = r
        <5>1. <<"steered", q>> \in exempt
          <6>1. steering[t] = steering[s] /\ steering[t] # NoRun
            BY <1>1, <3>2, <4>1, <4>4
          <6>. QED
            BY <1>3, <4>1, <6>1 DEF GoodSteers
        <5>. QED
          BY <1>2, <4>1, <4>2, <4>3, <5>1
      <4>5. CASE q # r
        BY <1>2, <3>1, <4>1, <4>2, <4>3, <4>5 DEF KeepsMark
      <4>. QED
        BY <4>4, <4>5
    <3>3. ASSUME NEW t \in Steers, NEW u \in Steers, t # u, steering'[t] = steering'[u],
                 steering'[t] # NoRun
          PROVE  <<"steered", steering'[t]>> \in exempt'
      <4>1. steering'[t] = steering[t] /\ steering'[u] = steering[u]
        BY <1>3, <3>3
      <4>. QED
        BY <1>2, <1>3, <3>3, <4>1 DEF GoodSteers
    <3>. QED
      BY <1>3, <3>2, <3>3 DEF GoodSteers
  <2>. QED
    BY <2>7, <2>8 DEF RegistryInv
<1>. QED
  BY <1>1, <1>4, <1>5 DEF SteerFails

(* A restored record is good: what was begun or told is in the file.       *)
LEMMA RestoredIsGood ==
  ASSUME NEW e, NEW d, NEW f, NEW n, NEW h, Good(e, d, f, n, h), NEW x, x \in {d, Unlisted(d)}
  PROVE  Good(x, x, "none", n, h) /\ (x.listed => d.listed)
<1>1. d \in Records
  BY DEF Good, Sound
<1>2. /\ x \in Records /\ x.session = d.session /\ (x.listed => d.listed) /\ x.ended = d.ended
      /\ x.suppressed = d.suppressed /\ x.handled = d.handled /\ x.settled = d.settled
      /\ x.retries = d.retries /\ x.told = d.told
  BY <1>1, UnlistedIs
<1>3. Sound(x)
  BY <1>2 DEF Good, Sound
<1>4. Good(x, x, "none", n, h)
  BY <1>2, <1>3 DEF Good, Begun, Flows, Before, HookFlows
<1>. QED
  BY <1>2, <1>4

(* The process ends, and the next one restores the file.                   *)
LEMMA RestartsKeeps ==
  ASSUME RegistryInv, Restarts
  PROVE  RegistryInv'
<1>1. PICK rs : rs = [r \in Runs |-> IF disk[r].session \in gone THEN Unlisted(disk[r]) ELSE disk[r]]
  OBVIOUS
<1>2. PICK fl, b : /\ fl = [r \in Runs |-> "none"]
                   /\ b = [runs |-> rs, resumed |-> {}, flow |-> fl, waits |-> {}, timers |-> {}]
  OBVIOUS
<1>3. PICK saved \in BOOLEAN : saved = (\E r \in Runs : rs[r] # disk[r])
  OBVIOUS
<1>4. /\ Resume(Runs, b, saved)
      /\ child' = [r \in Runs |-> IF child[r] = "none" THEN "none" ELSE "dead"]
      /\ launches' = {} /\ pendingErrors' = {} /\ retryTimers' = {} /\ completing' = {}
      /\ steering' = [s \in Steers |-> NoRun] /\ sweeping' = NoRun
      /\ UNCHANGED <<arranged, gone, delivered, hooks>>
  BY <1>1, <1>2, <1>3 DEF Restarts
<1>5. ASSUME NEW y \in Runs
      PROVE  /\ Good(rs[y], rs[y], fl[y], delivered'[y], hooks'[y]) /\ (rs[y].listed => disk[y].listed)
             /\ fl[y] = "none" /\ rs[y] \in Records
  <2>1. PICK e, d, f, n, h, x : /\ e = runs[y] /\ d = disk[y] /\ f = flow[y] /\ n = delivered[y]
                                /\ h = hooks[y] /\ x = rs[y] /\ Good(e, d, f, n, h)
    BY DEF RegistryInv, GoodRuns
  <2>2. x \in {d, Unlisted(d)}
    BY <1>1, <2>1
  <2>3. Good(x, x, "none", n, h) /\ (x.listed => d.listed)
    BY <2>1, <2>2, RestoredIsGood
  <2>. QED
    BY <1>2, <1>4, <2>1, <2>3 DEF Good, Sound
<1>6. /\ runs' = [y \in Runs |-> runs'[y]] /\ flow' = [y \in Runs |-> flow'[y]]
      /\ \A y \in Runs : Resumed(rs[y], fl[y], runs'[y], flow'[y])
      /\ \/ disk' = runs'
         \/ /\ disk' = disk /\ ~saved
            /\ \A y \in Runs : Alike(rs[y], runs'[y]) /\ flow'[y] = fl[y]
      /\ resumed' \subseteq Runs /\ waits' \subseteq Runs /\ backoffTimers' \subseteq Runs
  <2>1. /\ b.runs = rs /\ b.flow = fl /\ b.resumed = {} /\ b.waits = {} /\ b.timers = {}
    BY <1>2
  <2>2. (\A y \in Runs : b.runs[y] \in Records) /\ Runs \in SUBSET Runs
    BY <1>5, <2>1
  <2>3. PICK R \in SUBSET Runs : R = Runs
    BY <2>2
  <2>4. Resume(R, b, saved)
    BY <1>4, <2>3
  <2>. QED
    BY <2>1, <2>2, <2>3, <2>4, ResumeIs
<1>7. /\ GoodRuns'
      /\ \A y \in Runs : Evolves(rs[y], fl[y], runs'[y], flow'[y])
  <2>1. ~saved => \A y \in Runs : rs[y] = disk[y]
    BY <1>3
  <2>2. \/ disk' = runs'
        \/ /\ disk' = disk
           /\ \A y \in Runs : /\ Alike(rs[y], runs'[y]) /\ flow'[y] = fl[y]
                              /\ Good(rs[y], disk[y], fl[y], delivered'[y], hooks'[y])
    BY <1>5, <1>6, <2>1
  <2>. QED
    BY <1>5, <1>6, <2>2, ResumedKeeps
<1>8. Types'
  <2>1. disk' = [y \in Runs |-> disk'[y]]
    BY <1>6 DEF RegistryInv, Types
  <2>. QED
    BY <1>4, <1>6, <2>1 DEF RegistryInv, Types
<1>9. GoodCompletions'
  BY <1>4 DEF GoodCompletions
<1>10. GoodLaunches'
  <2>1. ASSUME NEW r \in Runs, child'[r] = "none" PROVE Untold(r)'
    <3>1. child[r] = "none"
      BY <1>4, <2>1
    <3>2. Untold(r)
      BY <3>1 DEF RegistryInv, GoodLaunches
    <3>3. ~rs[r].listed /\ fl[r] = "none"
      BY <1>5, <3>2 DEF Untold
    <3>4. ~runs'[r].listed /\ flow'[r] = "none"
      BY <1>7, <3>3 DEF Evolves
    <3>5. ~disk'[r].listed
      BY <1>6, <3>2, <3>4 DEF Untold
    <3>6. \A t \in Steers : steering'[t] # r
      BY <1>4, Constants
    <3>. QED
      BY <1>4, <3>2, <3>4, <3>5, <3>6 DEF Untold
  <2>. QED
    BY <1>4, <2>1 DEF GoodLaunches
<1>11. GoodSteers'
  BY <1>4 DEF GoodSteers
<1>. QED
  BY <1>7, <1>8, <1>9, <1>10, <1>11 DEF RegistryInv

-----------------------------------------------------------------------------
(* The theorems                                                            *)

(* At first nothing is known of any run.                                   *)
LEMMA RegistryInvInit == Init => RegistryInv
<1>. SUFFICES ASSUME Init PROVE RegistryInv
  OBVIOUS
<1>1. PICK x : x = Blank
  OBVIOUS
<1>2. /\ x \in Records /\ x.session = Top /\ x.listed = FALSE /\ x.ended = "no"
      /\ x.suppressed = "no" /\ x.handled = FALSE /\ x.settled = FALSE /\ x.retries = 0
      /\ x.told = FALSE
  <2>1. PICK f : f = Fresh(Top, FALSE)
    OBVIOUS
  <2>2. /\ f \in Records /\ f.session = Top /\ f.ended = "no"
        /\ f.suppressed = "no" /\ f.handled = FALSE /\ f.settled = FALSE /\ f.retries = 0
        /\ f.told = FALSE
    BY <2>1, FreshIs
  <2>3. x = Unlisted(f)
    BY <1>1, <2>1 DEF Blank
  <2>. QED
    BY <2>2, <2>3, UnlistedIs
<1>3. Good(x, x, "none", 0, 0)
  <2>1. Sound(x)
    BY <1>2, Constants DEF Sound
  <2>. QED
    BY <1>2, <2>1 DEF Good, Flows, Before, HookFlows
<1>4. /\ runs = [r \in Runs |-> x] /\ disk = runs /\ gone = {}
      /\ child = [r \in Runs |-> "none"] /\ launches = {}
      /\ waits = {} /\ pendingErrors = {} /\ resumed = {} /\ retryTimers = {} /\ backoffTimers = {}
      /\ completing = {} /\ flow = [r \in Runs |-> "none"]
      /\ steering = [s \in Steers |-> NoRun] /\ sweeping = NoRun
      /\ delivered = [r \in Runs |-> 0] /\ hooks = [r \in Runs |-> 0]
  BY <1>1 DEF Init
<1>5. Types
  BY <1>4 DEF Init, Types
<1>6. GoodRuns
  BY <1>3, <1>4 DEF GoodRuns
<1>7. GoodCompletions
  BY <1>4 DEF GoodCompletions
<1>8. GoodLaunches
  <2>1. \A r \in Runs : Untold(r)
    BY <1>2, <1>4, Constants DEF Untold
  <2>. QED
    BY <1>4, <2>1 DEF GoodLaunches
<1>9. GoodSteers
  BY <1>4 DEF GoodSteers
<1>. QED
  BY <1>5, <1>6, <1>7, <1>8, <1>9 DEF RegistryInv

(* Every step keeps the invariant.                                         *)
LEMMA RegistryInvStep == RegistryInv /\ [Next]_vars => RegistryInv'
<1>. SUFFICES ASSUME RegistryInv, [Next]_vars PROVE RegistryInv'
  OBVIOUS
<1>1. ASSUME NEW r \in Runs, Continues(r) PROVE RegistryInv'
  <2>1. CASE RetryTimerRings(r) \/ BackoffTimerRings(r)
    BY <2>1, TimersKeep
  <2>2. CASE GraceEnds(r)
    BY <2>2, GraceEndsKeeps
  <2>3. CASE WaitReturns(r)
    BY <2>3, WaitKeeps
  <2>4. CASE Looks(r)
    BY <2>4, LooksKeeps
  <2>5. CASE Wakes(r)
    BY <2>5, WakesKeeps
  <2>6. CASE Delivers(r)
    BY <2>6, DeliversKeeps
  <2>7. CASE Announced(r)
    BY <2>7, AnnouncedKeeps
  <2>8. CASE Failed(r)
    BY <2>8, FailedKeeps
  <2>9. CASE CleanupHookReturns(r)
    BY <2>9, CleanupHookReturnsKeeps
  <2>. QED
    BY <1>1, <2>1, <2>2, <2>3, <2>4, <2>5, <2>6, <2>7, <2>8, <2>9 DEF Continues
<1>2. ASSUME NEW r \in Runs, StillActive(r) PROVE RegistryInv'
  BY <1>2, LooksKeeps
<1>3. ASSUME NEW r \in Runs, Ages(r) PROVE RegistryInv'
  BY <1>3, AgesKeeps
<1>4. ASSUME NEW r \in Runs, WaitTimesOut(r) PROVE RegistryInv'
  BY <1>4, WaitKeeps
<1>5. ASSUME NEW r \in Runs, Sweeps(r) PROVE RegistryInv'
  BY <1>5, SweepsKeeps
<1>6. ASSUME NEW r \in Runs, ChildErrs(r) \/ ChildRetries(r) PROVE RegistryInv'
  BY <1>6, ChildKeeps
<1>7. ASSUME NEW r \in Runs, ChildEnds(r) PROVE RegistryInv'
  BY <1>7, ChildEndsKeeps
<1>8. ASSUME NEW r \in Runs, NEW s \in Steers, SteerMarks(s, r) PROVE RegistryInv'
  BY <1>8, SteerMarksKeeps
<1>9. ASSUME NEW s \in Sessions, Spawn(s) PROVE RegistryInv'
  BY <1>9, SpawnKeeps
<1>10. ASSUME NEW s \in Sessions, Kill(s) PROVE RegistryInv'
  BY <1>10, KillKeeps
<1>11. ASSUME NEW l \in launches, Recorded(l) PROVE RegistryInv'
  BY <1>11, RecordedKeeps
<1>12. ASSUME NEW c \in completing, Frozen(c) PROVE RegistryInv'
  BY <1>12, FrozenKeeps
<1>13. ASSUME NEW c \in completing, HookReturns(c) PROVE RegistryInv'
  BY <1>13, HookReturnsKeeps
<1>14. ASSUME NEW s \in Steers, SteerLaunches(s) PROVE RegistryInv'
  BY <1>14, SteerLaunchesKeeps
<1>15. ASSUME NEW s \in Steers, SteerFails(s) PROVE RegistryInv'
  BY <1>15, SteerFailsKeeps
<1>16. CASE SweepEnds
  BY <1>16, SweepEndsKeeps
<1>17. CASE Restarts
  BY <1>17, RestartsKeeps
<1>18. CASE UNCHANGED vars
  <2>1. /\ waits' \subseteq waits /\ pendingErrors' \subseteq pendingErrors
        /\ UNCHANGED <<arranged, runs, disk, gone, child, launches, resumed, retryTimers,
                       backoffTimers, completing, flow, steering, sweeping, delivered, hooks, exempt>>
    BY <1>18 DEF vars, memoryVars
  <2>. QED
    BY <2>1, NothingComes
<1>. QED
  BY <1>1, <1>2, <1>3, <1>4, <1>5, <1>6, <1>7, <1>8, <1>9, <1>10, <1>11, <1>12, <1>13, <1>14,
     <1>15, <1>16, <1>17, <1>18 DEF Next

(* The invariant holds in every behaviour: what was begun or told is known *)
(* in memory and in the file, one hook of a run is out at a time, and a    *)
(* run that is being steered has nothing under way (subagent-registry.ts). *)
THEOREM RegistryInvariant == Spec => []RegistryInv
<1>. QED
  BY RegistryInvInit, RegistryInvStep, PTL DEF Spec

(* The types of the state, and that whatever goes on in an announcement is *)
(* of a run whose cleanup was begun (beginSubagentCleanup).                *)
THEOREM TypeCorrect == Spec => []TypeOK
<1>1. RegistryInv => TypeOK
  <2>. SUFFICES ASSUME RegistryInv PROVE TypeOK
    OBVIOUS
  <2>1. \A r \in Runs : Good(runs[r], disk[r], flow[r], delivered[r], hooks[r])
    BY DEF RegistryInv, GoodRuns
  <2>2. \A r \in Runs : \A e \in {runs[r], disk[r]} :
          /\ e.ended \in {"no", "ok", "error", "killed"} /\ e.suppressed \in {"no", "steer", "killed"}
          /\ e.retries \in 0..MaxRetries
    BY <2>1 DEF Good, Sound, Records
  <2>3. \A r \in Runs : Listed(r) /\ flow[r] # "none" => Ended(r) /\ runs[r].handled
    BY <2>1 DEF Good, Begun, Ended
  <2>. QED
    BY <2>2, <2>3 DEF TypeOK, RegistryInv, Types
<1>. QED
  BY <1>1, RegistryInvariant, PTL

(* What a run found is announced at most once, and its end is told to the  *)
(* plugins at most once, whatever brings its cleanup on: an event,         *)
(* agent.wait, a grace time, a timer, a kill, another cleanup, a restart.  *)
THEOREM ToldAtMostOnce == Spec => []ToldOnce
<1>1. RegistryInv => ToldOnce
  BY DEF RegistryInv, GoodRuns, Good, ToldOnce
<1>. QED
  BY <1>1, RegistryInvariant, PTL

(* Only the delivery of an announcement delivers.                          *)
LEMMA WhoDelivers ==
  ASSUME [Next]_vars, delivered' # delivered
  PROVE  \E r \in Runs : Delivers(r)
<1>1. ASSUME NEW r \in Runs, Continues(r), ~Delivers(r) PROVE delivered' = delivered
  <2>1. CASE RetryTimerRings(r) \/ BackoffTimerRings(r) \/ GraceEnds(r)
    BY <2>1 DEF RetryTimerRings, BackoffTimerRings, GraceEnds
  <2>2. CASE WaitReturns(r)
    BY <2>2 DEF WaitReturns, WaitAnswers
  <2>3. CASE Looks(r) \/ Wakes(r)
    BY <2>3 DEF Looks, Wakes
  <2>4. CASE Announced(r) \/ Failed(r) \/ CleanupHookReturns(r)
    BY <2>4 DEF Announced, Failed, CleanupHookReturns
  <2>. QED
    BY <1>1, <2>1, <2>2, <2>3, <2>4 DEF Continues
<1>2. ASSUME NEW r \in Runs, StillActive(r) \/ Ages(r) \/ WaitTimesOut(r) \/ Sweeps(r)
      PROVE  delivered' = delivered
  BY <1>2 DEF StillActive, Ages, WaitTimesOut, WaitAnswers, Sweeps
<1>3. ASSUME NEW r \in Runs, ChildErrs(r) \/ ChildRetries(r) \/ ChildEnds(r)
      PROVE  delivered' = delivered
  BY <1>3 DEF ChildErrs, ChildRetries, ChildEnds
<1>4. ASSUME NEW r \in Runs, NEW s \in Steers, SteerMarks(s, r) PROVE delivered' = delivered
  BY <1>4 DEF SteerMarks
<1>5. ASSUME NEW s \in Sessions, Spawn(s) \/ Kill(s) PROVE delivered' = delivered
  BY <1>5 DEF Spawn, Kill
<1>6. ASSUME NEW l \in launches, Recorded(l) PROVE delivered' = delivered
  BY <1>6 DEF Recorded
<1>7. ASSUME NEW c \in completing, Frozen(c) \/ HookReturns(c) PROVE delivered' = delivered
  BY <1>7 DEF Frozen, HookReturns
<1>8. ASSUME NEW s \in Steers, SteerLaunches(s) \/ SteerFails(s) PROVE delivered' = delivered
  BY <1>8 DEF SteerLaunches, SteerFails
<1>9. ASSUME SweepEnds \/ Restarts \/ UNCHANGED vars PROVE delivered' = delivered
  BY <1>9 DEF SweepEnds, Restarts, vars
<1>. QED
  BY <1>1, <1>2, <1>3, <1>4, <1>5, <1>6, <1>7, <1>8, <1>9 DEF Next

(* A run that is being steered does not announce what it had found, unless *)
(* a second steer or a kill lifts the mark (markSubagentRunForSteerRestart *)
(* and what suppressAnnounceForSteerRestart guards).                       *)
THEOREM SteeredIsSilent == Spec => SteeredSaysNothing
<1>. DEFINE Silent == \A r \in Runs :
              delivered'[r] # delivered[r] /\ {<<"steered", r>>, <<"killed", r>>} \cap exempt = {}
                => \A s \in Steers : steering[s] # r
<1>1. RegistryInv /\ [Next]_vars => [Silent]_vars
  <2>. SUFFICES ASSUME RegistryInv, [Next]_vars,
                       NEW r \in Runs, delivered'[r] # delivered[r],
                       {<<"steered", r>>, <<"killed", r>>} \cap exempt = {},
                       NEW s \in Steers
                PROVE  steering[s] # r
    OBVIOUS
  <2>1. PICK x \in Runs : Delivers(x)
    BY WhoDelivers
  <2>2. flow[x] = "delivering" /\ x = r
    BY <2>1 DEF Delivers, RegistryInv, Types
  <2>. QED
    BY <2>2, Constants DEF RegistryInv, GoodSteers
<1>. QED
  BY <1>1, RegistryInvariant, PTL DEF Spec, SteeredSaysNothing

-----------------------------------------------------------------------------
(* The runs below a run                                                    *)

(* An announcement that may yet wake its session, and one that has looked  *)
(* below its run.                                                          *)
Coming == {"begun", "waking", "woken"}
Looked == {"waking", "woken", "delivering"}

(* A run's record e, its copy d in the file, its announcement f: the file  *)
(* does not run ahead of the record with an end, nor behind it with the    *)
(* end of the cleanup, and a cleanup does not come to its end while the    *)
(* session may still be woken.                                             *)
Filed(e, d, f) ==
  /\ e.suppressed # "killed" /\ d.suppressed # "killed"
  /\ d.ended # "no" => e.ended # "no"
  /\ e.settled => d.settled
  /\ e.listed /\ f \in Coming => ~e.settled

(* Neither killed nor steered twice at a time.                             *)
Unmarked(r) == {<<"steered", r>>, <<"killed", r>>} \cap exempt = {}

(* The file has the session of each run, and keeps up.                     *)
GoodFile ==
  \A r \in Runs :
    /\ disk[r].session = runs[r].session
    /\ Unmarked(r) => Filed(runs[r], disk[r], flow[r])

(* Only runs whose requester expects a message are resumed by a timer:     *)
(* they are not given up for their age.                                    *)
GoodTimers == \A r \in retryTimers \cup backoffTimers : Completion(r)

(* The cleanup of a run that is being steered has not come to its end.     *)
UnsettledSteers ==
  \A s \in Steers, r \in Runs : steering[s] = r /\ Unmarked(r) => ~runs[r].settled /\ runs[r].retries = 0

(* Runs that nobody has recorded are of no session; a launch that replaces *)
(* a run is of its session, and a steer launches once, for the run that it *)
(* has marked.                                                             *)
GoodAims ==
  /\ \A r \in Runs : child[r] = "none" => runs[r].session = Top
  /\ \A l \in launches :
       /\ runs[l.run].session = Top
       /\ l.how = "spawn" => l.prev = NoRun
       /\ l.how # "spawn" => l.prev \in Runs /\ runs[l.prev].session = l.session
       /\ l.how \in Steers => steering[l.how] = l.prev
  /\ \A l, m \in launches : l.how \in Steers /\ l.how = m.how => l = m

(* Nothing is pending below a run that has looked, until its result goes   *)
(* out.                                                                    *)
NothingBelow ==
  \A r \in Runs : flow[r] \in Looked /\ Undisturbed(r) => PendingBelow(runs[r].session) = {}

(* The inductive invariant, together with RegistryInv.                     *)
TreeInv == GoodFile /\ GoodTimers /\ UnsettledSteers /\ GoodAims /\ NothingBelow

-----------------------------------------------------------------------------
(* The sessions that a session leads to: itself,                           *)
LEMMA LedToCloses ==
  ASSUME NEW s, NEW T
  PROVE  /\ s \in LedTo(s, T) /\ LedTo(s, T) \subseteq T \cup {s}
         /\ \A u \in T : arranged.requester[u] \in LedTo(s, T) => u \in LedTo(s, T)
BY DEF LedTo

(* and no more than a set that is closed in the same way.                  *)
LEMMA LedToIsLeast ==
  ASSUME NEW s, NEW T, NEW S, s \in S, \A u \in T : arranged.requester[u] \in S => u \in S
  PROVE  LedTo(s, T) \subseteq S
<1>. DEFINE R == S \cap (T \cup {s})
<1>1. R \in SUBSET (T \cup {s}) /\ s \in R
  OBVIOUS
<1>2. \A u \in T : arranged.requester[u] \in R => u \in R
  OBVIOUS
<1>. QED
  BY <1>1, <1>2 DEF LedTo

(* Whoever a session leads to was asked for by one that it leads to.       *)
LEMMA LedToByAnother ==
  ASSUME NEW s, NEW T, NEW p \in LedTo(s, T), p # s
  PROVE  p \in T /\ arranged.requester[p] \in LedTo(s, T)
<1>1. p \in T
  BY LedToCloses
<1>2. SUFFICES ASSUME arranged.requester[p] \notin LedTo(s, T) PROVE FALSE
  BY <1>1
<1>. DEFINE S == LedTo(s, T) \ {p}
<1>3. s \in S /\ \A u \in T : arranged.requester[u] \in S => u \in S
  BY <1>2, LedToCloses
<1>. HIDE DEF S
<1>4. LedTo(s, T) \subseteq S
  BY <1>3, LedToIsLeast
<1>. QED
  BY <1>4 DEF S

(* With more runs, more sessions.                                          *)
LEMMA LedToGrows ==
  ASSUME NEW s, NEW T, NEW U, T \subseteq U
  PROVE  LedTo(s, T) \subseteq LedTo(s, U)
<1>1. s \in LedTo(s, U) /\ \A u \in T : arranged.requester[u] \in LedTo(s, U) => u \in LedTo(s, U)
  BY LedToCloses
<1>. QED
  BY <1>1, LedToIsLeast

(* The sessions that a session ever leads to.                              *)
Tree(s) == LedTo(s, Sessions)

(* What a snapshot knows is of a session that has been asked for.          *)
LEMMA SnapshotIs ==
  ASSUME GoodRuns, NEW r \in Runs
  PROVE  /\ Snapshot[r] = (IF runs[r].listed THEN runs[r] ELSE disk[r]) /\ Sound(Snapshot[r])
         /\ Snapshot[r].listed => Snapshot[r].session \in Sessions
BY DEF GoodRuns, Good, Sound, Snapshot, Listed

(* Those that it leads to now are of them.                                 *)
LEMMA ReachedInTree ==
  ASSUME GoodRuns, NEW s
  PROVE  Reached(s) \subseteq Tree(s)
<1>1. {Snapshot[r].session : r \in Known} \subseteq Sessions
  BY SnapshotIs DEF Known
<1>. QED
  BY <1>1, LedToGrows DEF Reached, Tree

(* Of the runs that are or come below a session, none is new, and none     *)
(* that was through is not: then nothing below it is pending that was not. *)
LEMMA StillNothingBelow ==
  ASSUME GoodRuns, GoodRuns', arranged' = arranged, NEW s, PendingBelow(s) = {},
         \A x \in Runs : /\ Snapshot'[x].listed /\ Snapshot'[x].session \in Tree(s)
                         /\ arranged.requester[Snapshot'[x].session] \in Reached(s)
           => /\ Snapshot[x].listed /\ Snapshot'[x].session = Snapshot[x].session
              /\ Pending(x)' => Pending(x)
  PROVE  PendingBelow(s)' = {}
<1>. DEFINE T == {Snapshot[r].session : r \in Known}
            U == {Snapshot'[r].session : r \in Known'}
            L == Reached(s)
<1>1. ASSUME NEW x \in Known', arranged.requester[Snapshot'[x].session] \in L
      PROVE  /\ x \in Known /\ Snapshot'[x].session = Snapshot[x].session
             /\ Pending(x)' => Pending(x)
  <2>1. x \in Runs /\ Snapshot'[x].listed
    BY DEF Known
  <2>2. Snapshot'[x].session \in Sessions
    BY <2>1 DEF GoodRuns, Good, Sound, Snapshot, Listed
  <2>3. Snapshot'[x].session \in Tree(s)
    BY <1>1, <2>2, LedToCloses, ReachedInTree DEF Tree
  <2>. QED
    BY <1>1, <2>1, <2>3 DEF Known
<1>2. Reached(s)' = LedTo(s, U)
  BY DEF Reached, LedTo
<1>3. LedTo(s, U) \subseteq L
  <2>1. s \in L
    BY LedToCloses DEF Reached
  <2>2. ASSUME NEW u \in U, arranged.requester[u] \in L PROVE u \in L
    <3>1. PICK x \in Known' : u = Snapshot'[x].session
      OBVIOUS
    <3>2. x \in Known /\ u = Snapshot[x].session
      BY <1>1, <2>2, <3>1
    <3>. QED
      BY <2>2, <3>2, LedToCloses DEF Reached
  <2>. QED
    BY <2>1, <2>2, LedToIsLeast
<1>4. ASSUME NEW x, x \in PendingBelow(s)' PROVE FALSE
  <2>1. x \in Known' /\ arranged.requester[Snapshot'[x].session] \in Reached(s)' /\ Pending(x)'
    BY <1>4 DEF PendingBelow, Below
  <2>2. arranged.requester[Snapshot'[x].session] \in L
    BY <1>2, <1>3, <2>1
  <2>3. x \in Known /\ Snapshot'[x].session = Snapshot[x].session /\ Pending(x)
    BY <1>1, <2>1, <2>2
  <2>. QED
    BY <2>2, <2>3 DEF PendingBelow, Below
<1>. QED
  BY <1>4

-----------------------------------------------------------------------------
(* What a step does to a run that was not killed: its record e and its     *)
(* announcement f become x and g: nothing that was through is not,         *)
Mild(e, f, x, g) ==
  /\ x.session = e.session
  /\ x.listed => e.listed
  /\ e.ended # "no" => x.ended # "no"
  /\ e.settled => x.settled
  /\ x.suppressed = "killed" => e.suppressed = "killed"
  /\ g \in Coming => ~x.settled \/ (f \in Coming /\ (x.settled => e.settled))

(* and the file says so: its copy of the record was d and is y.            *)
AlikeInFile(y, x) ==
  /\ y.session = x.session /\ y.listed = x.listed /\ y.ended = x.ended
  /\ y.settled = x.settled /\ y.suppressed = x.suppressed
Written(e, d, x, y) == AlikeInFile(y, x) \/ (AlikeInFile(y, d) /\ (x.settled => e.settled))

(* One mild change after the other,                                        *)
LEMMA MildFurther ==
  ASSUME NEW e, NEW f, NEW b, NEW h, NEW x, NEW g, Mild(e, f, b, h), Mild(b, h, x, g)
  PROVE  Mild(e, f, x, g)
BY DEF Mild

(* A run that is resumed, and not given up while it is announced.          *)
LEMMA ResumedIsMild ==
  ASSUME NEW e \in Records, NEW f, NEW x, NEW g, Resumed(e, f, x, g),
         f \in Coming => (x.settled => e.settled)
  PROVE  Mild(e, f, x, g)
<1>1. CASE Alike(e, x) /\ g = f
  BY <1>1 DEF Alike, Mild
<1>2. CASE Alike(Unlisted(e), x) /\ g = f
  BY <1>2, UnlistedIs DEF Alike, Mild
<1>3. CASE Alike([e EXCEPT !.settled = TRUE], x) /\ g = f
  BY <1>3 DEF Alike, Mild, Records
<1>4. CASE Alike([e EXCEPT !.handled = TRUE], x) /\ g = "begun" /\ MayBegin(e)
  BY <1>4 DEF Alike, Mild, Records, MayBegin
<1>. QED
  BY <1>1, <1>2, <1>3, <1>4 DEF Resumed

(* What Resume gives up.                                                   *)
GivesUp(e) == e.retries >= MaxRetries \/ (e.session \notin arranged.completion /\ e.old)

(* It settles none but those, and sets timers for no others than the runs  *)
(* whose requester expects a message.                                      *)
LEMMA ResumeGivesUp ==
  ASSUME NEW R \in SUBSET Runs, NEW b, NEW saved, Resume(R, b, saved),
         \A r \in Runs : b.runs[r] \in Records
  PROVE  /\ \A r \in Runs : runs'[r].settled => b.runs[r].settled \/ (r \in R /\ GivesUp(b.runs[r]))
         /\ \A r \in Runs : runs'[r].retries = b.runs[r].retries
         /\ \A r \in backoffTimers' : r \in b.timers \/ (r \in R /\ b.runs[r].session \in arranged.completion)
<1> DEFINE fate == [r \in R |-> IF r \in b.resumed THEN "nothing" ELSE Fate(b.runs[r])]
           ones(what) == {r \in R : fate[r] = what}
<1>1. /\ runs' = [r \in Runs |->
                   IF r \in ones("orphan") THEN Unlisted(b.runs[r])
                   ELSE [b.runs[r] EXCEPT !.settled = @ \/ r \in ones("give up"),
                                     !.handled = @ \/ r \in ones("announce")]]
      /\ backoffTimers' = b.timers \cup ones("back off")
  BY DEF Resume
<1>. HIDE DEF fate
<1>2. \A r \in R : fate[r] \in {"give up", "back off"} => fate[r] = Fate(b.runs[r])
  BY DEF fate
<1>3. ASSUME NEW e \in Records
      PROVE  /\ Fate(e) = "give up" => GivesUp(e)
             /\ Fate(e) = "back off" => e.session \in arranged.completion
  BY DEF Fate, GivesUp
<1>4. ASSUME NEW r \in Runs
      PROVE  /\ runs'[r].settled => b.runs[r].settled \/ (r \in R /\ GivesUp(b.runs[r]))
             /\ runs'[r].retries = b.runs[r].retries
  <2>0. b.runs[r] \in Records
    OBVIOUS
  <2>1. CASE r \in ones("orphan")
    BY <1>1, <2>0, <2>1, UnlistedIs
  <2>2. CASE r \notin ones("orphan")
    <3>1. PICK p \in BOOLEAN, q \in BOOLEAN :
             /\ p = (b.runs[r].settled \/ r \in ones("give up"))
             /\ q = (b.runs[r].handled \/ r \in ones("announce"))
      OBVIOUS
    <3>2. runs'[r] = [b.runs[r] EXCEPT !.settled = p, !.handled = q]
      BY <1>1, <2>2, <3>1
    <3>3. runs'[r].settled = p /\ runs'[r].retries = b.runs[r].retries
      BY <2>0, <3>2 DEF Records
    <3>4. r \in ones("give up") => r \in R /\ GivesUp(b.runs[r])
      BY <1>2, <1>3, <2>0
    <3>. QED
      BY <3>1, <3>3, <3>4
  <2>. QED
    BY <2>1, <2>2
<1>5. ASSUME NEW r \in backoffTimers'
      PROVE  r \in b.timers \/ (r \in R /\ b.runs[r].session \in arranged.completion)
  BY <1>1, <1>2, <1>3
<1>. QED
  BY <1>4, <1>5

(* A step that is mild to every run that has not been killed, and looks    *)
(* only below a run that has nothing pending below it.                     *)
Steady ==
  /\ arranged' = arranged /\ exempt \subseteq exempt'
  /\ \A r \in Runs : runs'[r].session = runs[r].session /\ disk'[r].session = runs[r].session
  /\ \A r \in Runs : Unmarked(r)' =>
        Mild(runs[r], flow[r], runs'[r], flow'[r]) /\ Written(runs[r], disk[r], runs'[r], disk'[r])

(* No run looks below while something is pending there.                    *)
LooksFirst ==
  \A r \in Runs : flow'[r] \in Looked => flow[r] \in Looked \/ PendingBelow(runs[r].session) = {}

(* The file keeps up with it,                                              *)
LEMMA SteadyFiles ==
  ASSUME GoodFile, Steady
  PROVE  GoodFile'
<1>. SUFFICES ASSUME NEW r \in Runs
              PROVE  /\ disk'[r].session = runs'[r].session
                     /\ Unmarked(r)' => Filed(runs'[r], disk'[r], flow'[r])
  BY DEF GoodFile
<1>1. disk'[r].session = runs'[r].session
  BY DEF Steady
<1>2. ASSUME Unmarked(r)' PROVE Filed(runs'[r], disk'[r], flow'[r])
  <2>1. PICK e, d, f, x, y, g : /\ e = runs[r] /\ d = disk[r] /\ f = flow[r]
                                /\ x = runs'[r] /\ y = disk'[r] /\ g = flow'[r]
    OBVIOUS
  <2>2. Filed(e, d, f) /\ Mild(e, f, x, g) /\ Written(e, d, x, y)
    BY <1>2, <2>1 DEF GoodFile, Steady, Unmarked
  <2>3. Filed(x, y, g)
    BY <2>2 DEF Filed, Mild, Written, AlikeInFile
  <2>. QED
    BY <2>1, <2>3
<1>. QED
  BY <1>1, <1>2

(* so that a snapshot has nothing new,                                     *)
LEMMA SteadySnapshot ==
  ASSUME GoodRuns, GoodRuns', GoodFile, Steady, NEW r \in Runs, Unmarked(r)',
         Snapshot'[r].listed
  PROVE  /\ Snapshot[r].listed /\ Snapshot'[r].session = Snapshot[r].session
         /\ Pending(r)' => Pending(r)
<1>1. PICK e, d, f, x, y, g : /\ e = runs[r] /\ d = disk[r] /\ f = flow[r]
                              /\ x = runs'[r] /\ y = disk'[r] /\ g = flow'[r]
  OBVIOUS
<1>2. Filed(e, d, f) /\ d.session = e.session /\ Mild(e, f, x, g) /\ Written(e, d, x, y)
  BY <1>1 DEF GoodFile, Steady, Unmarked
<1>3. Sound(e) /\ Sound(d) /\ Sound(x) /\ Sound(y)
  BY <1>1 DEF GoodRuns, Good
<1>4. /\ Snapshot[r] = (IF e.listed THEN e ELSE d) /\ Snapshot'[r] = IF x.listed THEN x ELSE y
  BY <1>1 DEF Snapshot, Listed
<1>5. PICK S1, S2 : S1 = Snapshot[r] /\ S2 = Snapshot'[r]
  OBVIOUS
<1>6. S1 = (IF e.listed THEN e ELSE d) /\ S2 = (IF x.listed THEN x ELSE y) /\ S2.listed
  BY <1>4, <1>5
<1>7. /\ S1.listed /\ S2.session = S1.session
      /\ S1.ended # "no" /\ S1.settled => S2.ended # "no" /\ S2.settled
  <2>1. CASE x.listed
    BY <1>2, <1>6, <2>1 DEF Mild
  <2>2. CASE ~x.listed /\ AlikeInFile(y, d)
    BY <1>2, <1>3, <1>6, <2>2 DEF Mild, AlikeInFile, Filed, Sound
  <2>3. CASE ~x.listed /\ AlikeInFile(y, x)
    BY <1>6, <2>3 DEF AlikeInFile
  <2>. QED
    BY <1>2, <2>1, <2>2, <2>3 DEF Written
<1>8. e \in Records /\ d \in Records /\ x \in Records /\ y \in Records
  BY <1>3 DEF Sound
<1>9. S1.settled \in BOOLEAN /\ S2.settled \in BOOLEAN
  BY <1>6, <1>8 DEF Records
<1>. QED
  BY <1>5, <1>7, <1>9 DEF Pending

(* and nothing new is pending below a run that has looked.                 *)
LEMMA SteadyBelow ==
  ASSUME RegistryInv, RegistryInv', GoodFile, Steady, LooksFirst, NothingBelow
  PROVE  NothingBelow'
<1>. SUFFICES ASSUME NEW r \in Runs, flow'[r] \in Looked, Undisturbed(r)'
              PROVE  (PendingBelow(runs[r].session) = {})'
  BY DEF NothingBelow
<1>0. GoodRuns /\ GoodRuns'
  BY DEF RegistryInv
<1>1. PICK s : s = runs[r].session
  OBVIOUS
<1>2. runs'[r].session = s
  BY <1>1 DEF Steady
<1>3. Tree(s)' = Tree(s)
  BY DEF Tree, LedTo, Steady
<1>4. \A x \in Runs : runs'[x].session \in Tree(s) =>
         {<<"late", x>>, <<"killed", x>>, <<"steered", x>>} \cap exempt' = {}
  BY <1>2, <1>3 DEF Undisturbed, Tree
<1>5. Undisturbed(r)
  BY <1>1, <1>4 DEF Undisturbed, Tree, Steady
<1>6. PendingBelow(s) = {}
  BY <1>1, <1>5 DEF NothingBelow, LooksFirst
<1>7. ASSUME NEW x \in Runs, Snapshot'[x].listed, Snapshot'[x].session \in Tree(s)
      PROVE  /\ Snapshot[x].listed /\ Snapshot'[x].session = Snapshot[x].session
             /\ Pending(x)' => Pending(x)
  <2>1. Snapshot'[x].session = runs'[x].session
    BY DEF Snapshot, Steady, Listed
  <2>2. Unmarked(x)'
    BY <1>4, <1>7, <2>1 DEF Unmarked
  <2>. QED
    BY <1>0, <1>7, <2>2, SteadySnapshot
<1>8. PendingBelow(s)' = {}
  BY <1>0, <1>6, <1>7, StillNothingBelow DEF Steady
<1>. QED
  BY <1>2, <1>8 DEF PendingBelow, Below, Reached

-----------------------------------------------------------------------------
(* What the invariant needs of a step that records nothing.                *)
Moves == Steady /\ LooksFirst /\ GoodTimers' /\ UnsettledSteers' /\ GoodAims'

(* Such a step keeps the invariant.                                        *)
LEMMA MovesKeep ==
  ASSUME RegistryInv, RegistryInv', TreeInv, Moves
  PROVE  TreeInv'
BY SteadyFiles, SteadyBelow DEF TreeInv, Moves

(* The file is written, or knows already.                                  *)
LEMMA WritesAll ==
  ASSUME GoodFile, \A r \in Runs : runs'[r].session = runs[r].session,
         \/ disk' = runs'
         \/ /\ disk' = disk
            /\ \A r \in Runs : Unmarked(r)' => (runs'[r].settled => runs[r].settled)
  PROVE  /\ \A r \in Runs : disk'[r].session = runs'[r].session
         /\ \A r \in Runs : Unmarked(r)' =>
               Written(runs[r], disk[r], runs'[r], disk'[r])
BY DEF GoodFile, Written, AlikeInFile

(* The parts of the invariant that are not about the tree: timers,         *)
LEMMA TimersStay ==
  ASSUME GoodTimers, arranged' = arranged, \A r \in Runs : runs'[r].session = runs[r].session,
         retryTimers' \cup backoffTimers' \subseteq Runs,
         \A r \in retryTimers' \cup backoffTimers' : r \in retryTimers \cup backoffTimers \/ Completion(r)
  PROVE  GoodTimers'
BY DEF GoodTimers, Completion

(* steers,                                                                 *)
LEMMA SteersStay ==
  ASSUME UnsettledSteers, exempt \subseteq exempt',
         \A s \in Steers, r \in Runs : steering'[s] = r /\ Unmarked(r)' =>
            /\ steering[s] = r
            /\ runs'[r].settled => runs[r].settled
            /\ runs'[r].retries = runs[r].retries
  PROVE  UnsettledSteers'
BY DEF UnsettledSteers, Unmarked

(* and launches.                                                           *)
LEMMA AimsStay ==
  ASSUME GoodAims, GoodLaunches, launches' \subseteq launches,
         \A r \in Runs : runs'[r].session = runs[r].session,
         \A r \in Runs : child'[r] = "none" => child[r] = "none",
         \A l \in launches' : l.how \in Steers => steering'[l.how] = steering[l.how]
  PROVE  GoodAims'
<1>1. \A l \in launches : l.run \in Runs
  BY DEF GoodLaunches
<1>. QED
  BY <1>1 DEF GoodAims

(* A step of runs that are not recorded, and of no steer.                  *)
LEMMA MovesIf ==
  ASSUME RegistryInv, RegistryInv', TreeInv, arranged' = arranged, exempt \subseteq exempt',
         \A r \in Runs : runs'[r].session = runs[r].session,
         \A r \in Runs : Unmarked(r)' => Mild(runs[r], flow[r], runs'[r], flow'[r]),
         \A r \in Runs : disk'[r].session = runs'[r].session,
         \A r \in Runs : Unmarked(r)' =>
            Written(runs[r], disk[r], runs'[r], disk'[r]),
         \A r \in Runs : flow'[r] \in Looked => flow[r] \in Looked \/ PendingBelow(runs[r].session) = {},
         \A r \in retryTimers' \cup backoffTimers' : r \in retryTimers \cup backoffTimers \/ Completion(r),
         \A s \in Steers, r \in Runs : steering'[s] = r /\ Unmarked(r)' =>
            /\ steering[s] = r
            /\ runs'[r].settled => runs[r].settled
            /\ runs'[r].retries = runs[r].retries,
         GoodAims'
  PROVE  TreeInv'
<1>1. Steady
  BY DEF Steady
<1>2. LooksFirst
  BY DEF LooksFirst
<1>3. retryTimers' \cup backoffTimers' \subseteq Runs
  BY DEF RegistryInv, Types
<1>4. GoodTimers'
  BY <1>3, TimersStay DEF TreeInv
<1>5. UnsettledSteers'
  BY SteersStay DEF TreeInv
<1>. QED
  BY <1>1, <1>2, <1>4, <1>5, MovesKeep DEF Moves

(* The gateway accepts a run.                                              *)
LEMMA AcceptAims ==
  ASSUME RegistryInv, TreeInv, NEW n, NEW s, NEW prev, NEW how, Accept(n, s, prev, how),
         runs' = runs, steering' = steering,
         how = "spawn" => prev = NoRun,
         how # "spawn" => prev \in Runs /\ runs[prev].session = s,
         how \in Steers => steering[how] = prev /\ \A l \in launches : l.how # how
  PROVE  GoodAims'
<1>1. n \in Runs /\ child[n] = "none" /\ child' = [child EXCEPT ![n] = "runs"]
  BY NextRuns DEF Accept, RegistryInv, Types
<1>2. \A r \in Runs : child'[r] = "none" => child[r] = "none"
  BY <1>1 DEF RegistryInv, Types
<1>3. launches' = launches \cup {[run |-> n, session |-> s, prev |-> prev, how |-> how]}
  BY DEF Accept
<1>. QED
  BY <1>1, <1>2, <1>3 DEF TreeInv, GoodAims

(* Steps that leave records, file, timers and steers alone.                *)
LEMMA OnlyFlow ==
  ASSUME RegistryInv, RegistryInv', TreeInv, GoodAims', exempt \subseteq exempt',
         \A r \in Runs : /\ flow'[r] \in Coming => flow[r] \in Coming
                         /\ flow'[r] \in Looked => flow[r] \in Looked \/ PendingBelow(runs[r].session) = {},
         UNCHANGED <<arranged, runs, disk, retryTimers, backoffTimers, steering>>
  PROVE  TreeInv'
<1>1. \A r \in Runs : Mild(runs[r], flow[r], runs'[r], flow'[r])
  BY DEF Mild
<1>2. \A r \in Runs : /\ disk'[r].session = runs'[r].session
                      /\ Written(runs[r], disk[r], runs'[r], disk'[r])
  BY DEF TreeInv, GoodFile, Written, AlikeInFile
<1>. QED
  BY <1>1, <1>2, MovesIf

(* Launches of a step without one.                                         *)
LEMMA AimsAsBefore ==
  ASSUME RegistryInv, TreeInv, launches' = launches, runs' = runs, steering' = steering,
         \A r \in Runs : child'[r] = "none" => child[r] = "none"
  PROVE  GoodAims'
BY AimsStay DEF RegistryInv, TreeInv

(* Nothing happens.                                                        *)
LEMMA StillTree ==
  ASSUME RegistryInv, RegistryInv', TreeInv, UNCHANGED vars
  PROVE  TreeInv'
<1>1. GoodAims'
  BY AimsAsBefore DEF vars, memoryVars
<1>. QED
  BY <1>1, OnlyFlow DEF vars, memoryVars

(* A spawn, a steer or a wake is accepted by the gateway.                  *)
LEMMA SpawnTree ==
  ASSUME RegistryInv, RegistryInv', TreeInv, NEW s \in Sessions, Spawn(s)
  PROVE  TreeInv'
<1>1. PICK n \in NextRun : Accept(n, s, NoRun, "spawn")
  BY DEF Spawn
<1>2. GoodAims'
  BY <1>1, AcceptAims, Constants DEF Spawn
<1>. QED
  BY <1>2, OnlyFlow DEF Spawn

(* The run that replaces a steered one.                                    *)
LEMMA SteerLaunchesTree ==
  ASSUME RegistryInv, RegistryInv', TreeInv, NEW s \in Steers, SteerLaunches(s)
  PROVE  TreeInv'
<1>1. PICK r : r = steering[s] /\ r # NoRun
  BY DEF SteerLaunches
<1>2. r \in Runs
  BY <1>1 DEF RegistryInv, GoodSteers
<1>3. PICK n \in NextRun : Accept(n, runs[r].session, r, s)
  BY <1>1 DEF SteerLaunches
<1>4. GoodAims'
  BY <1>1, <1>2, <1>3, AcceptAims, Constants DEF SteerLaunches
<1>. QED
  BY <1>4, OnlyFlow DEF SteerLaunches

(* The run that wakes its session, or no run.                              *)
LEMMA WakesTree ==
  ASSUME RegistryInv, RegistryInv', TreeInv, NEW r \in Runs, Wakes(r)
  PROVE  TreeInv'
<1>1. PICK g \in {"woken", "delivering"} : flow' = [flow EXCEPT ![r] = g]
  BY DEF Wakes
<1>2. GoodAims'
  <2>1. CASE \E n \in NextRun : Accept(n, runs[r].session, r, "wake")
    <3>1. PICK n \in NextRun : Accept(n, runs[r].session, r, "wake")
      BY <2>1
    <3>. QED
      BY <3>1, AcceptAims, Constants DEF Wakes
  <2>2. CASE UNCHANGED <<child, launches>>
    BY <2>2, AimsAsBefore DEF Wakes
  <2>. QED
    BY <2>1, <2>2 DEF Wakes
<1>3. \A x \in Runs : /\ flow'[x] \in Coming => flow[x] \in Coming
                      /\ flow'[x] \in Looked => flow[x] \in Looked
  BY <1>1 DEF Wakes, RegistryInv, Types, Coming, Looked
<1>. QED
  BY <1>2, <1>3, OnlyFlow DEF Wakes

(* Announcements: only one that has found nothing pending goes on.         *)
LEMMA FlowTree ==
  ASSUME RegistryInv, RegistryInv', TreeInv, NEW r \in Runs,
         Looks(r) \/ StillActive(r) \/ Delivers(r)
  PROVE  TreeInv'
<1>1. GoodAims'
  BY AimsAsBefore DEF Looks, StillActive, Delivers
<1>2. ASSUME NEW x \in Runs
      PROVE  /\ flow'[x] \in Coming => flow[x] \in Coming
             /\ flow'[x] \in Looked => flow[x] \in Looked \/ PendingBelow(runs[x].session) = {}
  <2>1. CASE Looks(r)
    <3>1. /\ flow'[r] \in {"true", "false", "waking", "delivering"} /\ flow[r] = "begun"
          /\ flow'[r] \in {"waking", "delivering"} => Ready(r)
          /\ x # r => flow'[x] = flow[x]
      BY <2>1 DEF Looks, RegistryInv, Types
    <3>. QED
      BY <3>1 DEF Coming, Looked, Ready
  <2>2. CASE StillActive(r)
    BY <2>2 DEF StillActive, RegistryInv, Types, Coming, Looked
  <2>3. CASE Delivers(r)
    <3>1. flow'[r] \in {"true", "false"} /\ (x # r => flow'[x] = flow[x])
      BY <2>3 DEF Delivers, RegistryInv, Types
    <3>. QED
      BY <3>1 DEF Coming, Looked
  <2>. QED
    BY <2>1, <2>2, <2>3
<1>3. exempt \subseteq exempt'
  BY DEF Looks, StillActive, Delivers
<1>4. UNCHANGED <<arranged, runs, disk, retryTimers, backoffTimers, steering>>
  BY DEF Looks, StillActive, Delivers
<1>. QED
  BY <1>1, <1>2, <1>3, <1>4, OnlyFlow

(* Lifecycle events that complete nothing.                                 *)
LEMMA ChildTree ==
  ASSUME RegistryInv, RegistryInv', TreeInv, NEW r \in Runs, ChildErrs(r) \/ ChildRetries(r)
  PROVE  TreeInv'
<1>1. GoodAims'
  BY AimsAsBefore DEF ChildErrs, ChildRetries, RegistryInv, Types
<1>. QED
  BY <1>1, OnlyFlow DEF ChildErrs, ChildRetries

(* What RegistryInv says of a run.                                         *)
LEMMA RecordOf ==
  ASSUME RegistryInv, NEW r \in Runs
  PROVE  /\ runs[r] \in Records /\ disk[r] \in Records /\ Sound(runs[r]) /\ Sound(disk[r])
         /\ flow[r] \in Before \cup {"true"} => runs[r].retries < MaxRetries
         /\ flow[r] # "none" => runs[r].ended # "no" /\ runs[r].handled /\ runs[r].session \in Sessions
BY DEF RegistryInv, GoodRuns, Good, Sound, Begun

(* A run whose record and announcement stay.                               *)
LEMMA Unmoved ==
  ASSUME NEW e, NEW f, NEW d
  PROVE  Mild(e, f, e, f) /\ Written(e, d, e, d) /\ Written(e, d, e, e)
BY DEF Mild, Written, AlikeInFile

(* The sweeper writes the file,                                            *)
LEMMA SweepEndsTree ==
  ASSUME RegistryInv, RegistryInv', TreeInv, SweepEnds
  PROVE  TreeInv'
<1>1. GoodAims'
  BY AimsAsBefore DEF SweepEnds
<1>2. \A r \in Runs : /\ Mild(runs[r], flow[r], runs'[r], flow'[r])
                      /\ Written(runs[r], disk[r], runs'[r], disk'[r])
  BY Unmoved DEF SweepEnds
<1>. QED
  BY <1>1, <1>2, MovesIf DEF SweepEnds

(* and takes out a run,                                                    *)
LEMMA SweepsTree ==
  ASSUME RegistryInv, RegistryInv', TreeInv, NEW r \in Runs, Sweeps(r)
  PROVE  TreeInv'
<1>1. ASSUME NEW x \in Runs
      PROVE  /\ runs'[x].session = runs[x].session /\ runs'[x].settled = runs[x].settled
             /\ runs'[x].retries = runs[x].retries
             /\ Mild(runs[x], flow[x], runs'[x], flow'[x])
  <2>1. runs' = [runs EXCEPT ![r] = Unlisted(@)] /\ flow' = flow
    BY DEF Sweeps, Unlisted
  <2>2. runs'[x] = runs[x] \/ runs'[x] = Unlisted(runs[x])
    BY <2>1 DEF RegistryInv, Types
  <2>3. runs[x] \in Records
    BY RecordOf
  <2>. QED
    BY <2>1, <2>2, <2>3, UnlistedIs DEF Mild
<1>2. GoodAims'
  BY <1>1, AimsStay DEF Sweeps, RegistryInv, TreeInv
<1>3. disk' = disk /\ GoodFile
  BY DEF Sweeps, TreeInv
<1>4. /\ \A x \in Runs : disk'[x].session = runs'[x].session
      /\ \A x \in Runs : Unmarked(x)' => Written(runs[x], disk[x], runs'[x], disk'[x])
  BY <1>1, <1>3, WritesAll
<1>. QED
  BY <1>1, <1>2, <1>4, MovesIf DEF Sweeps

(* Time passes.                                                            *)
LEMMA AgesTree ==
  ASSUME RegistryInv, RegistryInv', TreeInv, NEW r \in Runs, Ages(r)
  PROVE  TreeInv'
<1>1. ASSUME NEW x \in Runs
      PROVE  /\ AlikeInFile(runs'[x], runs[x]) /\ runs'[x].retries = runs[x].retries
             /\ AlikeInFile(disk'[x], disk[x])
  <2>1. /\ runs'[x] = runs[x] \/ \E v : runs'[x] = [runs[x] EXCEPT !.old = v]
        /\ disk'[x] = disk[x] \/ \E v : disk'[x] = [disk[x] EXCEPT !.old = v]
    BY DEF Ages, RegistryInv, Types
  <2>2. runs[x] \in Records /\ disk[x] \in Records
    BY RecordOf
  <2>4. PICK e, d, y, z : e = runs[x] /\ d = disk[x] /\ y = runs'[x] /\ z = disk'[x]
    OBVIOUS
  <2>5. /\ e \in Records /\ d \in Records
        /\ y = e \/ \E v : y = [e EXCEPT !.old = v]
        /\ z = d \/ \E v : z = [d EXCEPT !.old = v]
    BY <2>1, <2>2, <2>4
  <2>6. AlikeInFile(y, e) /\ y.retries = e.retries /\ AlikeInFile(z, d)
    BY <2>5 DEF AlikeInFile, Records
  <2>. QED
    BY <2>4, <2>6
<1>2. flow' = flow
  BY DEF Ages, memoryVars
<1>3. \A x \in Runs : /\ runs'[x].session = runs[x].session /\ runs'[x].settled = runs[x].settled
                      /\ Mild(runs[x], flow[x], runs'[x], flow'[x])
                      /\ Written(runs[x], disk[x], runs'[x], disk'[x])
                      /\ disk'[x].session = runs'[x].session
  BY <1>1, <1>2 DEF AlikeInFile, Mild, Written, TreeInv, GoodFile
<1>4. GoodAims'
  BY <1>3, AimsStay DEF Ages, memoryVars, RegistryInv, TreeInv
<1>. QED
  BY <1>1, <1>3, <1>4, MovesIf DEF Ages, memoryVars

(* A steer marks a run that has not ended, hence is not settled.           *)
LEMMA SteerMarksTree ==
  ASSUME RegistryInv, RegistryInv', TreeInv, NEW s \in Steers, NEW r \in Runs, SteerMarks(s, r)
  PROVE  TreeInv'
<1>1. /\ runs' = [runs EXCEPT ![r].suppressed = "steer"] /\ disk' = runs' /\ flow' = flow
      /\ steering[s] = NoRun /\ steering' = [steering EXCEPT ![s] = r] /\ ~Ended(r)
      /\ launches' = launches /\ exempt \subseteq exempt'
      /\ UNCHANGED <<arranged, retryTimers, backoffTimers>>
  BY DEF SteerMarks
<1>2. ASSUME NEW x \in Runs
      PROVE  /\ runs'[x].session = runs[x].session /\ runs'[x].settled = runs[x].settled
             /\ runs'[x].retries = runs[x].retries
             /\ Mild(runs[x], flow[x], runs'[x], flow'[x])
  <2>1. runs'[x] = runs[x] \/ runs'[x] = [runs[x] EXCEPT !.suppressed = "steer"]
    BY <1>1 DEF RegistryInv, Types
  <2>2. runs[x] \in Records
    BY RecordOf
  <2>. QED
    BY <1>1, <2>1, <2>2 DEF Mild, Records
<1>3. /\ \A x \in Runs : disk'[x].session = runs'[x].session
      /\ \A x \in Runs : Unmarked(x)' => Written(runs[x], disk[x], runs'[x], disk'[x])
  BY <1>1, <1>2, WritesAll DEF TreeInv
<1>4. Steady /\ LooksFirst
  BY <1>1, <1>2, <1>3 DEF Steady, LooksFirst
<1>5. GoodTimers'
  BY <1>1, <1>2, TimersStay DEF TreeInv, RegistryInv, Types
<1>6. UnsettledSteers'
  <2>. SUFFICES ASSUME NEW t \in Steers, NEW x \in Runs, steering'[t] = x, Unmarked(x)'
                PROVE  ~runs'[x].settled /\ runs'[x].retries = 0
    BY DEF UnsettledSteers
  <2>1. CASE t = s
    <3>1. x = r
      BY <1>1, <2>1 DEF RegistryInv, GoodSteers
    <3>2. ~runs[r].settled /\ runs[r].retries = 0
      BY <1>1, RecordOf DEF Sound, Ended
    <3>. QED
      BY <1>2, <3>1, <3>2
  <2>2. CASE t # s
    <3>1. steering[t] = x /\ Unmarked(x)
      BY <1>1, <2>2 DEF RegistryInv, GoodSteers, Unmarked
    <3>. QED
      BY <1>2, <3>1 DEF TreeInv, UnsettledSteers
  <2>. QED
    BY <2>1, <2>2
<1>7. GoodAims'
  <2>1. \A x \in Runs : child'[x] = "none" => child[x] = "none"
    BY AbortedIs DEF SteerMarks
  <2>2. ASSUME NEW l \in launches', l.how \in Steers PROVE steering'[l.how] = steering[l.how]
    <3>1. steering[l.how] = l.prev /\ l.prev \in Runs
      BY <1>1, <2>2, Constants DEF TreeInv, GoodAims
    <3>2. l.how # s
      BY <1>1, <3>1, Constants
    <3>. QED
      BY <1>1, <2>2, <3>2 DEF RegistryInv, GoodSteers
  <2>. QED
    BY <1>1, <1>2, <2>1, <2>2, AimsStay DEF RegistryInv, TreeInv
<1>. QED
  BY <1>4, <1>5, <1>6, <1>7, MovesKeep DEF Moves

(* A kill ends and settles at once, and leaves its mark.                   *)
LEMMA KillTree ==
  ASSUME RegistryInv, RegistryInv', TreeInv, NEW s \in Sessions, Kill(s)
  PROVE  TreeInv'
<1>. DEFINE here == {r \in Runs : Listed(r) /\ runs[r].session = s}
            killed == {r \in here : ~Ended(r)}
<1>1. /\ runs' = [r \in Runs |-> IF r \in killed
                THEN [runs[r] EXCEPT !.ended = "killed", !.suppressed = "killed",
                                     !.handled = TRUE, !.settled = TRUE]
                ELSE runs[r]]
      /\ disk' = runs' /\ child' = Aborted(killed) /\ flow' = flow
      /\ exempt' = exempt \cup {<<"killed", r>> : r \in killed}
      /\ UNCHANGED <<arranged, launches, retryTimers, backoffTimers, steering>>
  BY DEF Kill
<1>. HIDE DEF killed
<1>2. ASSUME NEW x \in Runs
      PROVE  /\ runs'[x].session = runs[x].session
             /\ Unmarked(x)' => runs'[x] = runs[x]
  <2>1. runs[x] \in Records
    BY RecordOf
  <2>. QED
    <3>1. Unmarked(x)' => x \notin killed
      BY <1>1 DEF Unmarked
    <3>2. runs'[x].session = runs[x].session
      BY <1>1, <2>1 DEF Records
    <3>. QED
      BY <1>1, <3>1, <3>2
<1>3. \A x \in Runs : Unmarked(x)' =>
        Mild(runs[x], flow[x], runs'[x], flow'[x]) /\ Written(runs[x], disk[x], runs'[x], disk'[x])
  BY <1>1, <1>2, Unmoved
<1>4. \A x \in Runs : Unmarked(x)' => runs'[x] = runs[x]
  BY <1>2 DEF Unmarked
<1>5. \A x \in Runs : child'[x] = "none" => child[x] = "none"
  BY <1>1, AbortedIs
<1>6. GoodAims'
  BY <1>1, <1>2, <1>5, AimsStay DEF RegistryInv, TreeInv
<1>. QED
  BY <1>1, <1>2, <1>3, <1>4, <1>6, MovesIf

(* A run that completes.                                                   *)
LEMMA CompleteTree ==
  ASSUME RegistryInv, RegistryInv', TreeInv, NEW r \in Runs, NEW how \in {"ok", "error"},
         NEW by, Complete(r, how, by),
         \/ disk' = disk
         \/ Listed(r) /\ disk' = [runs EXCEPT ![r] = EndedAs(@, how, by)],
         \A x \in Runs : child'[x] = "none" => child[x] = "none",
         UNCHANGED <<arranged, launches, retryTimers, backoffTimers, flow, steering, exempt>>
  PROVE  TreeInv'
<1>h. runs = [x \in Runs |-> runs[x]] /\ disk = [x \in Runs |-> disk[x]]
  BY DEF RegistryInv, Types
<1>1. ASSUME NEW x \in Runs
      PROVE  /\ runs'[x].session = runs[x].session
             /\ disk'[x].session = runs'[x].session
             /\ Unmarked(x)' =>
                  /\ runs'[x].settled = runs[x].settled /\ runs'[x].retries = runs[x].retries
                  /\ Mild(runs[x], flow[x], runs'[x], flow'[x])
                  /\ Written(runs[x], disk[x], runs'[x], disk'[x])
  <2>. DEFINE e == runs[x]
  <2>0. e \in Records /\ disk[x].session = e.session
    BY RecordOf DEF TreeInv, GoodFile
  <2>1. CASE runs'[x] = e /\ disk'[x] \in {disk[x], e}
    BY <2>0, <2>1, Unmoved
  <2>2. CASE /\ runs'[x] = EndedAs(Lifted(e, how), how, by)
             /\ disk'[x] \in {disk[x], EndedAs(e, how, by)}
    <3>1. PICK y : y = EndedAs(e, how, by)
      OBVIOUS
    <3>2. /\ y.session = e.session /\ y.listed = e.listed /\ y.ended = how
          /\ y.suppressed = e.suppressed /\ y.settled = e.settled /\ y.retries = e.retries
      BY <2>0, <3>1, EndedIs
    <3>3. Lifted(e, how) \in Records /\ Lifted(e, how).session = e.session
      <4>1. PICK z : z = e
        OBVIOUS
      <4>2. z \in Records
        BY <2>0, <4>1
      <4>. HIDE DEF e
      <4>3. \/ Lifted(e, how) = z
            \/ Lifted(e, how) = [z EXCEPT !.suppressed = "no", !.handled = FALSE, !.settled = FALSE]
        BY <4>1 DEF Lifted
      <4>. QED
        BY <4>1, <4>2, <4>3 DEF Records
    <3>4. runs'[x].session = e.session
      BY <2>2, <3>3, EndedIs
    <3>5. Unmarked(x)' => runs'[x] = y
      BY <2>2, <3>1 DEF TreeInv, GoodFile, Filed, Lifted, Unmarked
    <3>6. disk'[x] \in {disk[x], y}
      BY <2>2, <3>1
    <3>7. flow'[x] = flow[x]
      OBVIOUS
    <3>8. Mild(e, flow[x], y, flow[x]) /\ Written(e, disk[x], y, disk[x]) /\ Written(e, disk[x], y, y)
      BY <3>2 DEF Mild, Written, AlikeInFile
    <3>. QED
      BY <2>0, <3>2, <3>4, <3>5, <3>6, <3>7, <3>8
  <2>3. \/ runs'[x] = e /\ disk'[x] \in {disk[x], e}
        \/ /\ runs'[x] = EndedAs(Lifted(e, how), how, by)
           /\ disk'[x] \in {disk[x], EndedAs(e, how, by)}
    BY <1>h DEF Complete
  <2>. QED
    BY <2>1, <2>2, <2>3
<1>2. \A x \in Runs : Unmarked(x)' =>
        /\ runs'[x].settled => runs[x].settled
        /\ runs'[x].retries = runs[x].retries
  BY <1>1 DEF Unmarked
<1>3. GoodAims'
  BY <1>1, AimsStay DEF RegistryInv, TreeInv
<1>. QED
  BY <1>1, <1>2, <1>3, MovesIf

(* Whatever brings the end of a run.                                       *)
LEMMA CompletionTree ==
  ASSUME RegistryInv, RegistryInv', TreeInv, NEW r \in Runs,
         ChildEnds(r) \/ GraceEnds(r) \/ WaitReturns(r) \/ WaitTimesOut(r)
  PROVE  TreeInv'
<1>1. CASE ChildEnds(r)
  <2>1. \A x \in Runs : child'[x] = "none" => child[x] = "none"
    BY <1>1 DEF ChildEnds, RegistryInv, Types
  <2>. QED
    BY <1>1, <2>1, CompleteTree DEF ChildEnds
<1>2. CASE GraceEnds(r)
  <2>1. CASE runs' = runs
    <3>1. GoodAims'
      BY <1>2, <2>1, AimsAsBefore DEF GraceEnds
    <3>. QED
      BY <1>2, <2>1, <3>1, OnlyFlow DEF GraceEnds
  <2>2. CASE Complete(r, "error", "grace")
    BY <1>2, <2>2, CompleteTree DEF GraceEnds
  <2>. QED
    BY <1>2, <2>1, <2>2 DEF GraceEnds
<1>3. ASSUME NEW how \in {"ok", "error", "fails"}, WaitAnswers(r, how) PROVE TreeInv'
  <2>1. CASE how = "fails"
    <3>1. GoodAims'
      BY <1>3, <2>1, AimsAsBefore DEF WaitAnswers
    <3>. QED
      BY <1>3, <2>1, <3>1, OnlyFlow DEF WaitAnswers
  <2>2. CASE how # "fails"
    BY <1>3, <2>2, CompleteTree DEF WaitAnswers
  <2>. QED
    BY <2>1, <2>2
<1>. QED
  BY <1>1, <1>2, <1>3 DEF WaitReturns, WaitTimesOut

-----------------------------------------------------------------------------
(* Steps that resume runs, with records rs and announcements fl.           *)
LEMMA ResumedSession ==
  ASSUME NEW e \in Records, NEW f, NEW x, NEW g, Resumed(e, f, x, g)
  PROVE  x.session = e.session /\ (g = f \/ g = "begun")
BY UnlistedIs DEF Resumed, Alike, Records

LEMMA ResumingTree ==
  ASSUME RegistryInv, RegistryInv', TreeInv, NEW rs, NEW fl,
         \A y \in Runs : /\ rs[y] \in Records /\ rs[y].session = runs[y].session
                         /\ Resumed(rs[y], fl[y], runs'[y], flow'[y]),
         \A y \in Runs : Unmarked(y) =>
           Mild(runs[y], flow[y], rs[y], fl[y]) /\ (fl[y] \in Coming => (runs'[y].settled => rs[y].settled)),
         \/ disk' = runs'
         \/ /\ disk' = disk
            /\ \A y \in Runs : Alike(rs[y], runs'[y]) /\ (rs[y].settled => runs[y].settled),
         \A y \in Runs : fl[y] \in Looked => flow[y] \in Looked,
         \A y \in retryTimers' \cup backoffTimers' : y \in retryTimers \cup backoffTimers \/ Completion(y),
         \A s \in Steers, y \in Runs : steering'[s] = y /\ Unmarked(y) =>
            /\ steering[s] = y
            /\ runs'[y].settled => runs[y].settled
            /\ runs'[y].retries = runs[y].retries,
         \A l \in launches : l.how \in Steers => steering'[l.how] = steering[l.how],
         UNCHANGED <<arranged, exempt, launches, child>>
  PROVE  TreeInv'
<1>1. ASSUME NEW y \in Runs
      PROVE  runs'[y].session = runs[y].session /\ (flow'[y] = fl[y] \/ flow'[y] = "begun")
  <2>1. PICK e, f, x, g : e = rs[y] /\ f = fl[y] /\ x = runs'[y] /\ g = flow'[y]
    OBVIOUS
  <2>2. e \in Records /\ Resumed(e, f, x, g) /\ e.session = runs[y].session
    BY <2>1
  <2>3. x.session = e.session /\ (g = f \/ g = "begun")
    BY <2>2, ResumedSession
  <2>. QED
    BY <2>1, <2>2, <2>3
<1>2. ASSUME NEW y \in Runs, Unmarked(y)
      PROVE  Mild(runs[y], flow[y], runs'[y], flow'[y])
  <2>1. PICK e, f, b, h, x, g : /\ e = runs[y] /\ f = flow[y] /\ b = rs[y] /\ h = fl[y]
                                /\ x = runs'[y] /\ g = flow'[y]
    OBVIOUS
  <2>2. b \in Records /\ Resumed(b, h, x, g) /\ Mild(e, f, b, h) /\ (h \in Coming => (x.settled => b.settled))
    BY <1>2, <2>1
  <2>3. Mild(b, h, x, g)
    BY <2>2, ResumedIsMild
  <2>4. Mild(e, f, x, g)
    BY <2>2, <2>3, MildFurther
  <2>. QED
    BY <2>1, <2>4
<1>3. /\ \A y \in Runs : disk'[y].session = runs'[y].session
      /\ \A y \in Runs : Unmarked(y)' => Written(runs[y], disk[y], runs'[y], disk'[y])
  <2>1. \/ disk' = runs'
        \/ disk' = disk /\ \A y \in Runs : runs'[y].settled => runs[y].settled
    BY DEF Alike
  <2>. QED
    BY <1>1, <2>1, WritesAll DEF TreeInv
<1>4. \A y \in Runs : flow'[y] \in Looked => flow[y] \in Looked
  BY <1>1 DEF Looked
<1>5. GoodAims'
  BY <1>1, AimsStay DEF RegistryInv, TreeInv
<1>6. \A y \in Runs : Unmarked(y)' => Unmarked(y)
  BY DEF Unmarked
<1>. QED
  BY <1>1, <1>2, <1>3, <1>4, <1>5, <1>6, MovesIf

(* A timer rings.                                                          *)
LEMMA TimersTree ==
  ASSUME RegistryInv, RegistryInv', TreeInv, NEW r \in Runs, RetryTimerRings(r) \/ BackoffTimerRings(r)
  PROVE  TreeInv'
<1>1. PICK b : /\ Resume({r}, b, FALSE)
               /\ b.runs = [runs EXCEPT ![r] = [runs[r] EXCEPT !.backoff = FALSE]] /\ b.flow = flow
               /\ b.timers \subseteq backoffTimers
  <2>1. CASE RetryTimerRings(r)
    <3>. DEFINE b == [Base EXCEPT !.runs[r].backoff = FALSE]
    <3>1. /\ b.runs = [runs EXCEPT ![r] = [runs[r] EXCEPT !.backoff = FALSE]] /\ b.flow = flow
          /\ b.timers \subseteq backoffTimers
      BY DEF Base
    <3>2. Resume({r}, b, FALSE)
      BY <2>1 DEF RetryTimerRings
    <3>. QED
      BY <3>1, <3>2
  <2>2. CASE BackoffTimerRings(r)
    <3>. DEFINE b == [Base EXCEPT !.runs[r].backoff = FALSE, !.resumed = @ \ {r}, !.timers = @ \ {r}]
    <3>1. /\ b.runs = [runs EXCEPT ![r] = [runs[r] EXCEPT !.backoff = FALSE]] /\ b.flow = flow
          /\ b.timers \subseteq backoffTimers
      BY DEF Base
    <3>2. Resume({r}, b, FALSE)
      BY <2>2 DEF BackoffTimerRings
    <3>. QED
      BY <3>1, <3>2
  <2>. QED
    BY <2>1, <2>2
<1>2. /\ retryTimers' \subseteq retryTimers
      /\ UNCHANGED <<arranged, child, launches, steering, exempt>>
      /\ r \in retryTimers \cup backoffTimers
  BY DEF RetryTimerRings, BackoffTimerRings
<1>3. PICK rs, fl : rs = b.runs /\ fl = b.flow
  OBVIOUS
<1>4. ASSUME NEW y \in Runs PROVE Alike(runs[y], rs[y])
  <2>1. runs[y] \in Records
    BY RecordOf
  <2>2. CASE y = r
    BY <1>1, <1>3, <2>1, <2>2, BackoffIsNothing DEF RegistryInv, Types
  <2>3. CASE y # r
    BY <1>1, <1>3, <2>1, <2>3 DEF Alike, RegistryInv, Types
  <2>. QED
    BY <2>2, <2>3
<1>5. \A y \in Runs : /\ rs[y] \in Records /\ rs[y].session = runs[y].session
                      /\ rs[y].settled = runs[y].settled /\ rs[y].retries = runs[y].retries
                      /\ Mild(runs[y], flow[y], rs[y], fl[y])
  BY <1>1, <1>3, <1>4 DEF Alike, Mild
<1>6. /\ \A y \in Runs : Resumed(rs[y], fl[y], runs'[y], flow'[y])
      /\ \/ disk' = runs'
         \/ disk' = disk /\ \A y \in Runs : Alike(rs[y], runs'[y])
  <2>1. {r} \in SUBSET Runs /\ \A y \in Runs : b.runs[y] \in Records
    BY <1>3, <1>5
  <2>. QED
    BY <1>1, <1>3, <2>1, ResumeIs
<1>7. /\ \A y \in Runs : runs'[y].settled => rs[y].settled \/ (y = r /\ GivesUp(rs[y]))
      /\ \A y \in Runs : runs'[y].retries = rs[y].retries
      /\ \A y \in backoffTimers' : y \in backoffTimers \/ (y = r /\ rs[y].session \in arranged.completion)
  <2>1. PICK R \in SUBSET Runs : R = {r}
    OBVIOUS
  <2>2. Resume(R, b, FALSE) /\ \A y \in Runs : b.runs[y] \in Records
    BY <1>1, <1>3, <1>5, <2>1
  <2>3. /\ \A y \in Runs : runs'[y].settled => b.runs[y].settled \/ (y \in R /\ GivesUp(b.runs[y]))
        /\ \A y \in Runs : runs'[y].retries = b.runs[y].retries
        /\ \A y \in backoffTimers' :
             y \in b.timers \/ (y \in R /\ b.runs[y].session \in arranged.completion)
    BY <2>2, ResumeGivesUp
  <2>. QED
    BY <1>1, <1>3, <2>1, <2>3
<1>8. Completion(r)
  BY <1>2 DEF TreeInv, GoodTimers
<1>9. GivesUp(rs[r]) => runs[r].retries >= MaxRetries
  BY <1>5, <1>8 DEF GivesUp, Completion
<1>10. /\ runs[r].retries \in Nat /\ MaxRetries \in Nat /\ MaxRetries # 0
  BY RecordOf, Constants DEF Records
<1>11. ASSUME GivesUp(rs[r]) PROVE fl[r] \notin Coming
  <2>1. ~(runs[r].retries < MaxRetries)
    BY <1>9, <1>10, <1>11
  <2>. QED
    BY <1>1, <1>3, <2>1, RecordOf DEF Coming, Before
<1>12. ASSUME NEW s \in Steers, NEW y \in Runs, steering'[s] = y, Unmarked(y)
       PROVE  /\ steering[s] = y /\ (runs'[y].settled => runs[y].settled)
              /\ runs'[y].retries = runs[y].retries
  <2>1. steering[s] = y
    BY <1>2, <1>12
  <2>2. runs[y].retries = 0
    BY <1>12, <2>1 DEF TreeInv, UnsettledSteers
  <2>3. y = r => ~GivesUp(rs[y])
    BY <1>9, <1>10, <2>2
  <2>. QED
    BY <1>5, <1>7, <2>1, <2>3
<1>13. \A y \in Runs : fl[y] = flow[y]
  BY <1>1, <1>3
<1>14. \A y \in Runs : fl[y] \in Coming => (runs'[y].settled => rs[y].settled)
  BY <1>7, <1>11
<1>15. \A y \in retryTimers' \cup backoffTimers' : y \in retryTimers \cup backoffTimers \/ Completion(y)
  BY <1>2, <1>7, <1>8
<1>. QED
  BY <1>2, <1>5, <1>6, <1>12, <1>13, <1>14, <1>15, ResumingTree

(* A completion that goes on begins a cleanup, or only writes the file.    *)
LEMMA BegunTree ==
  ASSUME RegistryInv, RegistryInv', TreeInv, NEW rs,
         \A y \in Runs : Alike(runs[y], rs[y]) \/ Alike([runs[y] EXCEPT !.told = TRUE], rs[y]),
         \A y \in Runs : Resumed(rs[y], flow[y], runs'[y], flow'[y]),
         \A y \in Runs : runs'[y].settled = rs[y].settled /\ runs'[y].retries = rs[y].retries,
         disk' = runs' \/ (disk' = disk /\ \A y \in Runs : Alike(rs[y], runs'[y])),
         UNCHANGED <<arranged, exempt, launches, child, steering, retryTimers, backoffTimers>>
  PROVE  TreeInv'
<1>1. ASSUME NEW y \in Runs
      PROVE  /\ rs[y] \in Records /\ rs[y].session = runs[y].session
             /\ rs[y].settled = runs[y].settled /\ rs[y].retries = runs[y].retries
             /\ Mild(runs[y], flow[y], rs[y], flow[y])
  <2>1. runs[y] \in Records
    BY RecordOf
  <2>2. CASE Alike(runs[y], rs[y])
    BY <2>2 DEF Alike, Mild
  <2>3. CASE Alike([runs[y] EXCEPT !.told = TRUE], rs[y])
    BY <2>1, <2>3 DEF Alike, Mild, Records
  <2>. QED
    BY <2>2, <2>3
<1>2. PICK fl : fl = flow
  OBVIOUS
<1>. QED
  BY <1>1, <1>2, ResumingTree

(* It settles nothing.                                                     *)
LEMMA BeginSettles ==
  ASSUME NEW r \in Runs, NEW rs, NEW saved, Begin(r, rs, saved),
         rs = [y \in Runs |-> rs[y]], \A y \in Runs : rs[y] \in Records
  PROVE  \A y \in Runs : runs'[y].settled = rs[y].settled /\ runs'[y].retries = rs[y].retries
<1>1. PICK v \in BOOLEAN : v = (rs[r].handled \/ MayBegin(rs[r]))
  OBVIOUS
<1>2. runs' = [rs EXCEPT ![r] = [rs[r] EXCEPT !.handled = v]]
  BY <1>1 DEF Begin
<1>. QED
  BY <1>2 DEF Records

(* The result is frozen,                                                   *)
LEMMA FrozenTree ==
  ASSUME RegistryInv, RegistryInv', TreeInv, NEW c \in completing, Frozen(c)
  PROVE  TreeInv'
<1>0. GoodCompletions /\ completing \subseteq Completions
  BY DEF RegistryInv, GoodCompletions, Completions
<1>1. PICK r \in Runs : r = c.run
  BY <1>0 DEF Completions
<1>2. /\ UNCHANGED <<arranged, exempt, launches, child, steering, retryTimers, backoffTimers>>
      /\ Ended(r)
  BY <1>0, <1>1 DEF Frozen, GoodCompletions
<1>3. PICK rs : rs = runs
  OBVIOUS
<1>4. /\ rs = [y \in Runs |-> rs[y]] /\ flow = [y \in Runs |-> flow[y]]
      /\ \A y \in Runs : Sound(rs[y]) /\ rs[y] \in Records /\ Alike(runs[y], rs[y])
  BY <1>3, RecordOf DEF RegistryInv, Types, Alike
<1>5. CASE runs' = runs /\ flow' = flow /\ disk' = runs
  <2>1. \A y \in Runs : /\ Resumed(rs[y], flow[y], runs'[y], flow'[y])
                        /\ runs'[y].settled = rs[y].settled /\ runs'[y].retries = rs[y].retries
    BY <1>3, <1>4, <1>5 DEF Resumed
  <2>. QED
    BY <1>2, <1>4, <1>5, <2>1, BegunTree
<1>6. CASE Speaks(runs[r]) /\ Begin(r, runs, TRUE)
  <2>1. Begin(r, rs, TRUE) /\ rs[r].ended # "no" /\ rs[r].suppressed # "steer"
    BY <1>2, <1>3, <1>6 DEF Ended, Speaks
  <2>2. (\A y \in Runs : Resumed(rs[y], flow[y], runs'[y], flow'[y])) /\ disk' = runs'
    BY <1>4, <2>1, BeginIs
  <2>3. \A y \in Runs : runs'[y].settled = rs[y].settled /\ runs'[y].retries = rs[y].retries
    BY <1>4, <2>1, BeginSettles
  <2>. QED
    BY <1>2, <1>4, <2>2, <2>3, BegunTree
<1>. QED
  BY <1>1, <1>5, <1>6 DEF Frozen

(* and the ended hook returns.                                             *)
LEMMA HookReturnsTree ==
  ASSUME RegistryInv, RegistryInv', TreeInv, NEW c \in completing, HookReturns(c)
  PROVE  TreeInv'
<1>0. GoodCompletions /\ completing \subseteq Completions
  BY DEF RegistryInv, GoodCompletions, Completions
<1>1. PICK r \in Runs : r = c.run
  BY <1>0 DEF Completions
<1>2. PICK rs : \E well \in BOOLEAN :
        /\ rs = [runs EXCEPT ![r].told = @ \/ well]
        /\ \/ runs' = rs /\ disk' = (IF well THEN rs ELSE disk) /\ flow' = flow
           \/ Begin(r, rs, well)
  <2>1. PICK well \in {TRUE, ~May("hook failure")} :
        LET told == [runs EXCEPT ![r].told = @ \/ well] IN
        \/ runs' = told /\ disk' = (IF well THEN told ELSE disk) /\ flow' = flow
        \/ Begin(r, told, well)
    BY <1>1 DEF HookReturns
  <2>. QED
    BY <2>1
<1>3. PICK well \in BOOLEAN :
        /\ rs = [runs EXCEPT ![r].told = @ \/ well]
        /\ \/ runs' = rs /\ disk' = (IF well THEN rs ELSE disk) /\ flow' = flow
           \/ Begin(r, rs, well)
  BY <1>2
<1>4. UNCHANGED <<arranged, exempt, launches, child, steering, retryTimers, backoffTimers>>
  BY DEF HookReturns
<1>5. /\ ~runs[r].told /\ runs[r].suppressed # "steer" /\ runs[r].ended # "no"
  BY <1>0, <1>1 DEF GoodCompletions, Ended, HookReturns
<1>h. runs = [y \in Runs |-> runs[y]] /\ flow = [y \in Runs |-> flow[y]]
  BY DEF RegistryInv, Types
<1>6. /\ rs[r] = [runs[r] EXCEPT !.told = well] /\ \A y \in Runs : y # r => rs[y] = runs[y]
      /\ rs = [y \in Runs |-> rs[y]]
  <2>1. (runs[r].told \/ well) = well
    BY <1>5
  <2>2. rs = [runs EXCEPT ![r] = [runs[r] EXCEPT !.told = well]]
    BY <1>3, <1>h, <2>1
  <2>. QED
    BY <1>h, <2>2
<1>7. ASSUME NEW y \in Runs
      PROVE  /\ rs[y] \in Records /\ Sound(rs[y])
             /\ Alike(runs[y], rs[y]) \/ Alike([runs[y] EXCEPT !.told = TRUE], rs[y])
             /\ rs[y].suppressed = runs[y].suppressed /\ rs[y].ended = runs[y].ended
  <2>1. runs[y] \in Records /\ Sound(runs[y])
    BY RecordOf
  <2>2. CASE y # r
    BY <1>6, <2>1, <2>2 DEF Alike
  <2>3. CASE y = r
    <3>1. PICK e, x : e = runs[r] /\ x = rs[r]
      OBVIOUS
    <3>2. x = [e EXCEPT !.told = well] /\ e \in Records /\ Sound(e) /\ ~e.told
      BY <1>5, <1>6, <2>1, <2>3, <3>1
    <3>3. /\ x \in Records /\ x.session = e.session /\ x.listed = e.listed /\ x.ended = e.ended
          /\ x.suppressed = e.suppressed /\ x.handled = e.handled /\ x.settled = e.settled
          /\ x.retries = e.retries /\ x.told = well
      BY <3>2 DEF Records
    <3>4. Sound(x)
      BY <3>2, <3>3 DEF Sound
    <3>5. Alike(e, x) \/ Alike([e EXCEPT !.told = TRUE], x)
      <4>1. CASE well
        BY <3>2, <3>3, <4>1 DEF Alike, Records
      <4>2. CASE ~well
        <5>1. e.told = FALSE
          BY <3>2 DEF Records
        <5>. QED
          BY <3>3, <4>2, <5>1 DEF Alike
      <4>. QED
        BY <4>1, <4>2
    <3>. QED
      BY <2>3, <3>1, <3>3, <3>4, <3>5
  <2>. QED
    BY <2>2, <2>3
<1>8. CASE runs' = rs /\ disk' = (IF well THEN rs ELSE disk) /\ flow' = flow
  <2>1. \A y \in Runs : Alike(rs[y], rs[y])
    BY <1>7 DEF Alike
  <2>2. \A y \in Runs : /\ Resumed(rs[y], flow[y], runs'[y], flow'[y])
                        /\ runs'[y].settled = rs[y].settled /\ runs'[y].retries = rs[y].retries
                        /\ Alike(rs[y], runs'[y])
    BY <1>8, <2>1 DEF Resumed
  <2>. QED
    BY <1>4, <1>7, <1>8, <2>2, BegunTree
<1>9. CASE Begin(r, rs, well)
  <2>1. rs[r].ended # "no" /\ rs[r].suppressed # "steer"
    BY <1>5, <1>7
  <2>2. /\ \A y \in Runs : Resumed(rs[y], flow[y], runs'[y], flow'[y])
        /\ disk' = runs' \/ (disk' = disk /\ \A y \in Runs : Alike(rs[y], runs'[y]))
    BY <1>6, <1>7, <1>9, <1>h, <2>1, BeginIs
  <2>3. \A y \in Runs : runs'[y].settled = rs[y].settled /\ runs'[y].retries = rs[y].retries
    <3>1. rs = [y \in Runs |-> rs[y]] /\ \A y \in Runs : rs[y] \in Records
      BY <1>6, <1>7
    <3>. QED
      BY <1>9, <3>1, BeginSettles
  <2>. QED
    BY <1>4, <1>7, <2>2, <2>3, BegunTree
<1>. QED
  BY <1>3, <1>8, <1>9

(* The bookkeeping at the end of a cleanup.                                *)
LEMMA SettleTree ==
  ASSUME RegistryInv, RegistryInv', TreeInv, NEW r \in Runs, NEW z, NEW own, NEW delete \in BOOLEAN,
         own = [runs EXCEPT ![r] = z], Settle(r, own, delete),
         flow[r] # "none", flow[r] \notin Coming,
         z \in Records, z.session = runs[r].session, z.listed = runs[r].listed,
         z.ended = runs[r].ended, z.suppressed = runs[r].suppressed, z.settled = runs[r].settled,
         UNCHANGED <<arranged, child, launches, steering, exempt>>
  PROVE  TreeInv'
<1>. DEFINE mine == [own EXCEPT ![r].listed = @ /\ ~delete, ![r].settled = @ \/ ~delete]
            expired == {x \in Deferred(mine, r) : own[x].session \notin arranged.completion /\ own[x].old}
            others == Deferred(mine, r) \ expired
            all == [x \in Runs |-> [mine[x] EXCEPT !.settled = @ \/ x \in expired]]
            base == [Base EXCEPT !.runs = all, !.resumed = @ \ others, !.flow[r] = "none"]
<1>1. Resume(others, base, TRUE) /\ retryTimers' = retryTimers
  <2>1. Resume(others, base, TRUE)
    BY Zenon DEF Settle
  <2>2. retryTimers' = retryTimers
    BY DEF Settle
  <2>. QED
    BY <2>1, <2>2
<1>2. /\ base.runs = all /\ base.flow = [flow EXCEPT ![r] = "none"] /\ base.timers = backoffTimers
  BY DEF Base
<1>h. runs = [y \in Runs |-> runs[y]] /\ flow = [y \in Runs |-> flow[y]]
  BY DEF RegistryInv, Types
<1>3. /\ \A x \in Runs : x # r => mine[x] = runs[x]
      /\ mine[r] = [z EXCEPT !.listed = @ /\ ~delete, !.settled = @ \/ ~delete]
  BY <1>h
<1>4. /\ others \subseteq Runs \ {r} /\ expired \subseteq Runs \ {r}
      /\ \A x \in others \cup expired : ~mine[x].handled /\ mine[x].suppressed # "steer"
  BY DEF Deferred
<1>. HIDE DEF mine, expired, others
<1>5. ASSUME NEW y \in Runs, y \in others \cup expired
      PROVE  flow[y] = "none" /\ runs[y].suppressed # "steer"
  <2>1. ~runs[y].handled /\ runs[y].suppressed # "steer"
    BY <1>3, <1>4, <1>5
  <2>. QED
    BY <2>1, RecordOf
<1>6. PICK rs, fl : rs = base.runs /\ fl = base.flow
  OBVIOUS
<1>7. \A y \in Runs : rs[y] = all[y] /\ fl[y] = IF y = r THEN "none" ELSE flow[y]
  BY <1>2, <1>6, <1>h
<1>8. ASSUME NEW y \in Runs
      PROVE  /\ rs[y] \in Records /\ rs[y].session = runs[y].session
             /\ Mild(runs[y], flow[y], rs[y], fl[y])
             /\ y # r /\ y \notin expired =>
                  rs[y].settled = runs[y].settled
             /\ y # r => rs[y].retries = runs[y].retries
  <2>0. runs[y] \in Records
    BY RecordOf
  <2>1. CASE y = r
    <3>1. PICK l \in BOOLEAN, s \in BOOLEAN : l = (z.listed /\ ~delete) /\ s = (z.settled \/ ~delete)
      OBVIOUS
    <3>2. mine[r] = [z EXCEPT !.listed = l, !.settled = s]
      BY <1>3, <3>1 DEF Records
    <3>3. mine[r].settled = s /\ mine[r] \in Records /\ r \notin expired
      BY <1>4, <3>2 DEF Records
    <3>4. all[r] = [mine[r] EXCEPT !.settled = s]
      BY <3>3
    <3>5. all[r] = [z EXCEPT !.listed = l, !.settled = s]
      BY <3>2, <3>4 DEF Records
    <3>6. PICK e, x : e = runs[r] /\ x = rs[r]
      OBVIOUS
    <3>7. x = [z EXCEPT !.listed = l, !.settled = s]
      BY <1>7, <3>5, <3>6
    <3>8. /\ x \in Records /\ x.session = z.session /\ x.listed = l /\ x.ended = z.ended
          /\ x.suppressed = z.suppressed /\ x.settled = s
      BY <3>7 DEF Records
    <3>9. Mild(e, flow[r], x, "none")
      BY <3>1, <3>6, <3>8 DEF Mild, Coming
    <3>. QED
      BY <1>7, <2>1, <3>6, <3>8, <3>9
  <2>2. CASE y # r
    <3>1. PICK e : e = runs[y]
      OBVIOUS
    <3>2. e \in Records /\ mine[y] = e
      BY <1>3, <2>0, <2>2, <3>1
    <3>3. PICK s \in BOOLEAN : s = (e.settled \/ y \in expired)
      OBVIOUS
    <3>4. rs[y] = [e EXCEPT !.settled = s]
      BY <1>7, <3>2, <3>3
    <3>5. PICK x : x = rs[y]
      OBVIOUS
    <3>6. /\ x \in Records /\ x.session = e.session /\ x.listed = e.listed /\ x.ended = e.ended
          /\ x.suppressed = e.suppressed /\ x.settled = s /\ x.retries = e.retries
      BY <3>2, <3>4, <3>5 DEF Records
    <3>7. y \in expired => flow[y] = "none"
      BY <1>5
    <3>8. e.settled \in BOOLEAN
      BY <3>2 DEF Records
    <3>9. Mild(e, flow[y], x, flow[y])
      BY <3>3, <3>6, <3>7, <3>8 DEF Mild, Coming
    <3>. QED
      BY <1>7, <2>2, <3>1, <3>3, <3>5, <3>6, <3>8, <3>9
  <2>. QED
    BY <2>1, <2>2
<1>9. /\ \A y \in Runs : Resumed(rs[y], fl[y], runs'[y], flow'[y])
      /\ disk' = runs'
      /\ \A y \in Runs : runs'[y].settled => rs[y].settled \/ y \in others
      /\ \A y \in Runs : runs'[y].retries = rs[y].retries
      /\ \A y \in backoffTimers' : y \in backoffTimers \/ (y \in Runs /\ rs[y].session \in arranged.completion)
  <2>1. PICK b, R : b = base /\ R = others
    OBVIOUS
  <2>2. /\ Resume(R, b, TRUE) /\ (\A y \in Runs : b.runs[y] \in Records) /\ rs = b.runs /\ fl = b.flow
        /\ R \in SUBSET Runs /\ b.timers = backoffTimers
    BY <1>1, <1>2, <1>4, <1>6, <1>8, <2>1
  <2>. HIDE DEF base
  <2>3. (\A y \in Runs : Resumed(rs[y], fl[y], runs'[y], flow'[y])) /\ disk' = runs'
    BY <2>2, ResumeIs
  <2>4. /\ \A y \in Runs : runs'[y].settled => b.runs[y].settled \/ (y \in R /\ GivesUp(b.runs[y]))
        /\ \A y \in Runs : runs'[y].retries = b.runs[y].retries
        /\ \A y \in backoffTimers' :
             y \in b.timers \/ (y \in R /\ b.runs[y].session \in arranged.completion)
    BY <2>2, ResumeGivesUp
  <2>. QED
    BY <2>1, <2>2, <2>3, <2>4
<1>. HIDE DEF base, all
<1>10. ASSUME NEW y \in Runs, fl[y] \in Coming, runs'[y].settled PROVE rs[y].settled
  <2>1. y # r /\ fl[y] = flow[y] /\ flow[y] # "none"
    BY <1>7, <1>10 DEF Coming
  <2>2. y \notin others
    BY <1>5, <2>1
  <2>. QED
    BY <1>9, <1>10, <2>2
<1>11. \A y \in Runs : fl[y] \in Looked => flow[y] \in Looked
  BY <1>7 DEF Looked
<1>12. \A y \in retryTimers' \cup backoffTimers' : y \in retryTimers \cup backoffTimers \/ Completion(y)
  BY <1>1, <1>8, <1>9 DEF Completion
<1>13. ASSUME NEW s \in Steers, NEW y \in Runs, steering'[s] = y, Unmarked(y)
       PROVE  /\ steering[s] = y /\ (runs'[y].settled => runs[y].settled)
              /\ runs'[y].retries = runs[y].retries
  <2>1. steering[s] = y /\ y # NoRun
    BY <1>13, Constants
  <2>2. runs[y].suppressed = "steer" /\ flow[y] = "none"
    BY <1>13, <2>1 DEF RegistryInv, GoodSteers, Unmarked
  <2>3. y # r /\ y \notin others \cup expired
    BY <1>5, <2>2
  <2>. QED
    BY <1>8, <1>9, <2>1, <2>3
<1>. QED
  BY <1>8, <1>9, <1>10, <1>11, <1>12, <1>13, ResumingTree

(* An announcement that is over goes to the hook or to the bookkeeping.    *)
LEMMA FinishedTree ==
  ASSUME RegistryInv, RegistryInv', TreeInv, NEW r \in Runs, NEW z, NEW own, NEW delete \in BOOLEAN,
         own = [runs EXCEPT ![r] = z], Finished(r, own, delete), flow[r] \in {"true", "false"},
         z \in Records, z.session = runs[r].session, z.listed = runs[r].listed,
         z.ended = runs[r].ended, z.suppressed = runs[r].suppressed, z.settled = runs[r].settled,
         UNCHANGED <<arranged, child, launches, steering, exempt>>
  PROVE  TreeInv'
<1>h. runs = [y \in Runs |-> runs[y]] /\ flow = [y \in Runs |-> flow[y]]
  BY DEF RegistryInv, Types
<1>1. flow[r] # "none" /\ flow[r] \notin Coming
      /\ UNCHANGED <<arranged, child, launches, steering, exempt>>
  BY DEF Coming
<1>2. CASE /\ runs' = own
           /\ flow' = [flow EXCEPT ![r] = IF delete THEN "hook delete" ELSE "hook keep"]
           /\ UNCHANGED <<disk, pendingErrors, resumed, waits, backoffTimers, retryTimers>>
  <2>1. PICK g \in HookFlows : flow' = [flow EXCEPT ![r] = g]
    BY <1>2 DEF HookFlows
  <2>2. g \notin Coming /\ g \notin Looked
    BY DEF HookFlows, Coming, Looked
  <2>3. ASSUME NEW y \in Runs
        PROVE  /\ runs'[y] \in Records /\ runs'[y].session = runs[y].session
               /\ runs'[y].settled = runs[y].settled
               /\ Mild(runs[y], flow[y], runs'[y], flow'[y])
               /\ flow'[y] \in Looked => flow[y] \in Looked
               /\ y # r => runs'[y] = runs[y]
    <3>1. CASE y = r
      BY <1>h, <1>2, <2>1, <2>2, <3>1 DEF Mild
    <3>2. CASE y # r
      BY <1>h, <1>2, <2>1, <3>2, Unmoved, RecordOf
    <3>. QED
      BY <3>1, <3>2
  <2>4. PICK rs, fl : rs = runs' /\ fl = flow'
    OBVIOUS
  <2>5. \A y \in Runs : Resumed(rs[y], fl[y], runs'[y], flow'[y]) /\ Alike(rs[y], runs'[y])
    BY <2>3, <2>4 DEF Resumed, Alike
  <2>6. ASSUME NEW s \in Steers, NEW y \in Runs, steering'[s] = y, Unmarked(y)
        PROVE  /\ steering[s] = y /\ (runs'[y].settled => runs[y].settled)
               /\ runs'[y].retries = runs[y].retries
    <3>1. steering[s] = y /\ y # NoRun
      BY <2>6, Constants
    <3>2. flow[y] = "none"
      BY <2>6, <3>1 DEF RegistryInv, GoodSteers, Unmarked
    <3>. QED
      BY <1>1, <2>3, <3>1, <3>2
  <2>7. \A y \in Runs : /\ rs[y] \in Records /\ rs[y].session = runs[y].session
                        /\ Resumed(rs[y], fl[y], runs'[y], flow'[y])
                        /\ Mild(runs[y], flow[y], rs[y], fl[y])
                        /\ runs'[y].settled => rs[y].settled
                        /\ fl[y] \in Looked => flow[y] \in Looked
    BY <2>3, <2>4, <2>5
  <2>8. disk' = disk /\ \A y \in Runs : Alike(rs[y], runs'[y]) /\ (rs[y].settled => runs[y].settled)
    BY <1>2, <2>3, <2>4, <2>5
  <2>9. \A y \in retryTimers' \cup backoffTimers' : y \in retryTimers \cup backoffTimers \/ Completion(y)
    BY <1>2
  <2>10. /\ UNCHANGED <<arranged, exempt, launches, child>>
        /\ \A l \in launches : l.how \in Steers => steering'[l.how] = steering[l.how]
    BY <1>1
  <2>. QED
    BY <2>7, <2>8, <2>9, <2>10, <2>6, ResumingTree
<1>3. CASE Settle(r, own, delete)
  BY <1>1, <1>3, SettleTree
<1>. QED
  BY <1>2, <1>3 DEF Finished

(* An announcement of a run that has left the registry is over.            *)
LEMMA DroppedTree ==
  ASSUME RegistryInv, RegistryInv', TreeInv, NEW r \in Runs, flow' = [flow EXCEPT ![r] = "none"],
         UNCHANGED <<arranged, runs, disk, child, launches, retryTimers, backoffTimers, steering,
                     exempt>>
  PROVE  TreeInv'
<1>1. \A y \in Runs : flow'[y] = flow[y] \/ flow'[y] = "none"
  BY DEF RegistryInv, Types
<1>2. GoodAims'
  BY AimsAsBefore
<1>. QED
  BY <1>1, <1>2, OnlyFlow DEF Coming, Looked

(* The announcement is over, with success                                  *)
LEMMA AnnouncedTree ==
  ASSUME RegistryInv, RegistryInv', TreeInv, NEW r \in Runs, Announced(r)
  PROVE  TreeInv'
<1>1. /\ flow[r] = "true"
      /\ UNCHANGED <<arranged, child, launches, steering, exempt>>
  BY DEF Announced
<1>2. CASE Listed(r)
  <2>1. PICK delete \in BOOLEAN : delete = Deletes(r)
    <3>1. Deletes(r) \in BOOLEAN
      BY DEF Deletes
    <3>. QED
      BY <3>1, Zenon
  <2>2. PICK e, z : e = runs[r] /\ z = [e EXCEPT !.wake = FALSE]
    OBVIOUS
  <2>3. e \in Records
    BY <2>2, RecordOf
  <2>4. /\ z \in Records /\ z.session = e.session /\ z.listed = e.listed
        /\ z.ended = e.ended /\ z.suppressed = e.suppressed /\ z.settled = e.settled
    BY <2>2, <2>3 DEF Records
  <2>5. PICK own : own = [runs EXCEPT ![r] = z] /\ Finished(r, own, delete)
    <3>1. [runs EXCEPT ![r].wake = FALSE] = [runs EXCEPT ![r] = z]
      BY <2>2
    <3>2. Finished(r, [runs EXCEPT ![r].wake = FALSE], delete)
      BY <1>2, <2>1 DEF Announced
    <3>. QED
      BY <3>1, <3>2
  <2>. QED
    BY <1>1, <2>2, <2>4, <2>5, FinishedTree
<1>3. CASE ~Listed(r)
  BY <1>1, <1>3, DroppedTree DEF Announced
<1>. QED
  BY <1>2, <1>3

(* or not: only a run whose requester expects a message gets a timer.      *)
LEMMA FailedTree ==
  ASSUME RegistryInv, RegistryInv', TreeInv, NEW r \in Runs, Failed(r)
  PROVE  TreeInv'
<1>1. /\ flow[r] = "false"
      /\ UNCHANGED <<arranged, child, launches, steering, exempt>>
  BY DEF Failed
<1>3. runs = [y \in Runs |-> runs[y]] /\ flow = [y \in Runs |-> flow[y]]
  BY DEF RegistryInv, Types
<1>4. PICK waiting \in BOOLEAN : waiting = (Completion(r) /\ PendingBelow(runs[r].session) # {})
  OBVIOUS
<1>5. PICK e : e = runs[r]
  OBVIOUS
<1>6. e \in Records /\ e.retries < MaxRetries
  BY <1>1, <1>5, RecordOf DEF Before
<1>7. PICK q : q = IF waiting THEN e.retries ELSE e.retries + 1
  OBVIOUS
<1>8. q \in 0..MaxRetries
  <2>1. e.retries \in Nat /\ MaxRetries \in Nat
    BY <1>6, Constants DEF Records
  <2>. QED
    BY <1>6, <1>7, <2>1
<1>9. PICK b \in BOOLEAN, w \in BOOLEAN : b = (e.backoff \/ ~waiting) /\ w = (e.wake \/ waiting)
  OBVIOUS
<1>. DEFINE counted == [runs EXCEPT ![r].retries = IF waiting THEN @ ELSE @ + 1,
                                    ![r].backoff = @ \/ ~waiting]
<1>10. counted = [runs EXCEPT ![r] = [e EXCEPT !.retries = q, !.backoff = b]]
  BY <1>3, <1>5, <1>6, <1>7, <1>9 DEF Records
<1>11. CASE ~Listed(r)
  BY <1>1, <1>11, DroppedTree DEF Failed
<1>12. CASE /\ runs' = [counted EXCEPT ![r].handled = FALSE, ![r].backoff = TRUE, ![r].wake = @ \/ waiting]
            /\ disk' = runs' /\ flow' = [flow EXCEPT ![r] = "none"]
            /\ retryTimers' = IF RingsAgain(r) THEN retryTimers \cup {r} ELSE retryTimers
            /\ UNCHANGED backoffTimers
  <2>1. PICK z : z = [e EXCEPT !.retries = q, !.handled = FALSE, !.backoff = TRUE, !.wake = w]
    OBVIOUS
  <2>2. runs' = [runs EXCEPT ![r] = z]
    <3>1. PICK c : c = [e EXCEPT !.retries = q, !.backoff = b]
      OBVIOUS
    <3>2. runs' = [runs EXCEPT ![r] = [c EXCEPT !.handled = FALSE, !.backoff = TRUE,
                                                !.wake = c.wake \/ waiting]]
      BY <1>3, <1>10, <1>12, <3>1
    <3>3. (c.wake \/ waiting) = w
      BY <1>6, <1>9, <3>1 DEF Records
    <3>4. [c EXCEPT !.handled = FALSE, !.backoff = TRUE, !.wake = w] = z
      BY <1>6, <2>1, <3>1 DEF Records
    <3>. QED
      BY <3>2, <3>3, <3>4
  <2>3. /\ z \in Records /\ z.session = e.session /\ z.listed = e.listed
        /\ z.ended = e.ended /\ z.suppressed = e.suppressed /\ z.settled = e.settled
    BY <1>6, <1>8, <2>1 DEF Records
  <2>4. ASSUME NEW y \in Runs
        PROVE  /\ runs'[y] \in Records /\ runs'[y].session = runs[y].session
               /\ runs'[y].settled = runs[y].settled
               /\ Mild(runs[y], flow[y], runs'[y], flow'[y])
               /\ flow'[y] \in Looked => flow[y] \in Looked
               /\ y # r => runs'[y] = runs[y]
    <3>1. CASE y = r
      <4>1. runs'[y] = z /\ flow'[y] = "none"
        BY <1>3, <1>12, <2>2, <3>1
      <4>. QED
        BY <1>5, <2>3, <3>1, <4>1 DEF Mild, Coming, Looked
    <3>2. CASE y # r
      BY <1>3, <1>12, <2>2, <3>2, Unmoved, RecordOf
    <3>. QED
      BY <3>1, <3>2
  <2>5. PICK rs, fl : rs = runs' /\ fl = flow'
    OBVIOUS
  <2>6. \A y \in Runs : Resumed(rs[y], fl[y], runs'[y], flow'[y])
    BY <2>4, <2>5 DEF Resumed, Alike
  <2>7. ASSUME NEW s \in Steers, NEW y \in Runs, steering'[s] = y, Unmarked(y)
        PROVE  /\ steering[s] = y /\ (runs'[y].settled => runs[y].settled)
               /\ runs'[y].retries = runs[y].retries
    <3>1. steering[s] = y /\ y # NoRun
      BY <1>1, <2>7, Constants
    <3>2. flow[y] = "none"
      BY <2>7, <3>1 DEF RegistryInv, GoodSteers, Unmarked
    <3>. QED
      BY <1>1, <2>4, <3>1, <3>2
  <2>8. \A y \in Runs : /\ rs[y] \in Records /\ rs[y].session = runs[y].session
                        /\ Resumed(rs[y], fl[y], runs'[y], flow'[y])
                        /\ Mild(runs[y], flow[y], rs[y], fl[y])
                        /\ runs'[y].settled => rs[y].settled
                        /\ fl[y] \in Looked => flow[y] \in Looked
    BY <2>4, <2>5, <2>6
  <2>9. disk' = runs'
    BY <1>12
  <2>10. \A y \in retryTimers' \cup backoffTimers' : y \in retryTimers \cup backoffTimers \/ Completion(y)
    BY <1>12 DEF RingsAgain, Defers
  <2>11. /\ UNCHANGED <<arranged, exempt, launches, child>>
        /\ \A l \in launches : l.how \in Steers => steering'[l.how] = steering[l.how]
    BY <1>1
  <2>. QED
    BY <2>8, <2>9, <2>10, <2>11, <2>7, ResumingTree
<1>13. CASE Finished(r, [counted EXCEPT ![r].wake = FALSE], FALSE)
  <2>1. PICK z : z = [e EXCEPT !.retries = q, !.backoff = b, !.wake = FALSE]
    OBVIOUS
  <2>2. [counted EXCEPT ![r].wake = FALSE] = [runs EXCEPT ![r] = z]
    BY <1>3, <1>6, <1>10, <2>1 DEF Records
  <2>3. PICK own : own = [runs EXCEPT ![r] = z] /\ Finished(r, own, FALSE)
    BY <1>13, <2>2
  <2>4. /\ z \in Records /\ z.session = e.session /\ z.listed = e.listed
        /\ z.ended = e.ended /\ z.suppressed = e.suppressed /\ z.settled = e.settled
    BY <1>6, <1>8, <1>9, <2>1 DEF Records
  <2>. QED
    BY <1>1, <1>5, <2>3, <2>4, FinishedTree
<1>. QED
  BY <1>4, <1>11, <1>12, <1>13 DEF Failed

(* The hook of the cleanup returns.                                        *)
LEMMA CleanupHookReturnsTree ==
  ASSUME RegistryInv, RegistryInv', TreeInv, NEW r \in Runs, CleanupHookReturns(r)
  PROVE  TreeInv'
<1>1. /\ flow[r] \in HookFlows
      /\ UNCHANGED <<arranged, child, launches, steering, exempt>>
  BY DEF CleanupHookReturns, HookFlows
<1>2. PICK delete \in BOOLEAN : delete = (flow[r] = "hook delete")
  OBVIOUS
<1>3. PICK well \in BOOLEAN : Settle(r, [runs EXCEPT ![r].told = @ \/ well], delete)
  BY <1>2 DEF CleanupHookReturns
<1>4. PICK e, z : e = runs[r] /\ z = [e EXCEPT !.told = well]
  OBVIOUS
<1>5. e \in Records /\ ~e.told
  BY <1>1, <1>4, RecordOf DEF RegistryInv, GoodRuns, Good
<1>6. /\ z \in Records /\ z.session = e.session /\ z.listed = e.listed /\ z.ended = e.ended
      /\ z.suppressed = e.suppressed /\ z.settled = e.settled
  BY <1>4, <1>5 DEF Records
<1>7. PICK own : own = [runs EXCEPT ![r] = z] /\ Settle(r, own, delete)
  <2>1. (e.told \/ well) = well
    BY <1>5
  <2>2. [runs EXCEPT ![r].told = @ \/ well] = [runs EXCEPT ![r] = z]
    BY <1>4, <2>1
  <2>. QED
    BY <1>3, <2>2
<1>8. flow[r] # "none" /\ flow[r] \notin Coming
  BY <1>1 DEF HookFlows, Coming
<1>. QED
  BY <1>1, <1>4, <1>6, <1>7, <1>8, SettleTree

(* A steer fails.                                                          *)
LEMMA SteerFailsTree ==
  ASSUME RegistryInv, RegistryInv', TreeInv, NEW s \in Steers, SteerFails(s)
  PROVE  TreeInv'
<1>1. PICK r \in Runs : r = steering[s]
  BY DEF SteerFails, RegistryInv, GoodSteers
<1>2. /\ steering' = [steering EXCEPT ![s] = NoRun] /\ \A l \in launches : l.how # s
      /\ UNCHANGED <<arranged, child, launches, retryTimers, exempt>>
  BY DEF SteerFails
<1>3. \A t \in Steers : steering'[t] = (IF t = s THEN NoRun ELSE steering[t])
  BY <1>2 DEF RegistryInv, GoodSteers
<1>h. runs = [y \in Runs |-> runs[y]] /\ flow = [y \in Runs |-> flow[y]]
  BY DEF RegistryInv, Types
<1>4. \A l \in launches : l.how \in Steers => steering'[l.how] = steering[l.how]
  BY <1>2, <1>3
<1>5. ASSUME NEW t \in Steers, NEW y \in Runs, steering'[t] = y, Unmarked(y)
      PROVE  steering[t] = y /\ y # r
  <2>1. t # s /\ steering[t] = y /\ y # NoRun
    BY <1>3, <1>5, Constants
  <2>2. ASSUME y = r PROVE FALSE
    <3>1. <<"steered", y>> \in exempt
      BY <1>1, <2>1, <2>2 DEF RegistryInv, GoodSteers
    <3>. QED
      BY <1>5, <3>1 DEF Unmarked
  <2>. QED
    BY <2>1, <2>2
<1>6. Unmarked(r) => flow[r] = "none"
  BY <1>1, Constants DEF RegistryInv, GoodSteers, Unmarked
<1>7. CASE UNCHANGED <<runs, disk, resumed, flow, waits, backoffTimers>>
  <2>1. GoodAims'
    BY <1>2, <1>4, <1>7, AimsStay DEF RegistryInv, TreeInv
  <2>2. \A y \in Runs : /\ Mild(runs[y], flow[y], runs'[y], flow'[y])
                        /\ Written(runs[y], disk[y], runs'[y], disk'[y])
    BY <1>7, Unmoved
  <2>3. \A y \in Runs : disk'[y].session = runs'[y].session
    BY <1>7 DEF TreeInv, GoodFile
  <2>4. \A t \in Steers, y \in Runs : steering'[t] = y /\ Unmarked(y)' =>
            /\ steering[t] = y
            /\ runs'[y].settled => runs[y].settled
            /\ runs'[y].retries = runs[y].retries
    BY <1>2, <1>5, <1>7 DEF Unmarked
  <2>. QED
    BY <1>2, <1>7, <2>1, <2>2, <2>3, <2>4, MovesIf
<1>8. CASE /\ runs[r].suppressed = "steer"
           /\ Resume({x \in {r} : Ended(r) /\ ~runs[r].settled},
                     [Base EXCEPT !.runs[r].suppressed = "no", !.resumed = @ \ {r}], TRUE)
  <2>0. PICK b : b = [Base EXCEPT !.runs[r].suppressed = "no", !.resumed = @ \ {r}]
    OBVIOUS
  <2>1. PICK R \in SUBSET Runs :
             R = {x \in {r} : Ended(r) /\ ~runs[r].settled} /\ Resume(R, b, TRUE)
    BY <1>8, <2>0
  <2>2. /\ b.runs = [runs EXCEPT ![r] = [runs[r] EXCEPT !.suppressed = "no"]] /\ b.flow = flow
        /\ b.timers = backoffTimers
    BY <2>0 DEF Base
  <2>3. PICK rs, fl : rs = b.runs /\ fl = b.flow
    OBVIOUS
  <2>4. ASSUME NEW y \in Runs
        PROVE  /\ rs[y] \in Records /\ rs[y].session = runs[y].session
               /\ rs[y].settled = runs[y].settled /\ rs[y].retries = runs[y].retries
               /\ Mild(runs[y], flow[y], rs[y], fl[y]) /\ fl[y] = flow[y]
    <3>1. PICK e, x : e = runs[y] /\ x = rs[y]
      OBVIOUS
    <3>2. e \in Records
      BY <3>1, RecordOf
    <3>3. x = e \/ x = [e EXCEPT !.suppressed = "no"]
      BY <1>h, <2>2, <2>3, <3>1
    <3>4. /\ x \in Records /\ x.session = e.session /\ x.listed = e.listed /\ x.ended = e.ended
          /\ x.settled = e.settled /\ x.retries = e.retries /\ x.suppressed \in {e.suppressed, "no"}
      BY <3>2, <3>3 DEF Records
    <3>5. Mild(e, flow[y], x, flow[y])
      BY <3>4 DEF Mild
    <3>. QED
      BY <2>2, <2>3, <3>1, <3>4, <3>5
  <2>5. (\A y \in Runs : Resumed(rs[y], fl[y], runs'[y], flow'[y])) /\ disk' = runs'
    <3>1. \A y \in Runs : b.runs[y] \in Records
      BY <2>3, <2>4
    <3>2. PICK saved : saved = TRUE
      OBVIOUS
    <3>3. /\ \A y \in Runs : Resumed(b.runs[y], b.flow[y], runs'[y], flow'[y])
          /\ disk' = runs' \/ ~saved
      BY <2>1, <3>1, <3>2, ResumeIs
    <3>. QED
      BY <2>3, <3>2, <3>3
  <2>6. /\ \A y \in Runs : runs'[y].settled => rs[y].settled \/ y = r
        /\ \A y \in Runs : runs'[y].retries = rs[y].retries
        /\ \A y \in backoffTimers' : y \in backoffTimers \/ (y = r /\ rs[y].session \in arranged.completion)
    <3>1. \A y \in Runs : b.runs[y] \in Records
      BY <2>3, <2>4
    <3>2. /\ \A y \in Runs : runs'[y].settled => b.runs[y].settled \/ (y \in R /\ GivesUp(b.runs[y]))
          /\ \A y \in Runs : runs'[y].retries = b.runs[y].retries
          /\ \A y \in backoffTimers' :
               y \in b.timers \/ (y \in R /\ b.runs[y].session \in arranged.completion)
      BY <2>1, <3>1, ResumeGivesUp
    <3>. QED
      BY <2>1, <2>2, <2>3, <3>2
  <2>7. \A y \in Runs : Unmarked(y) /\ fl[y] \in Coming => (runs'[y].settled => rs[y].settled)
    BY <1>6, <2>4, <2>6 DEF Coming
  <2>8. \A y \in retryTimers' \cup backoffTimers' : y \in retryTimers \cup backoffTimers \/ Completion(y)
    BY <1>2, <2>4, <2>6 DEF Completion
  <2>9. \A t \in Steers, y \in Runs : steering'[t] = y /\ Unmarked(y) =>
            /\ steering[t] = y
            /\ runs'[y].settled => runs[y].settled
            /\ runs'[y].retries = runs[y].retries
    BY <1>5, <2>4, <2>6
  <2>10. \A y \in Runs : /\ rs[y] \in Records /\ rs[y].session = runs[y].session
                          /\ Resumed(rs[y], fl[y], runs'[y], flow'[y])
    BY <2>4, <2>5
  <2>11. \A y \in Runs : Unmarked(y) =>
           Mild(runs[y], flow[y], rs[y], fl[y]) /\ (fl[y] \in Coming => (runs'[y].settled => rs[y].settled))
    BY <2>4, <2>7
  <2>12. disk' = runs' /\ \A y \in Runs : fl[y] \in Looked => flow[y] \in Looked
    BY <2>4, <2>5
  <2>. QED
    BY <1>2, <1>4, <2>8, <2>9, <2>10, <2>11, <2>12, ResumingTree
<1>. QED
  BY <1>1, <1>7, <1>8 DEF SteerFails

(* The process ends: nothing is under way, and the file says what was.     *)
LEMMA RestartsTree ==
  ASSUME RegistryInv, RegistryInv', TreeInv, Restarts
  PROVE  TreeInv'
<1>1. PICK rs : rs = [r \in Runs |-> IF disk[r].session \in gone THEN Unlisted(disk[r]) ELSE disk[r]]
  OBVIOUS
<1>2. PICK fl, b : /\ fl = [r \in Runs |-> "none"]
                   /\ b = [runs |-> rs, resumed |-> {}, flow |-> fl, waits |-> {}, timers |-> {}]
  OBVIOUS
<1>3. PICK saved \in BOOLEAN : saved = (\E r \in Runs : rs[r] # disk[r])
  OBVIOUS
<1>4. /\ Resume(Runs, b, saved)
      /\ child' = [r \in Runs |-> IF child[r] = "none" THEN "none" ELSE "dead"]
      /\ launches' = {} /\ retryTimers' = {}
      /\ steering' = [s \in Steers |-> NoRun]
      /\ arranged' = arranged /\ exempt \subseteq exempt'
  BY <1>1, <1>2, <1>3 DEF Restarts
<1>5. ASSUME NEW y \in Runs
      PROVE  /\ rs[y] \in Records /\ rs[y].session = disk[y].session /\ rs[y].ended = disk[y].ended
             /\ rs[y].suppressed = disk[y].suppressed /\ rs[y].settled = disk[y].settled
             /\ fl[y] = "none"
  <2>1. disk[y] \in Records
    BY RecordOf
  <2>. QED
    BY <1>1, <1>2, <2>1, UnlistedIs
<1>6. PICK R \in SUBSET Runs : R = Runs
  OBVIOUS
<1>7. b.runs = rs /\ b.flow = fl /\ b.timers = {} /\ Resume(R, b, saved)
  BY <1>2, <1>4, <1>6
<1>8. /\ \A y \in Runs : Resumed(rs[y], fl[y], runs'[y], flow'[y])
      /\ disk' = runs' \/ (disk' = disk /\ ~saved /\ \A y \in Runs : Alike(rs[y], runs'[y]))
  <2>1. \A y \in Runs : b.runs[y] \in Records
    BY <1>5, <1>7
  <2>2. /\ \A y \in Runs : Resumed(b.runs[y], b.flow[y], runs'[y], flow'[y])
        /\ \/ disk' = runs'
           \/ /\ disk' = disk /\ ~saved
              /\ \A y \in Runs : Alike(b.runs[y], runs'[y]) /\ flow'[y] = b.flow[y]
    <3>1. Resume(R, b, saved)
      BY <1>7
    <3>. QED
      BY <2>1, <3>1, ResumeIs
  <2>. QED
    BY <1>7, <2>2
<1>9. \A y \in backoffTimers' : rs[y].session \in arranged.completion /\ y \in Runs
  BY <1>5, <1>7, ResumeGivesUp
<1>10. ASSUME NEW y \in Runs
       PROVE  /\ runs'[y].session = runs[y].session /\ disk'[y].session = runs'[y].session
              /\ flow'[y] \in {"none", "begun"}
              /\ Unmarked(y)' => Filed(runs'[y], disk'[y], flow'[y])
  <2>1. PICK d, e, x, v, g : d = disk[y] /\ e = rs[y] /\ x = runs'[y] /\ v = disk'[y] /\ g = flow'[y]
    OBVIOUS
  <2>2. /\ e \in Records /\ d \in Records /\ e.session = d.session /\ e.ended = d.ended
        /\ e.suppressed = d.suppressed /\ e.settled = d.settled
        /\ Resumed(e, "none", x, g) /\ (v = x \/ (v = d /\ Alike(e, x)))
    BY <1>5, <1>8, <2>1, RecordOf
  <2>3. d.session = runs[y].session
    BY <2>1 DEF TreeInv, GoodFile
  <2>4. x.session = e.session /\ g \in {"none", "begun"}
    BY <2>2, ResumedSession
  <2>5. v.session = x.session
    BY <2>2, <2>4
  <2>6. ASSUME Unmarked(y)' PROVE Filed(x, v, g)
    <3>1. Unmarked(y)
      BY <1>4, <2>6 DEF Unmarked
    <3>2. d.suppressed # "killed"
      BY <2>1, <3>1 DEF TreeInv, GoodFile, Filed
    <3>3. x.suppressed # "killed" /\ (g = "begun" => ~x.settled)
      <4>1. CASE Alike(e, x) /\ g = "none"
        BY <2>2, <3>2, <4>1 DEF Alike
      <4>2. CASE Alike(Unlisted(e), x) /\ g = "none"
        BY <2>2, <3>2, <4>2, UnlistedIs DEF Alike
      <4>3. CASE Alike([e EXCEPT !.settled = TRUE], x) /\ g = "none"
        BY <2>2, <3>2, <4>3 DEF Alike, Records
      <4>4. CASE Alike([e EXCEPT !.handled = TRUE], x) /\ MayBegin(e)
        BY <2>2, <3>2, <4>4 DEF Alike, MayBegin, Records
      <4>. QED
        BY <2>2, <4>1, <4>2, <4>3, <4>4 DEF Resumed
    <3>4. /\ v.suppressed # "killed" /\ (v.ended # "no" => x.ended # "no") /\ (x.settled => v.settled)
      BY <2>2, <3>2, <3>3 DEF Alike
    <3>. QED
      BY <2>4, <3>3, <3>4 DEF Filed, Coming
  <2>. QED
    BY <2>1, <2>2, <2>3, <2>4, <2>5, <2>6
<1>11. GoodFile'
  BY <1>10 DEF GoodFile
<1>12. GoodTimers'
  BY <1>4, <1>5, <1>9, <1>10 DEF GoodTimers, Completion, TreeInv, GoodFile
<1>13. UnsettledSteers'
  BY <1>4, Constants DEF UnsettledSteers
<1>14. GoodAims'
  <2>1. \A r \in Runs : child'[r] = "none" => child[r] = "none"
    BY <1>4
  <2>. QED
    BY <1>4, <1>10, <2>1, AimsStay DEF RegistryInv, TreeInv
<1>15. NothingBelow'
  BY <1>10 DEF NothingBelow, Looked
<1>. QED
  BY <1>11, <1>12, <1>13, <1>14, <1>15 DEF TreeInv

(* A run is recorded: whoever looks below now has marked the session that  *)
(* asked for a run nobody foresaw, or the run stands for one that was      *)
(* pending.                                                                *)
LEMMA RecordedTree ==
  ASSUME RegistryInv, RegistryInv', TreeInv, NEW l \in launches, Recorded(l)
  PROVE  TreeInv'
<1>0. GoodLaunches /\ GoodAims /\ GoodFile /\ GoodRuns /\ GoodRuns' /\ launches' = launches \ {l}
  BY DEF RegistryInv, TreeInv, Recorded
<1>1. PICK n \in Runs, s \in Sessions, p \in Runs \cup {NoRun}, how \in Steers \cup {"spawn", "wake"} :
        n = l.run /\ s = l.session /\ p = l.prev /\ how = l.how
  BY <1>0 DEF GoodLaunches
<1>2. /\ Untold(n) /\ child[n] # "none" /\ runs[n].session = Top /\ n # p
      /\ how = "spawn" => p = NoRun
      /\ how # "spawn" => p \in Runs /\ runs[p].session = s
      /\ how = "wake" => flow[p] = "woken"
      /\ how \in Steers => steering[how] = p
      /\ \A m \in launches' : m \in launches /\ m.run # n /\ (m.how \in Steers => m.how # how)
  BY <1>0, <1>1, Constants DEF GoodLaunches, GoodAims
<1>h. /\ runs = [y \in Runs |-> runs[y]] /\ flow = [y \in Runs |-> flow[y]]
      /\ disk = [y \in Runs |-> disk[y]]
  BY DEF RegistryInv, Types
<1>3. PICK known \in BOOLEAN, w \in BOOLEAN : known = (how = "wake" => Listed(p)) /\ w = (how = "wake")
  OBVIOUS
<1>4. /\ steering' = [t \in Steers |-> IF t = how THEN NoRun ELSE steering[t]]
      /\ flow' = [r \in Runs |-> IF w /\ r = p THEN IF known THEN "true" ELSE "delivering" ELSE flow[r]]
      /\ exempt \subseteq exempt'
      /\ UNCHANGED <<arranged, child, retryTimers, backoffTimers>>
  BY <1>1, <1>3 DEF Recorded
<1>5. \/ /\ known
         /\ runs' = [r \in Runs |-> IF r = p THEN Unlisted(runs[r])
                                    ELSE IF r = n THEN Fresh(s, w) ELSE runs[r]]
         /\ disk' = runs'
      \/ ~known /\ w /\ runs' = runs /\ disk' = disk
  <2>1. CASE known
    <3>1. l.how = "wake" => Listed(l.prev)
      BY <1>1, <1>3, <2>1
    <3>2. /\ runs' = [r \in Runs |-> IF r = l.prev THEN Unlisted(runs[r])
                                     ELSE [runs EXCEPT ![l.run] = Fresh(l.session, l.how = "wake")][r]]
          /\ disk' = runs'
      BY <3>1, Zenon DEF Recorded
    <3>3. (l.how = "wake") = w
      BY <1>1, <1>3
    <3>4. runs' = [r \in Runs |-> IF r = p THEN Unlisted(runs[r])
                                  ELSE [runs EXCEPT ![n] = Fresh(s, w)][r]]
      BY <1>1, <3>2, <3>3
    <3>5. \A r \in Runs : [runs EXCEPT ![n] = Fresh(s, w)][r] = IF r = n THEN Fresh(s, w) ELSE runs[r]
      BY <1>h
    <3>. QED
      BY <2>1, <3>2, <3>4, <3>5
  <2>2. CASE ~known
    BY <1>1, <1>3, <2>2 DEF Recorded
  <2>. QED
    BY <2>1, <2>2
<1>6. PICK x : x = Fresh(s, w)
  OBVIOUS
<1>7. /\ x \in Records /\ x.session = s /\ x.listed = TRUE /\ x.ended = "no"
      /\ x.suppressed = "no" /\ x.settled = FALSE
  BY <1>6, FreshIs
<1>8. ASSUME NEW y \in Runs, y # n
      PROVE  /\ runs'[y].session = runs[y].session /\ runs'[y].ended = runs[y].ended
             /\ runs'[y].suppressed = runs[y].suppressed /\ runs'[y].settled = runs[y].settled
             /\ runs'[y].retries = runs[y].retries
             /\ known => disk'[y] = runs'[y]
             /\ known /\ y = p => ~runs'[y].listed
             /\ known /\ y # p => runs'[y] = runs[y]
  <2>1. CASE known /\ y = p
    <3>1. PICK e, u : e = runs[y] /\ u = Unlisted(e)
      OBVIOUS
    <3>2. runs'[y] = u /\ disk'[y] = u
      BY <1>5, <2>1, <3>1
    <3>3. /\ u.session = e.session /\ u.ended = e.ended /\ u.suppressed = e.suppressed
          /\ u.settled = e.settled /\ u.retries = e.retries /\ ~u.listed
      BY <3>1, UnlistedIs, RecordOf
    <3>. QED
      BY <2>1, <3>1, <3>2, <3>3
  <2>2. CASE known /\ y # p
    BY <1>5, <1>8, <2>2
  <2>3. CASE ~known
    BY <1>5, <2>3
  <2>. QED
    BY <2>1, <2>2, <2>3
<1>9. known => runs'[n] = x /\ disk'[n] = x
  BY <1>2, <1>5, <1>6
<1>10. GoodFile'
  <2>. SUFFICES ASSUME NEW y \in Runs
                PROVE  /\ disk'[y].session = runs'[y].session
                       /\ Unmarked(y)' => Filed(runs'[y], disk'[y], flow'[y])
    BY DEF GoodFile
  <2>1. CASE ~known
    <3>1. runs'[y] = runs[y] /\ disk'[y] = disk[y] /\ (flow'[y] = flow[y] \/ flow'[y] = "delivering")
      BY <1>4, <1>5, <2>1
    <3>2. Unmarked(y)' => Unmarked(y)
      BY <1>4 DEF Unmarked
    <3>. QED
      BY <1>0, <3>1, <3>2 DEF GoodFile, Filed, Coming
  <2>2. CASE known /\ y = n
    BY <1>7, <1>9, <2>2 DEF Filed
  <2>3. CASE known /\ y # n
    <3>1. disk'[y] = runs'[y] /\ runs'[y].suppressed = runs[y].suppressed
      BY <1>8, <2>3
    <3>2. Unmarked(y)' => Unmarked(y)
      BY <1>4 DEF Unmarked
    <3>3. y = p => ~runs'[y].listed
      BY <1>8, <2>3
    <3>4. y # p => runs'[y] = runs[y] /\ flow'[y] = flow[y]
      BY <1>4, <1>8, <2>3
    <3>. QED
      BY <1>0, <3>1, <3>2, <3>3, <3>4 DEF GoodFile, Filed
  <2>. QED
    BY <2>1, <2>2, <2>3
<1>11. GoodTimers'
  <2>. SUFFICES ASSUME NEW y \in retryTimers' \cup backoffTimers' PROVE Completion(y)'
    BY DEF GoodTimers
  <2>1. y \in Runs /\ Completion(y)
    BY <1>4 DEF TreeInv, GoodTimers, RegistryInv, Types
  <2>2. y # n
    BY <1>2, <2>1, RegistryAssumption DEF Completion, RegistryInv, Types
  <2>. QED
    BY <1>4, <1>8, <2>1, <2>2 DEF Completion
<1>12. UnsettledSteers'
  <2>1. ASSUME NEW t \in Steers, NEW y \in Runs, steering'[t] = y, Unmarked(y)'
        PROVE  /\ steering[t] = y /\ (runs'[y].settled => runs[y].settled)
               /\ runs'[y].retries = runs[y].retries
    <3>1. steering[t] = y
      BY <1>4, <2>1, Constants
    <3>2. y # n
      BY <1>2, <3>1 DEF Untold
    <3>. QED
      BY <1>8, <3>1, <3>2
  <2>. QED
    BY <1>4, <2>1, SteersStay DEF TreeInv
<1>13. GoodAims'
  <2>1. ASSUME NEW y \in Runs, child'[y] = "none" PROVE runs'[y].session = Top
    BY <1>0, <1>2, <1>4, <1>8, <2>1 DEF GoodAims
  <2>2. ASSUME NEW m \in launches'
        PROVE  /\ runs'[m.run].session = Top
               /\ m.how = "spawn" => m.prev = NoRun
               /\ m.how # "spawn" => m.prev \in Runs /\ runs'[m.prev].session = m.session
               /\ m.how \in Steers => steering'[m.how] = m.prev
    <3>1. m \in launches /\ m.run \in Runs /\ m.run # n /\ m.session \in Sessions
      BY <1>0, <1>2 DEF GoodLaunches
    <3>2. m.how # "spawn" => m.prev # n
      BY <1>0, <1>2, <3>1, Constants DEF GoodAims
    <3>3. m.how \in Steers => steering'[m.how] = steering[m.how]
      BY <1>2, <1>4
    <3>. QED
      BY <1>0, <1>8, <3>1, <3>2, <3>3 DEF GoodAims
  <2>. QED
    BY <1>0, <2>1, <2>2 DEF GoodAims
<1>14. NothingBelow'
  <2>. SUFFICES ASSUME NEW r \in Runs, flow'[r] \in Looked, Undisturbed(r)'
                PROVE  (PendingBelow(runs[r].session) = {})'
    BY DEF NothingBelow
  <2>1. flow[r] \in Looked /\ r # n
    <3>1. flow'[r] = flow[r] \/ flow[r] = "woken"
      BY <1>2, <1>3, <1>4
    <3>2. flow[r] \in Looked
      BY <3>1 DEF Looked
    <3>. QED
      BY <1>2, <3>2 DEF Looked, Untold
  <2>2. PICK t : t = runs[r].session
    OBVIOUS
  <2>3. t \in Sessions /\ Ended(r) /\ runs'[r].session = t
    BY <1>8, <2>1, <2>2, RecordOf DEF Looked, Ended
  <2>4. Tree(t) \subseteq Sessions /\ t \in Tree(t) /\ Top \notin Tree(t) /\ Tree(t)' = Tree(t)
    <3>1. Tree(t)' = Tree(t)
      BY <1>4 DEF Tree, LedTo
    <3>2. t \in Tree(t) /\ Tree(t) \subseteq Sessions \cup {t}
      BY LedToCloses DEF Tree
    <3>. QED
      BY <2>3, <3>1, <3>2, Constants
  <2>5. ASSUME NEW y \in Runs, runs[y].session \in Tree(t)
        PROVE  /\ y # n /\ Unmarked(y) /\ <<"late", y>> \notin exempt'
               /\ {<<"late", y>>, <<"killed", y>>, <<"steered", y>>} \cap exempt = {}
    <3>1. y # n
      BY <1>2, <2>4, <2>5
    <3>2. runs'[y].session \in LedTo(runs[r].session, Sessions)'
      BY <1>8, <2>3, <2>4, <2>5, <3>1 DEF Tree
    <3>3. {<<"late", y>>, <<"killed", y>>, <<"steered", y>>} \cap exempt' = {}
      BY <3>2 DEF Undisturbed
    <3>. QED
      BY <1>4, <3>1, <3>3 DEF Unmarked
  <2>6. PendingBelow(t) = {}
    <3>1. Undisturbed(r)
      BY <2>2, <2>5 DEF Undisturbed, Tree
    <3>. QED
      BY <2>1, <2>2, <3>1 DEF TreeInv, NothingBelow
  <2>7. ASSUME NEW y \in Known, arranged.requester[Snapshot[y].session] \in Reached(t)
        PROVE  /\ y \in Runs /\ Snapshot[y].session = runs[y].session /\ runs[y].session \in Tree(t)
               /\ Snapshot[y].ended # "no" /\ Snapshot[y].settled
    <3>1. y \in Runs /\ Snapshot[y].session = runs[y].session
      BY <1>0 DEF Known, Snapshot, GoodFile
    <3>2. Snapshot[y].session \in Reached(t)
      BY <2>7, LedToCloses DEF Reached
    <3>3. ~Pending(y)
      BY <2>6, <2>7 DEF PendingBelow, Below
    <3>. QED
      BY <1>0, <3>1, <3>2, <3>3, ReachedInTree DEF Pending
  <2>8. ASSUME known, arranged.requester[s] \in Reached(t) PROVE FALSE
    <3>. DEFINE q == arranged.requester[s]
    <3>1. CASE Unforeseen(l)
      <4>1. \E y \in Runs : Ended(y) /\ runs[y].session = q
        <5>1. CASE q = t
          BY <2>2, <2>3, <5>1
        <5>2. CASE q # t
          <6>1. q \in {Snapshot[k].session : k \in Known} /\ arranged.requester[q] \in Reached(t)
            BY <2>8, <5>2, LedToByAnother DEF Reached
          <6>2. PICK k \in Known : q = Snapshot[k].session
            BY <6>1
          <6>3. /\ k \in Runs /\ runs[k].session = q /\ q \in Tree(t) /\ Snapshot[k].ended # "no"
            BY <2>7, <6>1, <6>2
          <6>4. Filed(runs[k], disk[k], flow[k])
            BY <1>0, <2>5, <6>3 DEF GoodFile
          <6>5. runs[k].ended # "no"
            BY <6>3, <6>4 DEF Snapshot, Filed
          <6>. QED
            BY <6>3, <6>5 DEF Ended
        <5>. QED
          BY <5>1, <5>2
      <4>2. PICK y \in Runs : Ended(y) /\ runs[y].session = q
        BY <4>1
      <4>3. <<"late", y>> \in exempt'
        BY <1>1, <3>1, <4>2 DEF Recorded
      <4>4. q \in Tree(t)
        BY <1>0, <2>8, ReachedInTree
      <4>. QED
        BY <2>5, <4>2, <4>3, <4>4
    <3>2. CASE ~Unforeseen(l)
      <4>1. how # "spawn" /\ p \in Runs /\ Listed(p) /\ runs[p].session = s
        BY <1>1, <1>2, <3>2 DEF Unforeseen
      <4>2. p \in Known /\ Snapshot[p] = runs[p]
        BY <4>1 DEF Known, Snapshot, Listed
      <4>3. runs[p].settled /\ runs[p].session \in Tree(t)
        BY <2>7, <2>8, <4>1, <4>2
      <4>4. Unmarked(p)
        BY <2>5, <4>1, <4>3
      <4>5. how # "wake"
        BY <1>0, <1>2, <4>1, <4>3, <4>4 DEF GoodFile, Filed, Coming, Listed
      <4>6. how \notin Steers
        BY <1>2, <4>1, <4>3, <4>4 DEF TreeInv, UnsettledSteers
      <4>. QED
        BY <1>1, <4>1, <4>5, <4>6
    <3>. QED
      BY <3>1, <3>2
  <2>9. ASSUME NEW y \in Runs, Snapshot'[y].listed,
               arranged.requester[Snapshot'[y].session] \in Reached(t)
        PROVE  /\ Snapshot[y].listed /\ Snapshot'[y].session = Snapshot[y].session
               /\ Pending(y)' => Pending(y)
    <3>1. CASE ~known
      <4>1. Snapshot' = Snapshot
        BY <1>5, <3>1 DEF Snapshot, Listed
      <4>. QED
        BY <2>9, <4>1 DEF Pending
    <3>2. CASE known
      <4>1. y # n
        <5>1. y = n => Snapshot'[y] = x
          BY <1>9, <3>2 DEF Snapshot
        <5>. QED
          BY <1>7, <2>8, <2>9, <3>2, <5>1
      <4>2. Snapshot'[y] = runs'[y]
        BY <1>8, <3>2, <4>1 DEF Snapshot
      <4>3. y # p
        BY <1>8, <2>9, <3>2, <4>1, <4>2
      <4>4. runs'[y] = runs[y] /\ Snapshot[y] = runs[y]
        BY <1>8, <2>9, <3>2, <4>1, <4>2, <4>3 DEF Snapshot, Listed
      <4>. QED
        BY <2>9, <4>2, <4>4 DEF Pending
    <3>. QED
      BY <3>1, <3>2
  <2>10. PendingBelow(t)' = {}
    BY <1>0, <1>4, <2>6, <2>9, StillNothingBelow
  <2>. QED
    BY <2>3, <2>10 DEF PendingBelow, Below, Reached
<1>. QED
  BY <1>10, <1>11, <1>12, <1>13, <1>14 DEF TreeInv

-----------------------------------------------------------------------------
(* At first nothing is under way.                                          *)
LEMMA TreeInvInit == Init => TreeInv
<1>. SUFFICES ASSUME Init PROVE TreeInv
  OBVIOUS
<1>1. PICK x : x = Blank
  OBVIOUS
<1>2. x.session = Top /\ x.suppressed = "no" /\ x.ended = "no" /\ x.settled = FALSE /\ x.listed = FALSE
  BY <1>1 DEF Blank, Unlisted, Fresh
<1>3. /\ runs = [r \in Runs |-> x] /\ disk = runs /\ launches = {}
      /\ retryTimers = {} /\ backoffTimers = {}
      /\ flow = [r \in Runs |-> "none"] /\ steering = [s \in Steers |-> NoRun]
  BY <1>1 DEF Init
<1>4. GoodFile
  BY <1>2, <1>3 DEF GoodFile, Filed
<1>5. GoodTimers
  BY <1>3 DEF GoodTimers
<1>6. UnsettledSteers
  BY <1>3, Constants DEF UnsettledSteers
<1>7. GoodAims
  BY <1>2, <1>3 DEF GoodAims
<1>8. NothingBelow
  BY <1>3 DEF NothingBelow, Looked
<1>. QED
  BY <1>4, <1>5, <1>6, <1>7, <1>8 DEF TreeInv

(* Every step keeps the invariant.                                         *)
LEMMA TreeInvStep == RegistryInv /\ RegistryInv' /\ TreeInv /\ [Next]_vars => TreeInv'
<1>. SUFFICES ASSUME RegistryInv, RegistryInv', TreeInv, [Next]_vars PROVE TreeInv'
  OBVIOUS
<1>1. ASSUME NEW r \in Runs, Continues(r) PROVE TreeInv'
  <2>1. CASE RetryTimerRings(r) \/ BackoffTimerRings(r)
    BY <2>1, TimersTree
  <2>2. CASE GraceEnds(r) \/ WaitReturns(r)
    BY <2>2, CompletionTree
  <2>3. CASE Looks(r) \/ Delivers(r)
    BY <2>3, FlowTree
  <2>4. CASE Wakes(r)
    BY <2>4, WakesTree
  <2>5. CASE Announced(r)
    BY <2>5, AnnouncedTree
  <2>6. CASE Failed(r)
    BY <2>6, FailedTree
  <2>7. CASE CleanupHookReturns(r)
    BY <2>7, CleanupHookReturnsTree
  <2>. QED
    BY <1>1, <2>1, <2>2, <2>3, <2>4, <2>5, <2>6, <2>7 DEF Continues
<1>2. ASSUME NEW r \in Runs, StillActive(r) PROVE TreeInv'
  BY <1>2, FlowTree
<1>3. ASSUME NEW r \in Runs, Ages(r) PROVE TreeInv'
  BY <1>3, AgesTree
<1>4. ASSUME NEW r \in Runs, WaitTimesOut(r) \/ ChildEnds(r) PROVE TreeInv'
  BY <1>4, CompletionTree
<1>5. ASSUME NEW r \in Runs, Sweeps(r) PROVE TreeInv'
  BY <1>5, SweepsTree
<1>6. ASSUME NEW r \in Runs, ChildErrs(r) \/ ChildRetries(r) PROVE TreeInv'
  BY <1>6, ChildTree
<1>7. ASSUME NEW r \in Runs, NEW s \in Steers, SteerMarks(s, r) PROVE TreeInv'
  BY <1>7, SteerMarksTree
<1>8. ASSUME NEW s \in Sessions, Spawn(s) PROVE TreeInv'
  BY <1>8, SpawnTree
<1>9. ASSUME NEW s \in Sessions, Kill(s) PROVE TreeInv'
  BY <1>9, KillTree
<1>10. ASSUME NEW l \in launches, Recorded(l) PROVE TreeInv'
  BY <1>10, RecordedTree
<1>11. ASSUME NEW c \in completing, Frozen(c) PROVE TreeInv'
  BY <1>11, FrozenTree
<1>12. ASSUME NEW c \in completing, HookReturns(c) PROVE TreeInv'
  BY <1>12, HookReturnsTree
<1>13. ASSUME NEW s \in Steers, SteerLaunches(s) PROVE TreeInv'
  BY <1>13, SteerLaunchesTree
<1>14. ASSUME NEW s \in Steers, SteerFails(s) PROVE TreeInv'
  BY <1>14, SteerFailsTree
<1>15. CASE SweepEnds
  BY <1>15, SweepEndsTree
<1>16. CASE Restarts
  BY <1>16, RestartsTree
<1>17. CASE UNCHANGED vars
  BY <1>17, StillTree
<1>. QED
  BY <1>1, <1>2, <1>3, <1>4, <1>5, <1>6, <1>7, <1>8, <1>9, <1>10, <1>11, <1>12, <1>13, <1>14,
     <1>15, <1>16, <1>17 DEF Next

(* What a run that looked below it relies on until its result goes out     *)
(* (runSubagentAnnounceFlow reads the registry once, before it awaits).    *)
THEOREM TreeInvariant == Spec => [](RegistryInv /\ TreeInv)
<1>1. Init => RegistryInv /\ TreeInv
  BY RegistryInvInit, TreeInvInit
<1>2. RegistryInv /\ TreeInv /\ [Next]_vars => RegistryInv' /\ TreeInv'
  BY RegistryInvStep, TreeInvStep
<1>. QED
  BY <1>1, <1>2, PTL DEF Spec

(* A result goes out only after all runs below it are through with theirs, *)
(* unless one of those, or the run itself, was disturbed in one of the     *)
(* ways that Undisturbed excludes.                                         *)
THEOREM ChildrenAreFirst == Spec => ChildrenFirst
<1>. DEFINE First == \A r \in Runs : delivered'[r] # delivered[r] /\ Undisturbed(r)
                       => PendingBelow(runs[r].session) = {}
<1>1. RegistryInv /\ TreeInv /\ [Next]_vars => [First]_vars
  <2>. SUFFICES ASSUME RegistryInv, TreeInv, [Next]_vars,
                       NEW r \in Runs, delivered'[r] # delivered[r], Undisturbed(r)
                PROVE  PendingBelow(runs[r].session) = {}
    OBVIOUS
  <2>1. PICK y \in Runs : Delivers(y)
    BY WhoDelivers
  <2>2. flow[y] = "delivering" /\ y = r
    BY <2>1 DEF Delivers, RegistryInv, Types
  <2>. QED
    BY <2>2 DEF TreeInv, NothingBelow, Looked
<1>. QED
  BY <1>1, TreeInvariant, PTL DEF Spec, ChildrenFirst
=============================================================================
