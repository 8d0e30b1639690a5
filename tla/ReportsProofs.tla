--------------------------- MODULE ReportsProofs ----------------------------
(***************************************************************************)
(* Proofs about the three places that decide whether something is worth an *)
(* event, for any number of cues, formats and reasons, tables of any size  *)
(* and any of the times: a cue is not kept quiet nor reported again but    *)
(* for the reasons given, a change of format that lasts is not missed, and *)
(* the status of a listener is true.                                       *)
(***************************************************************************)
EXTENDS MCReports, FiniteSetTheorems, TLAPS

-----------------------------------------------------------------------------
(* The cues: the inductive invariant                                       *)

(* What the table forgot was seen no later than all it holds, and only     *)
(* finitely many cues have been seen.                                      *)
Seen == {c \in Cues : sighted[c] >= 0}
Forgotten ==
    \A c \in Cues : sighted[c] >= 0 /\ Known(c) = {} =>
        \A i \in Slots : recent[i] # NULL /\ sighted[c] <= seenAt[i]
CueInv == TypeOK /\ TableExact /\ Forgotten /\ IsFiniteSet(Seen)

LEMMA CueInit == Init => CueInv
<1> SUFFICES ASSUME Init PROVE CueInv
  OBVIOUS
<1>1. TypeOK /\ TableExact
  <2>1. now = 0 /\ 0 \in 0 .. MaxTime /\ 0 \in 0 .. now /\ -1 \in -1 .. now
    BY TimeAssumption DEF Init
  <2>2. /\ recent \in [Slots -> Cues \cup {NULL}] /\ seenAt \in [Slots -> 0 .. now]
        /\ sighted \in [Cues -> -1 .. now]
    BY <2>1 DEF Init
  <2> QED BY <2>1, <2>2 DEF Init, TypeOK, TableExact
<1>2. Forgotten
  BY DEF Init, Forgotten
<1>3. Seen = {}
  BY DEF Init, Seen
<1> QED BY <1>1, <1>2, <1>3, FS_EmptySet DEF CueInv

(* A section adds its cue to those seen, and to no other's time.           *)
LEMMA Heard ==
  ASSUME CueInv, NEW c \in Cues, Hears(c)
  PROVE  /\ now' = now /\ now \in Nat /\ now \in 0 .. MaxTime
         /\ heard' \in Cues \cup {NULL}
         /\ sighted' \in [Cues -> -1 .. now] /\ sighted'[c] = now
         /\ \A d \in Cues : d # c => sighted'[d] = sighted[d]
         /\ IsFiniteSet(Seen)'
<1>1. now' = now /\ now \in Nat /\ now \in 0 .. MaxTime /\ heard' \in Cues \cup {NULL}
  BY TimeAssumption DEF CueInv, TypeOK, Hears
<1>2. /\ sighted' \in [Cues -> -1 .. now] /\ sighted'[c] = now
      /\ \A d \in Cues : d # c => sighted'[d] = sighted[d]
  BY <1>1 DEF CueInv, TypeOK, Hears
<1>3. Seen' = Seen \cup {c}
  BY <1>1, <1>2 DEF Seen
<1>4. IsFiniteSet(Seen \cup {c})
  BY FS_AddElement DEF CueInv
<1> QED BY <1>1, <1>2, <1>3, <1>4

LEMMA AgainInv ==
  ASSUME CueInv, NEW c \in Cues, Again(c)
  PROVE  CueInv'
<1>1. TypeOK /\ TableExact /\ Forgotten
  BY DEF CueInv
<1>2. /\ now' = now /\ now \in Nat /\ now \in 0 .. MaxTime
      /\ heard' \in Cues \cup {NULL}
      /\ sighted' \in [Cues -> -1 .. now] /\ sighted'[c] = now
      /\ \A d \in Cues : d # c => sighted'[d] = sighted[d]
      /\ IsFiniteSet(Seen)'
  BY Heard DEF Again
<1>3. PICK i \in Slots : /\ recent[i] = c /\ told' = ~Repeats(i)
                         /\ seenAt' = [seenAt EXCEPT ![i] = now]
  BY DEF Again, Known, Noted
<1>4. /\ recent' = recent /\ recent \in [Slots -> Cues \cup {NULL}]
      /\ seenAt \in [Slots -> 0 .. now]
  BY <1>1 DEF Again, TypeOK
<1>5. /\ seenAt' \in [Slots -> 0 .. now] /\ seenAt'[i] = now
      /\ \A j \in Slots : j # i => seenAt'[j] = seenAt[j]
  BY <1>2, <1>3, <1>4
<1>6. told' \in BOOLEAN
  BY <1>3, Zenon
<1>7. TypeOK'
  BY <1>2, <1>4, <1>5, <1>6 DEF TypeOK
<1>8. TableExact'
  <2>1. ASSUME NEW j \in Slots, recent[j] # NULL
        PROVE  seenAt'[j] = sighted'[recent[j]]
    <3>1. recent[j] \in Cues
      BY <1>4, <2>1
    <3>2. CASE j = i
      BY <1>2, <1>3, <1>5, <3>2
    <3>3. CASE j # i
      <4>1. recent[j] # c
        BY <1>1, <1>3, <2>1, <3>3 DEF TableExact
      <4> QED BY <1>1, <1>2, <1>5, <2>1, <3>1, <3>3, <4>1 DEF TableExact
    <3> QED BY <3>2, <3>3
  <2> QED BY <1>1, <1>4, <2>1 DEF TableExact
<1>9. Forgotten'
  <2>1. ASSUME NEW d \in Cues, sighted'[d] >= 0, Known(d)' = {}, NEW j \in Slots
        PROVE  recent'[j] # NULL /\ sighted'[d] <= seenAt'[j]
    <3>1. d # c /\ Known(d) = {}
      BY <1>3, <1>4, <2>1 DEF Known
    <3>2. recent[j] # NULL /\ sighted[d] <= seenAt[j] /\ sighted'[d] = sighted[d]
      BY <1>1, <1>2, <2>1, <3>1 DEF Forgotten
    <3>3. sighted[d] \in -1 .. now /\ seenAt[j] \in 0 .. now
      BY <1>1 DEF TypeOK
    <3> QED BY <1>2, <1>4, <1>5, <3>2, <3>3
  <2> QED BY <2>1 DEF Forgotten
<1> QED BY <1>2, <1>7, <1>8, <1>9 DEF CueInv

(* The slot taken is free, or the one seen longest ago.                    *)
LEMMA VictimFacts ==
  ASSUME CueInv, NEW i \in Slots, IsVictim(i)
  PROVE  \/ recent[i] = NULL
         \/ \A j \in Slots : recent[j] # NULL /\ seenAt[i] <= seenAt[j]
BY DEF IsVictim

LEMMA FreshInv ==
  ASSUME CueInv, NEW c \in Cues, Fresh(c)
  PROVE  CueInv'
<1>1. TypeOK /\ TableExact /\ Forgotten
  BY DEF CueInv
<1>2. /\ now' = now /\ now \in Nat /\ now \in 0 .. MaxTime
      /\ heard' \in Cues \cup {NULL}
      /\ sighted' \in [Cues -> -1 .. now] /\ sighted'[c] = now
      /\ \A d \in Cues : d # c => sighted'[d] = sighted[d]
      /\ IsFiniteSet(Seen)'
  BY Heard DEF Fresh
<1>3. PICK i \in Slots : /\ IsVictim(i)
                         /\ recent' = [recent EXCEPT ![i] = c]
                         /\ seenAt' = [seenAt EXCEPT ![i] = now]
  BY DEF Fresh
<1>4. /\ recent \in [Slots -> Cues \cup {NULL}] /\ seenAt \in [Slots -> 0 .. now]
      /\ \A j \in Slots : recent[j] # c
      /\ told' = TRUE /\ c # NULL
  BY <1>1, NullAssumption DEF Fresh, New, Known, TypeOK
<1>5. /\ recent' \in [Slots -> Cues \cup {NULL}] /\ recent'[i] = c
      /\ seenAt' \in [Slots -> 0 .. now] /\ seenAt'[i] = now
      /\ \A j \in Slots : j # i => recent'[j] = recent[j] /\ seenAt'[j] = seenAt[j]
  BY <1>2, <1>3, <1>4
<1>6. TypeOK'
  BY <1>2, <1>4, <1>5 DEF TypeOK
<1>7. TableExact'
  <2>1. ASSUME NEW j \in Slots, recent'[j] # NULL
        PROVE  seenAt'[j] = sighted'[recent'[j]]
    <3>1. CASE j = i
      BY <1>2, <1>5, <3>1
    <3>2. CASE j # i
      <4>1. recent[j] # NULL /\ recent[j] \in Cues /\ recent[j] # c
        BY <1>4, <1>5, <2>1, <3>2
      <4> QED BY <1>1, <1>2, <1>5, <3>2, <4>1 DEF TableExact
    <3> QED BY <3>1, <3>2
  <2>2. ASSUME NEW j \in Slots, NEW k \in Slots, recent'[j] = recent'[k], recent'[j] # NULL
        PROVE  j = k
    BY <1>1, <1>4, <1>5, <2>2 DEF TableExact
  <2> QED BY <2>1, <2>2 DEF TableExact
<1>8. Forgotten'
  <2>1. ASSUME NEW d \in Cues, sighted'[d] >= 0, Known(d)' = {}, NEW j \in Slots
        PROVE  recent'[j] # NULL /\ sighted'[d] <= seenAt'[j]
    <3>1. d # c /\ sighted'[d] = sighted[d] /\ \A k \in Slots : recent'[k] # d
      BY <1>2, <1>5, <2>1 DEF Known
    <3>2. /\ sighted[d] \in -1 .. now
          /\ \A k \in Slots : seenAt[k] \in 0 .. now
      BY <1>1 DEF TypeOK
    <3>3. \A k \in Slots : recent[k] # NULL /\ sighted[d] <= seenAt[k]
      <4>1. CASE Known(d) = {}
        BY <1>1, <2>1, <3>1, <4>1 DEF Forgotten
      <4>2. CASE Known(d) # {}
        <5>1. recent[i] = d
          BY <1>5, <3>1, <4>2 DEF Known
        <5>2. recent[i] # NULL /\ seenAt[i] = sighted[d]
          BY <1>1, <5>1, NullAssumption DEF TableExact
        <5> QED BY <1>3, <3>2, <5>2, VictimFacts
      <4> QED BY <4>1, <4>2
    <3> QED BY <1>2, <1>4, <1>5, <3>1, <3>2, <3>3
  <2> QED BY <2>1 DEF Forgotten
<1> QED BY <1>2, <1>6, <1>7, <1>8 DEF CueInv

LEMMA TickInv ==
  ASSUME CueInv, Tick
  PROVE  CueInv'
<1>1. TypeOK /\ TableExact /\ Forgotten
  BY DEF CueInv
<1>2. /\ now' = now + 1 /\ now < MaxTime /\ now \in Nat
      /\ UNCHANGED <<recent, seenAt, heard, told, sighted>>
  BY <1>1, TimeAssumption DEF Tick, TypeOK
<1>3. TypeOK'
  <2>1. now' \in 0 .. MaxTime
    BY <1>2, TimeAssumption
  <2>2. seenAt \in [Slots -> 0 .. now'] /\ sighted \in [Cues -> -1 .. now']
    BY <1>1, <1>2 DEF TypeOK
  <2> QED BY <1>1, <1>2, <2>1, <2>2 DEF TypeOK
<1>4. TableExact' /\ Forgotten' /\ IsFiniteSet(Seen)'
  BY <1>1, <1>2 DEF CueInv, TableExact, Forgotten, Known, Seen
<1> QED BY <1>3, <1>4 DEF CueInv

LEMMA CueNext == CueInv /\ [Next]_vars => CueInv'
<1> SUFFICES ASSUME CueInv, [Next]_vars PROVE CueInv'
  OBVIOUS
<1>1. CASE UNCHANGED vars
  BY <1>1 DEF vars, CueInv, TypeOK, TableExact, Forgotten, Known, Seen
<1> QED BY <1>1, AgainInv, FreshInv, TickInv DEF Next

-----------------------------------------------------------------------------
(* The cues: what is reported                                              *)

(* A cue heard in a step was in its section.                               *)
LEMMA HearingFacts ==
  ASSUME CueInv, [Next]_vars, NEW c \in Cues, Hearing(c), ~UNCHANGED vars
  PROVE  \/ Fresh(c)
         \/ \E i \in Slots : recent[i] = c /\ told' = ~Repeats(i)
<1>1. now \in Nat
  BY TimeAssumption DEF CueInv, TypeOK
<1>2. ~Tick
  BY <1>1 DEF Tick, Hearing
<1>3. PICK d \in Cues : Again(d) \/ Fresh(d)
  BY <1>2 DEF Next
<1>4. d = c
  BY <1>3 DEF Again, Fresh, Hears, Hearing
<1>5. CASE Again(c)
  BY <1>5 DEF Again, Known
<1> QED BY <1>3, <1>4, <1>5

(* A slot that remembers a cue remembers when it was last in a section.    *)
LEMMA RepeatsExactly ==
  ASSUME CueInv, NEW c \in Cues, NEW i \in Slots, recent[i] = c
  PROVE  Repeats(i) <=> SeenWithinWindow(c)
<1>1. seenAt[i] = sighted[c] /\ seenAt[i] \in 0 .. now /\ now \in Nat
  BY NullAssumption, TimeAssumption DEF CueInv, TypeOK, TableExact
<1> QED BY <1>1, WindowAssumption DEF Repeats, SeenWithinWindow

(* What the table forgot, it forgot for as many newer cues as it holds.    *)
LEMMA TableFullOfNewer ==
  ASSUME CueInv, NEW c \in Cues, sighted[c] >= 0, Known(c) = {}
  PROVE  Cardinality(Newer(c)) >= K
<1>1. TypeOK /\ TableExact
  BY DEF CueInv
<1>2. \A i \in Slots : recent[i] # NULL /\ sighted[c] <= seenAt[i]
  BY DEF CueInv, Forgotten
<1>3. ASSUME NEW i \in Slots
      PROVE  recent[i] \in Newer(c)
  <2>1. recent[i] \in Cues /\ recent[i] # c
    BY <1>1, <1>2 DEF TypeOK, Known
  <2> QED BY <1>1, <1>2, <2>1 DEF TableExact, TypeOK, Newer
<1>4. recent \in Injection(Slots, Newer(c))
  <2>1. recent \in [Slots -> Newer(c)]
    BY <1>1, <1>3 DEF TypeOK
  <2>2. \A i, j \in Slots : recent[i] = recent[j] => i = j
    BY <1>1, <1>2 DEF TableExact
  <2> QED BY <2>1, <2>2 DEF Injection, IsInjective
<1>5. IsFiniteSet(Newer(c))
  <2>1. \A d \in Cues : sighted[d] \in Int
    BY <1>1 DEF TypeOK
  <2>2. Newer(c) \in SUBSET Seen
    BY <2>1 DEF Newer, Seen
  <2> QED BY <2>2, FS_Subset DEF CueInv
<1>6. Cardinality(Slots) = K
  <2>1. Cardinality(1 .. K) = IF 1 > K THEN 0 ELSE K - 1 + 1
    BY TableAssumption, FS_Interval
  <2> QED BY <2>1, TableAssumption DEF Slots
<1>7. Cardinality(Slots) <= Cardinality(Newer(c)) /\ Cardinality(Newer(c)) \in Nat
  BY <1>4, <1>5, FS_Injection, FS_CardinalityType
<1> QED BY <1>6, <1>7, TableAssumption

LEMMA QuietOnlyForRepeats ==
  ASSUME CueInv, [Next]_vars
  PROVE  [\A c \in Cues : Hearing(c) /\ ~told' => SeenWithinWindow(c)]_vars
<1> SUFFICES ASSUME ~UNCHANGED vars, NEW c \in Cues, Hearing(c), ~told'
             PROVE  SeenWithinWindow(c)
  OBVIOUS
<1>1. ~Fresh(c)
  BY DEF Fresh
<1> QED BY <1>1, HearingFacts, RepeatsExactly

LEMMA ToldAgainOnlyIfForgotten ==
  ASSUME CueInv, [Next]_vars
  PROVE  [\A c \in Cues : Hearing(c) /\ told' /\ SeenWithinWindow(c) =>
             Cardinality(Newer(c)) >= K]_vars
<1> SUFFICES ASSUME ~UNCHANGED vars, NEW c \in Cues,
                    Hearing(c), told', SeenWithinWindow(c)
             PROVE  Cardinality(Newer(c)) >= K
  OBVIOUS
<1>1. Fresh(c)
  BY HearingFacts, RepeatsExactly
<1> QED BY <1>1, TableFullOfNewer DEF Fresh, New, SeenWithinWindow

-----------------------------------------------------------------------------
(* The listener                                                            *)

(* While a listener tries, all that speaks of its failure gives the reason *)
(* last reported, and the last failure had that reason; and each interval  *)
(* that went by whole is in the age of the report.                         *)
Told == event = lastReason /\ file = lastReason /\ cause = lastReason
Untold == event = NULL /\ cause = NULL
Trying == pc \in {"trying", "waiting"}
ListenInv ==
    /\ Listener!TypeOK /\ StatusTrue
    /\ Trying /\ failed => Told /\ lastReason \in Reasons
    /\ Trying /\ ~failed => Untold
    /\ pc = "waiting" => failed /\ age < Hour
    /\ pc = "trying" /\ failed /\ running => age > 0

LEMMA ListenInit == Listener!Init => ListenInv
<1> SUFFICES ASSUME Listener!Init PROVE ListenInv
  OBVIOUS
<1>1. 0 \in 0 .. Hour
  BY HourAssumption
<1> QED BY <1>1 DEF Listener!Init, ListenInv, Listener!TypeOK, StatusTrue,
               Listener!StatusTrue, Trying, Untold

(* A try fails: with news both the log and the card are written anew, and  *)
(* without they already say it.                                            *)
LEMMA TryFailsInv ==
  ASSUME ListenInv, NEW r \in Reasons, Listener!TryFails(r)
  PROVE  /\ ListenInv'
         /\ age' = 0 => cause' # cause \/ age >= Hour
<1>0. /\ Listener!TypeOK /\ age \in 0 .. Hour /\ Hour \in Nat \ {0}
      /\ r # LISTENING /\ r # NULL
  BY HourAssumption, ReasonsAssumption DEF ListenInv, Listener!TypeOK
<1>1. /\ pc = "trying" /\ running /\ pc' = "waiting" /\ failed' = TRUE /\ cause' = r
      /\ running' = running
  BY DEF Listener!TryFails
<1>2. CASE Listener!News(r)
  <2>1. event' = r /\ file' = r /\ lastReason' = r /\ age' = 0
    BY <1>2 DEF Listener!TryFails
  <2>2. ListenInv'
    BY <1>0, <1>1, <2>1 DEF ListenInv, Listener!TypeOK, StatusTrue, Listener!StatusTrue,
       Trying, Told
  <2>3. cause # r \/ age >= Hour
    BY <1>0, <1>1, <1>2 DEF Listener!News, ListenInv, Trying, Told, Untold
  <2> QED BY <1>1, <2>2, <2>3
<1>3. CASE ~Listener!News(r)
  <2>1. UNCHANGED <<event, file, lastReason, age>>
    BY <1>3 DEF Listener!TryFails
  <2>2. failed /\ lastReason = r /\ age < Hour
    BY <1>0, <1>3 DEF Listener!News
  <2>3. Told' /\ age > 0
    BY <1>0, <1>1, <2>1, <2>2 DEF ListenInv, Trying, Told
  <2>4. ListenInv'
    BY <1>0, <1>1, <2>1, <2>2, <2>3 DEF ListenInv, Listener!TypeOK, StatusTrue,
       Listener!StatusTrue, Trying, Told
  <2> QED BY <1>0, <2>1, <2>3, <2>4
<1> QED BY <1>2, <1>3

LEMMA ListenNext == ListenInv /\ [Listener!Next]_(Listener!vars) => ListenInv'
<1> SUFFICES ASSUME ListenInv, [Listener!Next]_(Listener!vars) PROVE ListenInv'
  OBVIOUS
<1>0. /\ Listener!TypeOK /\ age \in 0 .. Hour /\ Hour \in Nat \ {0}
      /\ failed \in BOOLEAN
  BY HourAssumption DEF ListenInv, Listener!TypeOK
<1> USE <1>0 DEF ListenInv, Listener!TypeOK, StatusTrue, Listener!StatusTrue, Trying, Told,
                 Untold
<1>1. ASSUME NEW r \in Reasons, Listener!TryFails(r)
      PROVE  ListenInv'
  BY <1>1, TryFailsInv
<1>2. CASE Listener!TrySucceeds
  BY <1>2 DEF Listener!TrySucceeds, Listener!FileCleared
<1>3. CASE Listener!Waited
  BY <1>3 DEF Listener!Waited
<1>4. CASE Listener!Returns
  BY <1>4 DEF Listener!Returns
<1>5. CASE Listener!Stop
  BY <1>5 DEF Listener!Stop
<1>6. CASE Listener!Restart
  <2>1. /\ running' = TRUE /\ pc' = "trying" /\ failed' = FALSE /\ lastReason' = NULL
        /\ age' = 0 /\ event' = NULL /\ cause' = NULL /\ file' = file
    BY <1>6 DEF Listener!Restart
  <2>2. 0 \in 0 .. Hour
    BY <1>0
  <2>3. Listener!TypeOK'
    BY <2>1, <2>2
  <2> QED BY <2>1, <2>3
<1>7. CASE UNCHANGED Listener!vars
  BY <1>7 DEF Listener!vars
<1> QED BY <1>1, <1>2, <1>3, <1>4, <1>5, <1>6, <1>7 DEF Listener!Next, Listener!Thread

LEMMA SameFailureOnce ==
  ASSUME ListenInv, [Listener!Next]_(Listener!vars)
  PROVE  [pc = "trying" /\ pc' = "waiting" /\ age' = 0 =>
             cause' # cause \/ age >= Hour]_(Listener!vars)
<1> SUFFICES ASSUME Listener!Next, pc = "trying", pc' = "waiting", age' = 0
             PROVE  cause' # cause \/ age >= Hour
  OBVIOUS
<1>1. PICK r \in Reasons : Listener!TryFails(r)
  BY DEF Listener!Next, Listener!Thread, Listener!TrySucceeds, Listener!Waited,
         Listener!Returns, Listener!Stop, Listener!Restart
<1> QED BY <1>1, TryFailsInv

-----------------------------------------------------------------------------
(* The formats                                                             *)

(* A tracker counts what is pending as long as the stream shows it, and    *)
(* what it holds as current is what the stream showed before.              *)
Tracked(t) ==
    /\ {current[t], currentContext[t], pending[t], pendingContext[t]}
       \subseteq Format!Values \cup {NULL}
    /\ pendingCount[t] \in 0 .. (FRAMES - 1)
    /\ current[t] = NULL => pendingCount[t] = 0 /\ run[t] = Format!Nothing
    /\ current[t] # NULL /\ pendingCount[t] = 0 =>
         /\ currentContext[t] \in Format!Values
         /\ run[t].value = current[t] /\ run[t].count \in 1 .. FRAMES
    /\ current[t] # NULL /\ pendingCount[t] > 0 =>
         /\ {currentContext[t], pending[t], pendingContext[t]} \subseteq Format!Values
         /\ pending[t] # current[t]
         /\ run[t].value = pending[t] /\ run[t].count = pendingCount[t]
    /\ report[t] \in Format!Change \cup {NULL}
    /\ report[t] # NULL => /\ run[t] = [value |-> report[t].to, count |-> FRAMES]
                           /\ report[t].from # report[t].to
FormatInv ==
    /\ pendingCount = [t \in Format!Trackers |-> pendingCount[t]]
    /\ \A t \in Format!Trackers : Tracked(t)

LEMMA FormatInit == Format!Init => FormatInv
BY FramesAssumption DEF Format!Init, FormatInv, Tracked, Format!Nothing

(* What a frame does to one tracker: v is its value, x its context.        *)
LEMMA FrameFacts ==
  ASSUME Format!Frame, NEW t \in Format!Trackers
  PROVE  \E v, x \in Format!Values :
           /\ v # Unknown => v # NULL
           /\ LET k == Format!Update(Format!Tracker(t), v, x) IN
              /\ current'[t] = k.current /\ currentContext'[t] = k.currentContext
              /\ pending'[t] = k.pending /\ pendingContext'[t] = k.pendingContext
              /\ pendingCount'[t] = k.pendingCount /\ report'[t] = k.report
           /\ run'[t] = IF v = Unknown THEN run[t] ELSE Format!Counted(run[t], v)
<1> DEFINE value(a, r) == [u \in Format!Trackers |-> IF u = "aspect" THEN a ELSE r]
           context(a, r) == [u \in Format!Trackers |-> IF u = "aspect" THEN r ELSE a]
           after(a, r) == [u \in Format!Trackers |->
               Format!Update(Format!Tracker(u), value(a, r)[u], context(a, r)[u])]
<1>1. PICK a \in Aspects \cup {Unknown}, r \in Resolutions :
        /\ current' = [u \in Format!Trackers |-> after(a, r)[u].current]
        /\ currentContext' = [u \in Format!Trackers |-> after(a, r)[u].currentContext]
        /\ pending' = [u \in Format!Trackers |-> after(a, r)[u].pending]
        /\ pendingContext' = [u \in Format!Trackers |-> after(a, r)[u].pendingContext]
        /\ pendingCount' = [u \in Format!Trackers |-> after(a, r)[u].pendingCount]
        /\ report' = [u \in Format!Trackers |-> after(a, r)[u].report]
        /\ run' = [u \in Format!Trackers |->
               IF value(a, r)[u] = Unknown THEN run[u]
               ELSE Format!Counted(run[u], value(a, r)[u])]
  BY Zenon DEF Format!Frame
<1> DEFINE v == value(a, r)[t]
           x == context(a, r)[t]
<1>2. v \in Format!Values /\ x \in Format!Values /\ (v # Unknown => v # NULL)
  BY FormatsAssumption DEF Format!Values
<1>3. after(a, r)[t] = Format!Update(Format!Tracker(t), v, x)
  OBVIOUS
<1> HIDE DEF value, context, after
<1>4. /\ current'[t] = after(a, r)[t].current
      /\ currentContext'[t] = after(a, r)[t].currentContext
      /\ pending'[t] = after(a, r)[t].pending
      /\ pendingContext'[t] = after(a, r)[t].pendingContext
      /\ pendingCount'[t] = after(a, r)[t].pendingCount
      /\ report'[t] = after(a, r)[t].report
      /\ run'[t] = IF v = Unknown THEN run[t] ELSE Format!Counted(run[t], v)
  BY <1>1
<1> HIDE DEF v, x
<1> QED BY <1>2, <1>3, <1>4

LEMMA CountedFacts ==
  ASSUME NEW h, NEW x
  PROVE  /\ Format!Counted(h, x) = [value |-> x, count |-> Format!Counted(h, x).count]
         /\ Format!Counted(h, x).value = x
         /\ x # h.value => Format!Counted(h, x).count = 1
         /\ x = h.value /\ h.count < FRAMES => Format!Counted(h, x).count = h.count + 1
         /\ x = h.value /\ ~(h.count < FRAMES) => Format!Counted(h, x).count = FRAMES
BY DEF Format!Counted

LEMMA TrackedNext ==
  ASSUME Format!Frame, NEW t \in Format!Trackers, Tracked(t)
  PROVE  Tracked(t)'
<1> DEFINE k0 == Format!Tracker(t)
<1>1. PICK v, x \in Format!Values :
        /\ v # Unknown => v # NULL
        /\ LET k == Format!Update(k0, v, x) IN
           /\ current'[t] = k.current /\ currentContext'[t] = k.currentContext
           /\ pending'[t] = k.pending /\ pendingContext'[t] = k.pendingContext
           /\ pendingCount'[t] = k.pendingCount /\ report'[t] = k.report
        /\ run'[t] = IF v = Unknown THEN run[t] ELSE Format!Counted(run[t], v)
  BY FrameFacts
<1>2. /\ k0.current = current[t] /\ k0.currentContext = currentContext[t]
      /\ k0.pending = pending[t] /\ k0.pendingContext = pendingContext[t]
      /\ k0.pendingCount = pendingCount[t] /\ k0.report = NULL
      /\ k0 = [current |-> current[t], currentContext |-> currentContext[t],
               pending |-> pending[t], pendingContext |-> pendingContext[t],
               pendingCount |-> pendingCount[t], report |-> NULL]
  BY DEF Format!Tracker
<1> HIDE DEF k0
<1>types. /\ FRAMES \in Nat \ {0} /\ pendingCount[t] \in Nat
          /\ pendingCount[t] <= FRAMES - 1 /\ 0 \in 0 .. (FRAMES - 1)
  BY FramesAssumption DEF Tracked
<1>3. CASE v = Unknown
  <2>1. /\ current'[t] = current[t] /\ currentContext'[t] = currentContext[t]
        /\ pending'[t] = pending[t] /\ pendingContext'[t] = pendingContext[t]
        /\ pendingCount'[t] = pendingCount[t] /\ report'[t] = NULL /\ run'[t] = run[t]
    BY <1>1, <1>2, <1>3 DEF Format!Update
  <2> QED BY <2>1 DEF Tracked
<1>4. CASE v # Unknown /\ current[t] = NULL
  <2>1. /\ current'[t] = v /\ currentContext'[t] = x
        /\ pending'[t] = NULL /\ pendingContext'[t] = pendingContext[t]
        /\ pendingCount'[t] = 0 /\ report'[t] = NULL
    BY <1>1, <1>2, <1>4 DEF Format!Update, Format!Baseline
  <2>2. run'[t].value = v /\ run'[t].count = 1
    <3>1. run[t].value = NULL
      BY <1>4 DEF Tracked, Format!Nothing
    <3> QED BY <1>1, <1>4, <3>1, CountedFacts
  <2>3. 1 \in 1 .. FRAMES
    BY <1>types
  <2> QED BY <1>1, <1>4, <1>types, <2>1, <2>2, <2>3 DEF Tracked
<1>5. CASE v # Unknown /\ current[t] # NULL /\ v = current[t]
  <2>1. /\ current'[t] = v /\ currentContext'[t] = currentContext[t]
        /\ pending'[t] = NULL /\ pendingContext'[t] = pendingContext[t]
        /\ pendingCount'[t] = 0 /\ report'[t] = NULL
    BY <1>1, <1>2, <1>5 DEF Format!Update, Format!GlitchOver
  <2>2. run'[t].value = v /\ run'[t].count \in 1 .. FRAMES
    <3>1. pendingCount[t] = 0 => run[t].count \in 1 .. FRAMES
      BY <1>5 DEF Tracked
    <3>2. pendingCount[t] > 0 => run[t].value # v
      BY <1>5 DEF Tracked
    <3>3. run'[t] = Format!Counted(run[t], v)
      BY <1>1, <1>5
    <3>4. CASE run[t].value # v
      BY <1>types, <3>3, <3>4, CountedFacts
    <3>5. CASE run[t].value = v
      <4>1. run[t].count \in 1 .. FRAMES
        BY <1>types, <3>1, <3>2, <3>5
      <4> QED BY <1>types, <3>3, <3>5, <4>1, CountedFacts
    <3> QED BY <3>4, <3>5
  <2>3. currentContext[t] \in Format!Values
    BY <1>5, <1>types DEF Tracked
  <2> QED BY <1>1, <1>5, <1>types, <2>1, <2>2, <2>3 DEF Tracked
<1>6. CASE v # Unknown /\ current[t] # NULL /\ v # current[t]
  <2> DEFINE p == Format!Pending(k0, v, x)
  <2>1. /\ p.current = current[t] /\ p.currentContext = currentContext[t]
        /\ p.pending = v /\ p.report = NULL
        /\ p.pendingContext \in Format!Values
        /\ run'[t] = [value |-> v, count |-> p.pendingCount]
        /\ p.pendingCount \in 1 .. FRAMES
    <3>1. run'[t] = Format!Counted(run[t], v)
      BY <1>1, <1>6
    <3>2. CASE pendingCount[t] > 0 /\ v = pending[t]
      <4>1. p = [k0 EXCEPT !.pendingCount = @ + 1]
        BY <1>2, <3>2 DEF Format!Pending
      <4>2. /\ p.current = current[t] /\ p.currentContext = currentContext[t]
            /\ p.pending = v /\ p.report = NULL /\ p.pendingContext = pendingContext[t]
            /\ p.pendingCount = pendingCount[t] + 1
        BY <1>2, <3>2, <4>1
      <4>3. /\ run[t].value = v /\ run[t].count = pendingCount[t]
            /\ pendingContext[t] \in Format!Values
        BY <1>6, <3>2 DEF Tracked
      <4>4. Format!Counted(run[t], v).count = pendingCount[t] + 1
        BY <1>types, <4>3, CountedFacts
      <4> QED BY <1>types, <3>1, <4>2, <4>3, <4>4, CountedFacts
    <3>3. CASE ~(pendingCount[t] > 0 /\ v = pending[t])
      <4>1. p = [k0 EXCEPT !.pending = v, !.pendingContext = x, !.pendingCount = 1]
        BY <1>2, <3>3 DEF Format!Pending
      <4>2. /\ p.current = current[t] /\ p.currentContext = currentContext[t]
            /\ p.pending = v /\ p.report = NULL /\ p.pendingContext = x
            /\ p.pendingCount = 1
        BY <1>2, <4>1
      <4>3. run[t].value # v
        BY <1>6, <1>types, <3>3 DEF Tracked
      <4> QED BY <1>1, <1>types, <3>1, <4>2, <4>3, CountedFacts
    <3> QED BY <3>2, <3>3
  <2> HIDE DEF p
  <2>2. currentContext[t] \in Format!Values /\ current[t] \in Format!Values
    BY <1>6, <1>types DEF Tracked
  <2>3. CASE Format!Enough(p)
    <3>1. p.pendingCount = FRAMES
      BY <1>types, <2>1, <2>3 DEF Format!Enough
    <3>2. Format!Update(k0, v, x) = Format!Confirmed(p)
      BY <1>2, <1>6, <2>3 DEF Format!Update, p
    <3>3. /\ Format!Confirmed(p).current = v
          /\ Format!Confirmed(p).currentContext = p.pendingContext
          /\ Format!Confirmed(p).pending = NULL
          /\ Format!Confirmed(p).pendingContext = p.pendingContext
          /\ Format!Confirmed(p).pendingCount = 0
          /\ Format!Confirmed(p).report =
               [from |-> current[t], fromContext |-> currentContext[t],
                to |-> v, toContext |-> p.pendingContext]
      BY <2>1 DEF Format!Confirmed
    <3> QED BY <1>1, <1>6, <1>types, <2>1, <2>2, <3>1, <3>2, <3>3 DEF Tracked, Format!Change
  <2>4. CASE ~Format!Enough(p)
    <3>1. p.pendingCount \in 0 .. (FRAMES - 1) /\ p.pendingCount > 0
      BY <1>types, <2>1, <2>4 DEF Format!Enough
    <3>2. Format!Update(k0, v, x) = p
      BY <1>2, <1>6, <2>4 DEF Format!Update, p
    <3> QED BY <1>1, <1>6, <2>1, <2>2, <3>1, <3>2 DEF Tracked
  <2> QED BY <2>3, <2>4
<1> QED BY <1>3, <1>4, <1>5, <1>6

LEMMA FormatNext == FormatInv /\ [Format!Frame]_formatVars => FormatInv'
<1> SUFFICES ASSUME FormatInv, [Format!Frame]_formatVars PROVE FormatInv'
  OBVIOUS
<1>1. CASE Format!Frame
  <2>1. pendingCount' = [t \in Format!Trackers |-> pendingCount'[t]]
    BY <1>1 DEF Format!Frame
  <2> QED BY <1>1, <2>1, TrackedNext DEF FormatInv
<1>2. CASE UNCHANGED formatVars
  BY <1>2 DEF formatVars, FormatInv, Tracked
<1> QED BY <1>1, <1>2

-----------------------------------------------------------------------------
(* The theorems                                                            *)

AllInv == CueInv /\ FormatInv /\ ListenInv

(* A step of one of the three is a step of its own or leaves it alone.     *)
LEMMA StepParts ==
  ASSUME [AllNext]_allVars
  PROVE  /\ [Next]_vars /\ [Format!Frame]_formatVars
         /\ [Listener!Next]_(Listener!vars)
<1> USE DEF formatVars, listenerVars, vars, Listener!vars
<1>1. CASE CueSteps
  BY <1>1 DEF CueSteps
<1>2. CASE FormatSteps
  BY <1>2 DEF FormatSteps
<1>3. CASE ListenerSteps
  BY <1>3 DEF ListenerSteps
<1>4. CASE UNCHANGED allVars
  BY <1>4 DEF allVars
<1> QED BY <1>1, <1>2, <1>3, <1>4 DEF AllNext

(* The inductive invariants of the three hold together.                    *)
THEOREM Invariance == AllSpec => []AllInv
<1>1. AllInit => AllInv
  BY CueInit, FormatInit, ListenInit DEF AllInit, AllInv
<1>2. AllInv /\ [AllNext]_allVars => AllInv'
  BY StepParts, CueNext, FormatNext, ListenNext DEF AllInv
<1> QED BY <1>1, <1>2, PTL DEF AllSpec

(* Every field keeps its type: no section is noted for a time to come, no  *)
(* pending change outlives its confirmation, no report is older than an    *)
(* hour.                                                                   *)
THEOREM TypesCorrect == AllSpec => []ReportTypeOK
<1>1. FormatInv => Format!TypeOK
  <2> SUFFICES ASSUME FormatInv PROVE Format!TypeOK
    OBVIOUS
  <2>1. pendingCount \in [Format!Trackers -> 0 .. (FRAMES - 1)]
    BY DEF FormatInv, Tracked
  <2>2. \A t \in Format!Trackers :
          /\ current[t] \in Format!Values \cup {NULL}
          /\ currentContext[t] \in Format!Values \cup {NULL}
          /\ pending[t] \in Format!Values \cup {NULL}
          /\ pendingContext[t] \in Format!Values \cup {NULL}
          /\ report[t] \in Format!Change \cup {NULL}
    BY DEF FormatInv, Tracked
  <2> QED BY <2>1, <2>2 DEF Format!TypeOK
<1>2. AllInv => ReportTypeOK
  BY <1>1 DEF AllInv, CueInv, ListenInv, ReportTypeOK
<1> QED BY <1>2, Invariance, PTL

(* The table of recent cues holds no cue twice, and with each the time of  *)
(* its last section.                                                       *)
THEOREM TableExactAlways == AllSpec => []TableExact
<1>1. AllInv => TableExact
  BY DEF AllInv, CueInv
<1> QED BY <1>1, Invariance, PTL

(* A cue is kept quiet only within the window of its last section.         *)
THEOREM NoCueLost == AllSpec => NoLostCue
<1>1. AllInv /\ [AllNext]_allVars =>
        [\A c \in Cues : Hearing(c) /\ ~told' => SeenWithinWindow(c)]_vars
  BY StepParts, QuietOnlyForRepeats DEF AllInv
<1> QED BY <1>1, Invariance, PTL DEF AllSpec, NoLostCue

(* A cue is reported again within the window only if as many other cues as *)
(* the table holds have been seen since.                                   *)
THEOREM NoReportSpurious == AllSpec => NoSpuriousReport
<1>1. AllInv /\ [AllNext]_allVars =>
        [\A c \in Cues : Hearing(c) /\ told' /\ SeenWithinWindow(c) =>
            Cardinality(Newer(c)) >= K]_vars
  BY StepParts, ToldAgainOnlyIfForgotten DEF AllInv
<1> QED BY <1>1, Invariance, PTL DEF AllSpec, NoSpuriousReport

(* A change of format that lasts is never missed, and what is reported was *)
(* shown by as many frames in a row as it takes.                           *)
THEOREM LastingChangesAlways == AllSpec => []LastingChangesReported
<1>1. FormatInv => LastingChangesReported
  <2> SUFFICES ASSUME FormatInv, NEW t \in Format!Trackers
               PROVE  /\ run[t].count = FRAMES => current[t] = run[t].value
                      /\ report[t] # NULL =>
                           /\ run[t] = [value |-> report[t].to, count |-> FRAMES]
                           /\ report[t].from # report[t].to
    BY DEF LastingChangesReported, Format!LastingChangesReported
  <2>1. Tracked(t)
    BY DEF FormatInv
  <2>2. ASSUME run[t].count = FRAMES
        PROVE  current[t] = run[t].value
    BY <2>1, <2>2, FramesAssumption DEF Tracked, Format!Nothing
  <2> QED BY <2>1, <2>2 DEF Tracked
<1>2. AllInv => LastingChangesReported
  BY <1>1 DEF AllInv
<1> QED BY <1>2, Invariance, PTL

(* The event log and the status card give the reason a listener has no     *)
(* port for, and no failure once it has one.                               *)
THEOREM StatusTrueAlways == AllSpec => []StatusTrue
<1>1. AllInv => StatusTrue
  BY DEF AllInv, ListenInv
<1> QED BY <1>1, Invariance, PTL

(* The same failure is not reported twice within the hour.                 *)
THEOREM NoFloodEver == AllSpec => NoFlood
<1>1. AllInv /\ [AllNext]_allVars =>
        [pc = "trying" /\ pc' = "waiting" /\ age' = 0 =>
            cause' # cause \/ age >= Hour]_(Listener!vars)
  BY StepParts, SameFailureOnce DEF AllInv
<1> QED BY <1>1, Invariance, PTL DEF AllSpec, NoFlood, Listener!NoFlood
=============================================================================
