--------------------------- MODULE MonitorProofs ----------------------------
(***************************************************************************)
(* Proofs about what the hub makes of its input, for any programs, streams *)
(* and events and any number of packets: the event log is what the hub     *)
(* sent, whatever is late, lost or stopped on the way; a table is one      *)
(* section that was sent on its PID, however packets are lost and          *)
(* interleave; the errors counted on a stream are its losses and repeats,  *)
(* and a frame without one is filled from one PES, in order and with every *)
(* packet the buffer had room for; a cue is the one the splicer sent,      *)
(* wherever its packet ends (SpliceProofs); no socket is leaked however    *)
(* opening one fails, and the events about the input tell the truth.       *)
(***************************************************************************)
EXTENDS SpliceProofs

-----------------------------------------------------------------------------
(* Sequences that gain or lose an element                                  *)

(* A sequence with one more element, element by element.                   *)
LEMMA Appended ==
  ASSUME NEW S, NEW s \in Seq(S), NEW e \in S
  PROVE  /\ Append(s, e) \in Seq(S) /\ Len(Append(s, e)) = Len(s) + 1
         /\ Append(s, e)[Len(s) + 1] = e
         /\ \A i \in 1 .. Len(s) : Append(s, e)[i] = s[i]
         /\ \A i \in 1 .. Len(s) + 1 : i # Len(s) + 1 => i \in 1 .. Len(s)
BY AppendProperties, LenProperties

(* A sequence without its first element, element by element.               *)
LEMMA Rest ==
  ASSUME NEW S, NEW s \in Seq(S), s # <<>>
  PROVE  /\ Tail(s) \in Seq(S) /\ Len(s) \in Nat /\ 1 \in 1 .. Len(s) /\ Head(s) = s[1]
         /\ \A i \in 1 .. Len(Tail(s)) : Tail(s)[i] = s[i + 1] /\ i + 1 \in 1 .. Len(s)
         /\ \A i \in 1 .. Len(s) : i # 1 => i - 1 \in 1 .. Len(Tail(s)) /\ Tail(s)[i - 1] = s[i]
<1>1. /\ Len(s) \in Nat \ {0} /\ Len(Tail(s)) = Len(s) - 1 /\ Tail(s) \in Seq(S)
      /\ \A i \in 1 .. Len(Tail(s)) : Tail(s)[i] = s[i + 1]
  BY HeadTailProperties, EmptySeq
<1>2. Head(s) = s[1]
  OBVIOUS
<1>3. \A i \in 1 .. Len(s) : i # 1 => i - 1 \in 1 .. Len(Tail(s)) /\ (i - 1) + 1 = i
  BY <1>1
<1> QED BY <1>1, <1>2, <1>3

-----------------------------------------------------------------------------
(* The event log: the inductive invariant                                  *)

(* An event as it was sent, and the events the hub is done with.           *)
Event == [words : Events!Words, n : Nat]
WasSent(e) == e \in Event /\ e.n \in 1 .. Len(said) /\ e.words = said[e.n]
Waiting == {queue[i] : i \in 1 .. Len(queue)}
InLog == {log[i] : i \in 1 .. Len(log)}

(* The types; the thread is posting only if it has an event.               *)
EventTypes ==
    /\ said \in Seq(Events!Words) /\ Len(said) <= MaxEvents
    /\ queue \in Seq(Event) /\ log \in Seq(Event)
    /\ posted \in BOOLEAN /\ (posted => thread # NONE)

(* Every event was sent, wherever it is.                                   *)
SentOnly ==
    /\ \A e \in Waiting \cup posts \cup late \cup InLog : WasSent(e)
    /\ thread # NONE => WasSent(thread)

(* Events wait in the order they were sent. Those on their way and in the  *)
(* log came before all that wait, and before that of the thread, unless it *)
(* is the one just posted.                                                 *)
InTurn ==
    /\ \A i, j \in 1 .. Len(queue) : i < j => queue[i].n < queue[j].n
    /\ \A e \in posts \cup InLog, f \in Waiting : e.n < f.n
    /\ thread # NONE =>
         /\ \A f \in Waiting : thread.n < f.n
         /\ \A e \in posts \cup InLog : e.n < thread.n \/ (posted /\ e.n = thread.n)

(* What is on its way has been given up or is the thread's, and has not    *)
(* been there before.                                                      *)
OnceOnTheWay ==
    /\ \A e \in posts : e \in late \/ (posted /\ e = thread)
    /\ \A e \in posts, f \in InLog : e.n # f.n

(* The two parts of LogFaithful that are about order and copies.           *)
LogInOrder ==
    \A i \in 1 .. Len(log) : \A j \in 1 .. (i - 1) :
        log[j].n < log[i].n \/ (log[j].n # log[i].n /\ log[i] \in late)
CopiesKept ==
    copies = {e \in Waiting \cup {thread} : e # NONE /\ Events!IsCue(e.words)}

EventInv == EventTypes /\ SentOnly /\ InTurn /\ OnceOnTheWay /\ LogInOrder /\ CopiesKept

(* NONE is not an event that was sent.                                     *)
LEMMA NoneIsNoEvent == \A e : WasSent(e) => e # NONE
PROOF
<1> SUFFICES ASSUME WasSent(NONE) PROVE FALSE
  OBVIOUS
<1> QED BY EventsAssumption DEF WasSent, Event

(* The queue, the posts and the log begin empty.                           *)
LEMMA EventInit == Events!Init => EventInv
<1> SUFFICES ASSUME Events!Init PROVE EventInv
  OBVIOUS
<1>1. EventTypes
  <2>1. <<>> \in Seq(Event) /\ <<>> \in Seq(Events!Words) /\ Len(<<>>) = 0
    BY EmptySeq
  <2>2. said \in Seq(Events!Words) /\ queue \in Seq(Event) /\ log \in Seq(Event) /\ Len(said) = 0
    BY <2>1, Zenon DEF Events!Init
  <2>3. posted \in BOOLEAN /\ ~posted
    BY Zenon DEF Events!Init
  <2>4. Len(said) <= MaxEvents
    BY <2>2, EventsAssumption
  <2> QED BY <2>2, <2>3, <2>4 DEF EventTypes
<1>2. Waiting = {} /\ InLog = {} /\ posts = {} /\ late = {} /\ thread = NONE
  BY DEF Events!Init, Waiting, InLog
<1>3. SentOnly /\ InTurn /\ OnceOnTheWay /\ LogInOrder
  BY <1>2 DEF Events!Init, SentOnly, InTurn, OnceOnTheWay, LogInOrder
<1>4. CopiesKept
  BY <1>2 DEF Events!Init, CopiesKept
<1> QED BY <1>1, <1>3, <1>4 DEF EventInv

(* Nothing of the log, the queue or the thread changes.                    *)
LEMMA SendInv ==
  ASSUME EventInv, NEW words \in Events!Words, Events!Send(words)
  PROVE  EventInv'
<1>0. PICK e : e = [words |-> words, n |-> Len(said) + 1]
  OBVIOUS
<1>1. EventTypes /\ SentOnly /\ InTurn /\ OnceOnTheWay /\ LogInOrder /\ CopiesKept
  BY DEF EventInv
<1>2. /\ said' = Append(said, words) /\ queue' = Append(queue, e)
      /\ copies' = IF Events!IsCue(words) THEN copies \cup {e} ELSE copies
      /\ Len(said) < MaxEvents
      /\ thread' = thread /\ posted' = posted /\ posts' = posts /\ log' = log /\ late' = late
  BY <1>0 DEF Events!Send
<1>3. /\ Len(said) \in Nat /\ said' \in Seq(Events!Words) /\ Len(said') = Len(said) + 1
      /\ said'[Len(said) + 1] = words
      /\ \A i \in 1 .. Len(said) : said'[i] = said[i] /\ i \in 1 .. Len(said')
      /\ Len(said) + 1 \in 1 .. Len(said')
  BY <1>1, <1>2, Appended, LenProperties DEF EventTypes
<1>4. e \in Event /\ WasSent(e)'
  BY <1>0, <1>3 DEF Event, WasSent
<1>5. \A f : WasSent(f) => WasSent(f)' /\ f.n < e.n /\ f.n # e.n
  BY <1>0, <1>3 DEF WasSent
<1>6. /\ queue' \in Seq(Event) /\ Len(queue') = Len(queue) + 1 /\ queue'[Len(queue) + 1] = e
      /\ \A i \in 1 .. Len(queue) : queue'[i] = queue[i]
      /\ \A i \in 1 .. Len(queue') : i # Len(queue) + 1 => i \in 1 .. Len(queue)
      /\ Len(queue) \in Nat
  BY <1>1, <1>2, <1>4, Appended, LenProperties DEF EventTypes
<1>7. Waiting' = Waiting \cup {e} /\ InLog' = InLog
  BY <1>2, <1>6 DEF Waiting, InLog
<1>8. EventTypes'
  BY <1>1, <1>2, <1>3, <1>6, EventsAssumption DEF EventTypes
<1>9. SentOnly'
  BY <1>1, <1>2, <1>4, <1>5, <1>7 DEF SentOnly
<1>10. InTurn'
  <2>1. ASSUME NEW i \in 1 .. Len(queue'), NEW j \in 1 .. Len(queue'), i < j
        PROVE  queue'[i].n < queue'[j].n
    <3>1. i \in 1 .. Len(queue) /\ queue'[i] = queue[i] /\ queue[i] \in Waiting
      BY <1>6, <2>1 DEF Waiting
    <3>2. CASE j = Len(queue) + 1
      BY <1>1, <1>5, <1>6, <3>1, <3>2 DEF SentOnly
    <3>3. CASE j # Len(queue) + 1
      BY <1>1, <1>6, <2>1, <3>1, <3>3 DEF InTurn
    <3> QED BY <3>2, <3>3
  <2>2. \A x \in posts \cup InLog, f \in Waiting \cup {e} : x.n < f.n
    BY <1>1, <1>5 DEF InTurn, SentOnly
  <2>3. thread # NONE => \A f \in Waiting \cup {e} : thread.n < f.n
    BY <1>1, <1>5 DEF InTurn, SentOnly
  <2> QED BY <1>1, <1>2, <1>7, <2>1, <2>2, <2>3 DEF InTurn
<1>11. OnceOnTheWay' /\ LogInOrder'
  BY <1>1, <1>2, <1>7 DEF OnceOnTheWay, LogInOrder
<1>12. CopiesKept'
  <2>1. e # NONE /\ e.words = words
    BY <1>0, <1>4, EventsAssumption DEF Event
  <2> QED BY <1>1, <1>2, <1>7, <2>1, Zenon DEF CopiesKept
<1> QED BY <1>8, <1>9, <1>10, <1>11, <1>12 DEF EventInv

(* The thread takes the event that was sent first of those that wait.      *)
LEMMA TakeInv ==
  ASSUME EventInv, Events!Take
  PROVE  EventInv'
<1>1. EventTypes /\ SentOnly /\ InTurn /\ OnceOnTheWay /\ LogInOrder /\ CopiesKept
  BY DEF EventInv
<1>2. /\ queue # <<>> /\ thread = NONE /\ thread' = Head(queue) /\ queue' = Tail(queue)
      /\ said' = said /\ copies' = copies /\ posted' = posted
      /\ posts' = posts /\ log' = log /\ late' = late
  BY DEF Events!Take
<1>3. /\ queue' \in Seq(Event) /\ 1 \in 1 .. Len(queue) /\ thread' = queue[1]
      /\ \A i \in 1 .. Len(queue') : queue'[i] = queue[i + 1] /\ i + 1 \in 1 .. Len(queue)
      /\ \A i \in 1 .. Len(queue) : i # 1 => i - 1 \in 1 .. Len(queue') /\ queue'[i - 1] = queue[i]
  BY <1>1, <1>2, Rest DEF EventTypes
<1>4. Waiting = Waiting' \cup {thread'} /\ InLog' = InLog
  <2>1. \A i \in 1 .. Len(queue) :
          queue[i] = thread' \/ \E j \in 1 .. Len(queue') : queue[i] = queue'[j]
    BY <1>3
  <2>2. \A j \in 1 .. Len(queue') : \E i \in 1 .. Len(queue) : queue'[j] = queue[i]
    BY <1>3
  <2>3. \E i \in 1 .. Len(queue) : queue[i] = thread'
    BY <1>3
  <2>4. Waiting \subseteq Waiting' \cup {thread'}
    BY ONLY <2>1, Zenon DEF Waiting
  <2>5. Waiting' \cup {thread'} \subseteq Waiting
    BY ONLY <2>2, <2>3, Zenon DEF Waiting
  <2>6. InLog' = InLog
    BY <1>2 DEF InLog
  <2> QED BY <2>4, <2>5, <2>6
<1>5. thread' \in Waiting /\ thread' # NONE /\ posted = FALSE
  BY <1>1, <1>2, <1>4, NoneIsNoEvent DEF SentOnly, EventTypes
<1>6. \A e : WasSent(e) => WasSent(e)'
  BY <1>2 DEF WasSent
<1>7. EventTypes'
  BY <1>1, <1>2, <1>3, <1>5 DEF EventTypes
<1>8. SentOnly'
  BY <1>1, <1>2, <1>4, <1>5, <1>6 DEF SentOnly
<1>9. InTurn'
  <2>1. ASSUME NEW i \in 1 .. Len(queue'), NEW j \in 1 .. Len(queue'), i < j
        PROVE  queue'[i].n < queue'[j].n
    <3>1. /\ queue'[i] = queue[i + 1] /\ i + 1 \in 1 .. Len(queue)
          /\ queue'[j] = queue[j + 1] /\ j + 1 \in 1 .. Len(queue) /\ i + 1 < j + 1
      BY <1>3, <2>1
    <3> QED BY <1>1, <3>1 DEF InTurn
  <2>2. ASSUME NEW f \in Waiting'
        PROVE  thread'.n < f.n
    <3>1. PICK i \in 1 .. Len(queue') : f = queue'[i]
      BY DEF Waiting
    <3>2. f = queue[i + 1] /\ i + 1 \in 1 .. Len(queue) /\ 1 < i + 1
      BY <1>3, <3>1
    <3> QED BY <1>1, <1>3, <3>2 DEF InTurn
  <2>3. \A e \in posts \cup InLog : e.n < thread'.n
    BY <1>1, <1>5 DEF InTurn
  <2> QED BY <1>1, <1>2, <1>4, <2>1, <2>2, <2>3 DEF InTurn
<1>10. OnceOnTheWay' /\ LogInOrder'
  <2>1. \A e \in posts : e \in late
    BY <1>1, <1>5 DEF OnceOnTheWay
  <2> QED BY <1>1, <1>2, <1>4, <2>1 DEF OnceOnTheWay, LogInOrder
<1>11. CopiesKept'
  BY <1>1, <1>2, <1>4, Zenon DEF CopiesKept
<1> QED BY <1>7, <1>8, <1>9, <1>10, <1>11 DEF EventInv

(* What is posted is the event all others before are logged or given up.   *)
LEMMA PostInv ==
  ASSUME EventInv, Events!Post
  PROVE  EventInv'
<1>1. EventTypes /\ SentOnly /\ InTurn /\ OnceOnTheWay /\ LogInOrder /\ CopiesKept
  BY DEF EventInv
<1>2. /\ thread # NONE /\ ~posted /\ posted' = TRUE
      /\ posts' = IF runs THEN posts \cup {thread} ELSE posts
      /\ queue' = queue /\ thread' = thread /\ copies' = copies /\ said' = said
      /\ log' = log /\ late' = late
  BY DEF Events!Post
<1>3. Waiting' = Waiting /\ InLog' = InLog /\ posts' \subseteq posts \cup {thread}
  BY <1>2 DEF Waiting, InLog
<1>4. \A e : WasSent(e) => WasSent(e)' /\ e.n \in Int
  BY <1>2 DEF WasSent
<1>5. EventTypes' /\ SentOnly'
  BY <1>1, <1>2, <1>3, <1>4 DEF EventTypes, SentOnly
<1>6. InTurn'
  <2>1. \A e \in posts' \cup InLog, f \in Waiting : e.n < f.n
    BY <1>1, <1>2, <1>3 DEF InTurn
  <2>2. \A e \in posts' \cup InLog : e.n < thread.n \/ e.n = thread.n
    BY <1>1, <1>2, <1>3 DEF InTurn
  <2> QED BY <1>1, <1>2, <1>3, <2>1, <2>2 DEF InTurn
<1>7. OnceOnTheWay'
  <2>1. ASSUME NEW f \in InLog
        PROVE  thread.n # f.n
    <3>1. f.n < thread.n /\ f.n \in Int /\ thread.n \in Int
      BY <1>1, <1>2, <1>4 DEF InTurn, SentOnly
    <3> QED BY <3>1
  <2> QED BY <1>1, <1>2, <1>3, <2>1 DEF OnceOnTheWay
<1>8. LogInOrder' /\ CopiesKept'
  BY <1>1, <1>2, <1>3 DEF LogInOrder, CopiesKept
<1> QED BY <1>5, <1>6, <1>7, <1>8 DEF EventInv

(* The thread is done with its event, which may still be on its way.       *)
LEMMA ReturnInv ==
  ASSUME EventInv, Events!Return
  PROVE  EventInv'
<1>1. EventTypes /\ SentOnly /\ InTurn /\ OnceOnTheWay /\ LogInOrder /\ CopiesKept
  BY DEF EventInv
<1>2. /\ posted /\ posted' = FALSE /\ thread' = NONE /\ copies' = copies \ {thread}
      /\ late' = IF thread \in posts THEN late \cup {thread} ELSE late
      /\ queue' = queue /\ said' = said /\ posts' = posts /\ log' = log
  BY DEF Events!Return, Events!Forgotten
<1>3. Waiting' = Waiting /\ InLog' = InLog
  BY <1>2 DEF Waiting, InLog
<1>4. \A e : WasSent(e) => WasSent(e)' /\ e.n \in Int
  BY <1>2 DEF WasSent
<1>5. thread # NONE /\ thread \notin Waiting
  <2>1. thread # NONE /\ WasSent(thread)
    BY <1>1, <1>2 DEF EventTypes, SentOnly
  <2>2. ASSUME thread \in Waiting
        PROVE  FALSE
    <3>1. thread.n < thread.n /\ thread.n \in Int
      BY <1>1, <1>4, <2>1, <2>2 DEF InTurn
    <3> QED BY <3>1
  <2> QED BY <2>1, <2>2
<1>6. EventTypes'
  BY <1>1, <1>2 DEF EventTypes
<1>7. SentOnly'
  BY <1>1, <1>2, <1>3, <1>4 DEF SentOnly
<1>8. InTurn'
  BY <1>1, <1>2, <1>3 DEF InTurn
<1>9. OnceOnTheWay'
  <2>1. \A e \in posts : e \in late'
    BY <1>1, <1>2 DEF OnceOnTheWay
  <2> QED BY <1>1, <1>2, <1>3, <2>1 DEF OnceOnTheWay
<1>10. LogInOrder'
  BY <1>1, <1>2 DEF LogInOrder
<1>11. CopiesKept'
  BY <1>1, <1>2, <1>3, <1>5, Zenon DEF CopiesKept
<1> QED BY <1>6, <1>7, <1>8, <1>9, <1>10, <1>11 DEF EventInv

(* What arrives has not arrived before; it is the last sent of all in the  *)
(* log, or had been given up.                                              *)
LEMMA ArriveInv ==
  ASSUME EventInv, NEW e \in posts, Events!Arrive(e)
  PROVE  EventInv'
<1>1. EventTypes /\ SentOnly /\ InTurn /\ OnceOnTheWay /\ LogInOrder /\ CopiesKept
  BY DEF EventInv
<1>2. /\ posts' = posts \ {e} /\ log' = Append(log, e)
      /\ queue' = queue /\ said' = said /\ late' = late
      /\ thread' = thread /\ posted' = posted /\ copies' = copies
  BY DEF Events!Arrive, Events!hubVars
<1>3. WasSent(e) /\ e \in Event
  BY <1>1 DEF SentOnly, WasSent
<1>4. /\ log' \in Seq(Event) /\ Len(log') = Len(log) + 1 /\ log'[Len(log) + 1] = e
      /\ \A i \in 1 .. Len(log) : log'[i] = log[i]
      /\ \A i \in 1 .. Len(log') : i # Len(log) + 1 => i \in 1 .. Len(log)
      /\ Len(log) \in Nat
  BY <1>1, <1>2, <1>3, Appended, LenProperties DEF EventTypes
<1>5. Waiting' = Waiting /\ InLog' = InLog \cup {e}
  BY <1>2, <1>4 DEF Waiting, InLog
<1>6. \A f : WasSent(f) => WasSent(f)' /\ f.n \in Int
  BY <1>2 DEF WasSent
<1>7. EventTypes' /\ SentOnly'
  BY <1>1, <1>2, <1>3, <1>4, <1>5, <1>6 DEF EventTypes, SentOnly
<1>8. InTurn'
  BY <1>1, <1>2, <1>5 DEF InTurn
<1>9. OnceOnTheWay'
  <2>1. ASSUME NEW f \in posts'
        PROVE  f \in posts /\ f.n # e.n
    <3>1. f \in posts /\ f # e /\ WasSent(f)
      BY <1>1, <1>2 DEF SentOnly
    <3> QED BY <1>3, <3>1 DEF WasSent, Event
  <2> QED BY <1>1, <1>2, <1>5, <2>1 DEF OnceOnTheWay
<1>10. LogInOrder'
  <2>1. ASSUME NEW i \in 1 .. Len(log'), NEW j \in 1 .. (i - 1)
        PROVE  log'[j].n < log'[i].n \/ (log'[j].n # log'[i].n /\ log'[i] \in late)
    <3>1. j \in 1 .. Len(log) /\ log'[j] = log[j] /\ log[j] \in InLog
      BY <1>4 DEF InLog
    <3>2. CASE i # Len(log) + 1
      BY <1>1, <1>4, <3>1, <3>2 DEF LogInOrder
    <3>3. CASE i = Len(log) + 1
      <4>1. log'[i] = e /\ log[j].n # e.n
        BY <1>1, <1>4, <3>1, <3>3 DEF OnceOnTheWay
      <4>2. e \in late \/ (posted /\ e = thread)
        BY <1>1 DEF OnceOnTheWay
      <4>3. CASE e = thread /\ posted
        <5>1. thread # NONE
          BY <1>1, <4>3 DEF EventTypes
        <5>2. log[j].n < e.n \/ log[j].n = e.n
          BY <1>1, <3>1, <4>3, <5>1 DEF InTurn
        <5> QED BY <1>2, <4>1, <5>2
      <4> QED BY <3>1, <4>1, <4>2, <4>3
    <3> QED BY <3>2, <3>3
  <2> QED BY <1>2, <2>1 DEF LogInOrder
<1>11. CopiesKept'
  BY <1>1, <1>2, <1>5 DEF CopiesKept
<1> QED BY <1>7, <1>8, <1>9, <1>10, <1>11 DEF EventInv

(* The web application forgets what is on its way to it, the hub all it    *)
(* has; what is still on its way then has been given up.                   *)
LEMMA StopsInv ==
  ASSUME EventInv, Events!WebApplication \/ Events!HubStops \/ Events!HubStarts
  PROVE  EventInv'
<1>1. EventTypes /\ SentOnly /\ InTurn /\ OnceOnTheWay /\ LogInOrder /\ CopiesKept
  BY DEF EventInv
<1>2. /\ said' = said /\ log' = log /\ InLog' = InLog
      /\ \A e : WasSent(e) => WasSent(e)'
  BY DEF Events!WebApplication, Events!HubStops, Events!HubStarts, Events!hubVars, InLog, WasSent
<1>3. CASE Events!WebApplication
  <2>1. /\ posts' = {} /\ late' = late /\ queue' = queue /\ Waiting' = Waiting
        /\ thread' = thread /\ posted' = posted /\ copies' = copies
    BY <1>3 DEF Events!WebApplication, Events!hubVars, Waiting
  <2>2. EventTypes' /\ SentOnly' /\ InTurn' /\ OnceOnTheWay'
    BY <1>1, <1>2, <2>1 DEF EventTypes, SentOnly, InTurn, OnceOnTheWay
  <2>3. LogInOrder' /\ CopiesKept'
    BY <1>1, <1>2, <2>1 DEF LogInOrder, CopiesKept
  <2> QED BY <2>2, <2>3 DEF EventInv
<1>4. CASE Events!HubStops
  <2>1. /\ queue' = <<>> /\ thread' = NONE /\ posted' = FALSE /\ copies' = {}
        /\ late' = late \cup posts /\ posts' = posts
    BY <1>4 DEF Events!HubStops
  <2>2. queue' \in Seq(Event) /\ Len(queue') = 0 /\ Waiting' = {}
    BY <2>1, EmptySeq DEF Waiting
  <2>3. EventTypes' /\ SentOnly' /\ InTurn'
    <3>1. EventTypes'
      BY <1>1, <1>2, <2>1, <2>2 DEF EventTypes
    <3>2. SentOnly'
      BY <1>1, <1>2, <2>1, <2>2 DEF SentOnly
    <3>3. InTurn'
      BY <1>1, <1>2, <2>1, <2>2 DEF InTurn
    <3> QED BY <3>1, <3>2, <3>3
  <2>5. OnceOnTheWay'
    BY <1>1, <1>2, <2>1 DEF OnceOnTheWay
  <2>4. LogInOrder' /\ CopiesKept'
    BY <1>1, <1>2, <2>1, <2>2 DEF LogInOrder, CopiesKept
  <2> QED BY <2>3, <2>4, <2>5 DEF EventInv
<1>5. CASE Events!HubStarts
  <2>1. /\ posts' = posts /\ late' = late /\ queue' = queue /\ Waiting' = Waiting
        /\ thread' = thread /\ posted' = posted /\ copies' = copies
    BY <1>5 DEF Events!HubStarts, Waiting
  <2>2. EventTypes' /\ SentOnly' /\ InTurn' /\ OnceOnTheWay'
    BY <1>1, <1>2, <2>1 DEF EventTypes, SentOnly, InTurn, OnceOnTheWay
  <2>3. LogInOrder' /\ CopiesKept'
    BY <1>1, <1>2, <2>1 DEF LogInOrder, CopiesKept
  <2> QED BY <2>2, <2>3 DEF EventInv
<1> QED BY <1>3, <1>4, <1>5

(* No step of the threads, of a post or of a restart breaks it.            *)
LEMMA EventNext ==
  ASSUME EventInv, [Events!Next]_eventVars
  PROVE  EventInv'
<1>1. CASE UNCHANGED eventVars
  <2>1. /\ said' = said /\ queue' = queue /\ thread' = thread /\ posted' = posted
        /\ posts' = posts /\ log' = log /\ late' = late /\ copies' = copies
    BY <1>1 DEF eventVars
  <2>2. EventTypes' /\ SentOnly' /\ InTurn'
    BY <2>1 DEF EventInv, EventTypes, SentOnly, InTurn, WasSent, Waiting, InLog
  <2>3. OnceOnTheWay' /\ LogInOrder' /\ CopiesKept'
    BY <2>1 DEF EventInv, OnceOnTheWay, LogInOrder, CopiesKept, Waiting, InLog
  <2> QED BY <2>2, <2>3 DEF EventInv
<1> QED BY <1>1, SendInv, TakeInv, PostInv, ReturnInv, ArriveInv, StopsInv
        DEF Events!Next, Events!Thread

(* The log page knows each message, and as of one type.                    *)
LEMMA ConnectionMessages ==
  \A m : (\E words \in Events!ConnectionWords : m = Events!Message(words)) <=>
      m \in {"SRT Unable to Listen", "SRT Listening", "SRT Connected",
             "Accepted SRT Connection", "SRT Unable to Connect",
             "SRT Connection Lost", "SRT Error", "Started"}
<1>1. \A m : (\E words \in Events!ConnectionWords : m = Events!Message(words)) <=>
        \/ m = Events!Message(<<"SRT_LISTEN_FAILED", "error", "SRT Unable to Listen">>)
        \/ m = Events!Message(<<"SRT_LISTENING", "success", "SRT Listening">>)
        \/ m = Events!Message(<<"SRT_CONNECTED", "success", "SRT Connected">>)
        \/ m = Events!Message(<<"SRT_CONNECTED", "success", "Accepted SRT Connection">>)
        \/ m = Events!Message(<<"SRT_CONNECTION_LOST", "warning", "SRT Unable to Connect">>)
        \/ m = Events!Message(<<"SRT_CONNECTION_LOST", "warning", "SRT Connection Lost">>)
        \/ m = Events!Message(<<"SRT_CONNECTION_LOST", "warning", "SRT Error">>)
        \/ m = Events!Message(<<"START_SERVICE", "success", "Started">>)
  BY Zenon DEF Events!ConnectionWords
<1>2. /\ Events!Message(<<"SRT_LISTEN_FAILED", "error", "SRT Unable to Listen">>) = "SRT Unable to Listen"
      /\ Events!Message(<<"SRT_LISTENING", "success", "SRT Listening">>) = "SRT Listening"
      /\ Events!Message(<<"SRT_CONNECTED", "success", "SRT Connected">>) = "SRT Connected"
      /\ Events!Message(<<"SRT_CONNECTED", "success", "Accepted SRT Connection">>) = "Accepted SRT Connection"
      /\ Events!Message(<<"SRT_CONNECTION_LOST", "warning", "SRT Unable to Connect">>) = "SRT Unable to Connect"
      /\ Events!Message(<<"SRT_CONNECTION_LOST", "warning", "SRT Connection Lost">>) = "SRT Connection Lost"
      /\ Events!Message(<<"SRT_CONNECTION_LOST", "warning", "SRT Error">>) = "SRT Error"
      /\ Events!Message(<<"START_SERVICE", "success", "Started">>) = "Started"
  BY DEF Events!Message
<1> QED BY <1>1, <1>2

(* The words about the input are read from three messages.                 *)
LEMMA InputMessages ==
  \A m : (\E words \in Events!InputWords : m = Events!Message(words)) <=>
      m \in {"No Data on SRT", "No Input Signal", "Input Signal Locked"}
<1>1. \A m : (\E words \in Events!InputWords : m = Events!Message(words)) <=>
        \/ m = Events!Message(<<"NO_DATA", "warning", "No Data on SRT">>)
        \/ m = Events!Message(<<"NO_INPUT_SIGNAL", "warning", "No Input Signal">>)
        \/ m = Events!Message(<<"INPUT_SIGNAL_LOCKED", "success", "Input Signal Locked">>)
  BY Zenon DEF Events!InputWords
<1>2. /\ Events!Message(<<"NO_DATA", "warning", "No Data on SRT">>) = "No Data on SRT"
      /\ Events!Message(<<"NO_INPUT_SIGNAL", "warning", "No Input Signal">>) = "No Input Signal"
      /\ Events!Message(<<"INPUT_SIGNAL_LOCKED", "success", "Input Signal Locked">>) = "Input Signal Locked"
  BY DEF Events!Message
<1> QED BY <1>1, <1>2

(* Those about its format, from four.                                      *)
LEMMA FormatMessages ==
  \A m : (\E words \in Events!FormatWords : m = Events!Message(words)) <=>
      m \in {"Source aspect ratio changed", "Source resolution changed",
             "Source AFD changed", "Source frame rate changed"}
<1>1. \A m : (\E words \in Events!FormatWords : m = Events!Message(words)) <=>
        \/ m = Events!Message(<<"VIDEO_ASPECT_CHANGE", "warning", "Source aspect ratio changed">>)
        \/ m = Events!Message(<<"VIDEO_RESOLUTION_CHANGE", "warning", "Source resolution changed">>)
        \/ m = Events!Message(<<"VIDEO_AFD_CHANGE", "warning", "Source AFD changed">>)
        \/ m = Events!Message(<<"VIDEO_FRAMERATE_CHANGE", "warning", "Source frame rate changed">>)
  BY Zenon DEF Events!FormatWords
<1>2. /\ Events!Message(<<"VIDEO_ASPECT_CHANGE", "warning", "Source aspect ratio changed">>) = "Source aspect ratio changed"
      /\ Events!Message(<<"VIDEO_RESOLUTION_CHANGE", "warning", "Source resolution changed">>) = "Source resolution changed"
      /\ Events!Message(<<"VIDEO_AFD_CHANGE", "warning", "Source AFD changed">>) = "Source AFD changed"
      /\ Events!Message(<<"VIDEO_FRAMERATE_CHANGE", "warning", "Source frame rate changed">>) = "Source frame rate changed"
  BY DEF Events!Message
<1> QED BY <1>1, <1>2

(* And those about cues, from four.                                        *)
LEMMA CueMessages ==
  \A m : (\E words \in Events!CueWords : m = Events!Message(words)) <=>
      m \in {"SCTE-35 cue out", "SCTE-35 cue in", "SCTE-35 event",
             "SCTE-35 event canceled"}
<1>1. \A m : (\E words \in Events!CueWords : m = Events!Message(words)) <=>
        \/ m = Events!Message(<<"SCTE35_START", "success", "SCTE-35 cue out">>)
        \/ m = Events!Message(<<"SCTE35_END", "success", "SCTE-35 cue in">>)
        \/ m = Events!Message(<<"SCTE35_EVENT", "success", "SCTE-35 event">>)
        \/ m = Events!Message(<<"SCTE35_EVENT", "success", "SCTE-35 event canceled">>)
  BY Zenon DEF Events!CueWords
<1>2. /\ Events!Message(<<"SCTE35_START", "success", "SCTE-35 cue out">>) = "SCTE-35 cue out"
      /\ Events!Message(<<"SCTE35_END", "success", "SCTE-35 cue in">>) = "SCTE-35 cue in"
      /\ Events!Message(<<"SCTE35_EVENT", "success", "SCTE-35 event">>) = "SCTE-35 event"
      /\ Events!Message(<<"SCTE35_EVENT", "success", "SCTE-35 event canceled">>) = "SCTE-35 event canceled"
  BY DEF Events!Message
<1> QED BY <1>1, <1>2

(* The messages the web application knows each type by.                    *)
LEMMA TypesOfMessages ==
  /\ DOMAIN Events!Types =
       {"scte35", "aspect", "resolution", "afd", "framerate", "input", "srt", "service"}
  /\ \A m : m \in Events!Types["scte35"] <=>
       m \in {"SCTE-35 cue out", "SCTE-35 cue in", "SCTE-35 event", "SCTE-35 event canceled"}
  /\ \A m : m \in Events!Types["aspect"] <=> m = "Source aspect ratio changed"
  /\ \A m : m \in Events!Types["resolution"] <=> m = "Source resolution changed"
  /\ \A m : m \in Events!Types["afd"] <=> m = "Source AFD changed"
  /\ \A m : m \in Events!Types["framerate"] <=> m = "Source frame rate changed"
  /\ \A m : m \in Events!Types["input"] <=>
       m \in {"Input Signal Locked", "No Input Signal", "No Data on SRT"}
  /\ \A m : m \in Events!Types["srt"] <=>
       m \in {"SRT Unable to Listen", "SRT Listening", "SRT Connected", "SRT Error",
              "SRT Unable to Connect", "SRT Connection Lost", "Accepted SRT Connection"}
  /\ \A m : m \in Events!Types["service"] <=> m = "Started"
<1>1. DOMAIN Events!Types =
        {"scte35", "aspect", "resolution", "afd", "framerate", "input", "srt", "service"}
  BY DEF Events!Types
<1>2. \A m : m \in Events!Types["scte35"] <=>
        m \in {"SCTE-35 cue out", "SCTE-35 cue in", "SCTE-35 event", "SCTE-35 event canceled"}
  <2>1. Events!Types["scte35"] = {Events!Message(x) : x \in Events!CueWords}
    BY DEF Events!Types
  <2> QED BY <2>1, CueMessages
<1>3. /\ Events!Types["aspect"] = {"Source aspect ratio changed"}
      /\ Events!Types["resolution"] = {"Source resolution changed"}
      /\ Events!Types["afd"] = {"Source AFD changed"}
      /\ Events!Types["framerate"] = {"Source frame rate changed"}
      /\ Events!Types["service"] = {"Started"}
  BY DEF Events!Types
<1>4. Events!Types["input"] = {"Input Signal Locked", "No Input Signal", "No Data on SRT"}
  BY DEF Events!Types
<1>5. Events!Types["srt"] =
        {"SRT Unable to Listen", "SRT Listening", "SRT Connected", "SRT Error",
         "SRT Unable to Connect", "SRT Connection Lost", "Accepted SRT Connection"}
  BY DEF Events!Types
<1> QED BY <1>1, <1>2, <1>3, <1>4, <1>5

(* Every message the hub sends has one type there.                         *)
LEMMA OneType ==
  ASSUME NEW words \in Events!Words
  PROVE  Events!Cardinality(Events!TypeOf(words)) = 1
<1> DEFINE m == Events!Message(words)
           IsOf(t) == t \in DOMAIN Events!Types /\ m \in Events!Types[t]
<1>1. Events!TypeOf(words) = {t \in DOMAIN Events!Types : m \in Events!Types[t]}
  BY DEF Events!TypeOf
<1>2. words \in Events!ConnectionWords \cup Events!InputWords \cup
                Events!FormatWords \cup Events!CueWords
  BY DEF Events!Words
<1>3. m \in {"SRT Unable to Listen", "SRT Listening", "SRT Connected", "SRT Error",
             "SRT Unable to Connect", "SRT Connection Lost", "Accepted SRT Connection",
             "Started", "No Data on SRT", "No Input Signal", "Input Signal Locked",
             "Source aspect ratio changed", "Source resolution changed", "Source AFD changed",
             "Source frame rate changed", "SCTE-35 cue out", "SCTE-35 cue in", "SCTE-35 event",
             "SCTE-35 event canceled"}
  BY <1>2, ConnectionMessages, InputMessages, FormatMessages, CueMessages
<1> HIDE DEF m
<1>4. \E t : \A u : IsOf(u) <=> u = t
  <2>1. CASE m \in Events!Types["scte35"]
    <3>1. \A u : IsOf(u) <=> u = "scte35"
      BY <2>1, TypesOfMessages
    <3> QED BY <3>1
  <2>2. CASE m \in Events!Types["input"]
    <3>1. \A u : IsOf(u) <=> u = "input"
      BY <2>2, TypesOfMessages
    <3> QED BY <3>1
  <2>3. CASE m \in Events!Types["srt"]
    <3>1. \A u : IsOf(u) <=> u = "srt"
      BY <2>3, TypesOfMessages
    <3> QED BY <3>1
  <2>4. CASE m \in Events!Types["service"]
    <3>1. \A u : IsOf(u) <=> u = "service"
      BY <2>4, TypesOfMessages
    <3> QED BY <3>1
  <2>5. CASE m \in Events!Types["aspect"]
    <3>1. \A u : IsOf(u) <=> u = "aspect"
      BY <2>5, TypesOfMessages
    <3> QED BY <3>1
  <2>6. CASE m \in Events!Types["resolution"]
    <3>1. \A u : IsOf(u) <=> u = "resolution"
      BY <2>6, TypesOfMessages
    <3> QED BY <3>1
  <2>7. CASE m \in Events!Types["afd"]
    <3>1. \A u : IsOf(u) <=> u = "afd"
      BY <2>7, TypesOfMessages
    <3> QED BY <3>1
  <2>8. CASE m \in Events!Types["framerate"]
    <3>1. \A u : IsOf(u) <=> u = "framerate"
      BY <2>8, TypesOfMessages
    <3> QED BY <3>1
  <2> QED BY <1>3, <2>1, <2>2, <2>3, <2>4, <2>5, <2>6, <2>7, <2>8, TypesOfMessages
<1>5. PICK t : \A u : IsOf(u) <=> u = t
  BY <1>4
<1>6. Events!TypeOf(words) = {t}
  BY <1>1, <1>5
<1>7. \A S : Events!Cardinality(S) = Cardinality(S)
  BY DEF Events!Cardinality, Cardinality
<1> QED BY <1>6, <1>7, FS_Singleton

(* What the invariant says of the log is what is promised of it.           *)
LEMMA EventInvMeans == EventInv => LogFaithful
<1> SUFFICES ASSUME EventInv PROVE LogFaithful
  OBVIOUS
<1>1. EventTypes /\ SentOnly /\ LogInOrder /\ CopiesKept
  BY DEF EventInv
<1>2. /\ DOMAIN log = 1 .. Len(log) /\ DOMAIN queue = 1 .. Len(queue)
      /\ Events!ToSet(queue) = Waiting
  BY <1>1, LenProperties DEF EventTypes, Events!ToSet, Waiting
<1>3. ASSUME NEW i \in DOMAIN log
      PROVE  log[i].words = said[log[i].n] /\ Events!Cardinality(Events!TypeOf(log[i].words)) = 1
  <2>1. WasSent(log[i]) /\ log[i].words \in Events!Words
    BY <1>1, <1>2 DEF SentOnly, InLog, WasSent, Event
  <2> QED BY <2>1, OneType DEF WasSent
<1>4. ASSUME NEW i \in DOMAIN log, NEW j \in 1 .. (i - 1)
      PROVE  log[j].n < log[i].n \/ (log[j].n # log[i].n /\ log[i] \in late)
  BY <1>1, <1>2 DEF LogInOrder
<1>5. copies = {e \in Events!ToSet(queue) \cup {thread} : e # NONE /\ Events!IsCue(e.words)}
  BY <1>1, <1>2 DEF CopiesKept
<1> QED BY <1>3, <1>4, <1>5 DEF LogFaithful, Events!LogFaithful

-----------------------------------------------------------------------------
(* The tables: the inductive invariant                                     *)

Packet == [section : Tables!Section, part : Nat]
SentOn(x) == {packet \in Packet : packet.section.pid = x}
Entry == [pid : PmtPids, data : Seq(Packet)]

(* A list of the PAT: each program on a PID of its own, and no more items  *)
(* than there are PIDs.                                                    *)
Listed(list) ==
    /\ list \in Seq(Tables!Item) /\ Tables!Unmixed(list)
    /\ DOMAIN list \subseteq Tables!Places

(* What the multiplexer sends: on each PID packets of its own sections.    *)
MuxInv ==
    /\ pat \in [ts : 0 .. MaxChanges, version : Tables!Versions, list : Seq(Tables!Item)]
    /\ Listed(pat.list)
    /\ changes \in 0 .. MaxChanges
    /\ pmt \in [PmtPids -> Tables!Section]
    /\ \A x \in PmtPids : pmt[x].pid = x
    /\ due \in [PmtPids -> Seq(Packet)]
    /\ \A x \in PmtPids : due[x] \in Seq(SentOn(x))

(* What the hub keeps of the PAT.                                          *)
PatInv ==
    /\ patSeen \in (0 .. MaxChanges) \X ({-1} \cup Tables!Versions)
    /\ Listed(listed)

(* A section half put together is shorter than what it waits for.          *)
BufferInv ==
    /\ buffer \in Seq(Packet) /\ expected \in Nat
    /\ expected \in {0} \cup {Size[x] : x \in PmtPids}
    /\ Len(buffer) <= expected /\ (buffer = <<>> <=> expected = 0)

(* The entries, and the marks by place in the list.                        *)
EntryInv ==
    /\ entries \in Seq(Entry) /\ Len(entries) <= MAX_PMT_PIDS
    /\ noted \in [Tables!Places -> Tables!Versions]
    /\ decoded \in [Tables!Places -> BOOLEAN]
    /\ TablesExact

TableInv == MuxInv /\ PatInv /\ BufferInv /\ EntryInv

(* The PIDs can be counted, by the operator of either module.              *)
LEMMA PlacesCounted == Cardinality(PmtPids) \in Nat /\ Tables!Cardinality(PmtPids) = Cardinality(PmtPids)
<1>1. \A S : Tables!Cardinality(S) = Cardinality(S)
  BY DEF Tables!Cardinality, Cardinality
<1> QED BY <1>1, FS_CardinalityType, TablesAssumption

(* A list the multiplexer may send has a place for each of its PIDs.       *)
LEMMA ListingIsListed ==
  ASSUME NEW list \in Tables!Listing
  PROVE  Listed(list)
<1>1. /\ Tables!Unmixed(list)
      /\ \E m \in 0 .. Tables!Cardinality(PmtPids) : list \in [1 .. m -> Tables!Item]
  BY DEF Tables!Listing, Tables!SeqOf
<1>2. PICK m \in 0 .. Tables!Cardinality(PmtPids) : list \in [1 .. m -> Tables!Item]
  BY <1>1
<1>3. m \in Nat /\ Tables!Cardinality(PmtPids) \in Nat
  BY PlacesCounted
<1>4. list \in Seq(Tables!Item) /\ DOMAIN list = 1 .. m
  BY <1>2, <1>3
<1> QED BY <1>1, <1>3, <1>4 DEF Listed, Tables!Places

(* The tables begin empty.                                                 *)
LEMMA TableInit == Tables!Init => TableInv
<1> SUFFICES ASSUME Tables!Init PROVE TableInv
  OBVIOUS
<1>1. /\ 0 \in 0 .. MaxChanges /\ 0 \in Tables!Versions /\ V \in Nat \ {0}
      /\ MaxChanges \in Nat /\ MAX_PMT_PIDS \in Nat
  BY TablesAssumption DEF Tables!Versions
<1>2. <<>> \in Seq(Packet) /\ Len(<<>>) = 0 /\ \A x : <<>> \in Seq(SentOn(x))
  BY EmptySeq
<1>3. MuxInv
  <2>1. Listed(FirstList)
    BY ListingIsListed, TablesAssumption
  <2>2. /\ pat \in [ts : 0 .. MaxChanges, version : Tables!Versions, list : Seq(Tables!Item)]
        /\ pat.list = FirstList
    BY <1>1, <2>1 DEF Tables!Init, Listed
  <2>3. pmt \in [PmtPids -> Tables!Section] /\ \A x \in PmtPids : pmt[x].pid = x
    BY DEF Tables!Init
  <2>4. due \in [PmtPids -> Seq(Packet)] /\ \A x \in PmtPids : due[x] \in Seq(SentOn(x))
    BY <1>2 DEF Tables!Init
  <2>5. changes \in 0 .. MaxChanges
    BY <1>1 DEF Tables!Init
  <2> QED BY <1>1, <2>1, <2>2, <2>3, <2>4, <2>5 DEF MuxInv
<1>4. PatInv
  <2>1. patSeen \in (0 .. MaxChanges) \X ({-1} \cup Tables!Versions)
    BY <1>1 DEF Tables!Init
  <2>2. listed \in Seq(Tables!Item) /\ DOMAIN listed = {}
    BY EmptySeq DEF Tables!Init
  <2> QED BY <2>1, <2>2 DEF PatInv, Listed, Tables!Unmixed
<1>5. BufferInv
  BY <1>2 DEF Tables!Init, BufferInv
<1>6. EntryInv
  <2>1. entries \in Seq(Entry) /\ Len(entries) = 0 /\ DOMAIN entries = {}
    BY EmptySeq DEF Tables!Init
  <2>2. /\ noted \in [Tables!Places -> Tables!Versions]
        /\ decoded \in [Tables!Places -> BOOLEAN] /\ \A i \in Tables!Places : ~decoded[i]
    BY <1>1 DEF Tables!Init
  <2>3. TablesExact
    BY <1>4, <2>1, <2>2 DEF TablesExact, Tables!TablesExact, PatInv, Listed
  <2> QED BY <1>1, <2>1, <2>2, <2>3 DEF EntryInv
<1> QED BY <1>3, <1>4, <1>5, <1>6 DEF TableInv

(* The multiplexer changes its tables.                                     *)
LEMMA MuxInvChanges ==
  ASSUME MuxInv, Tables!MuxChanges
  PROVE  MuxInv'
<1>1. /\ changes \in Nat /\ changes < MaxChanges /\ MaxChanges \in Nat
      /\ changes' = changes + 1 /\ due' = due
      /\ V \in Nat \ {0} /\ changes' \in 0 .. MaxChanges
  <2>1. changes < MaxChanges /\ changes' = changes + 1 /\ due' = due
    <3>1. \A x \in PmtPids : Tables!Renew(x) =>
            changes < MaxChanges /\ changes' = changes + 1 /\ due' = due
      BY DEF Tables!Renew
    <3>2. Tables!Relist => changes < MaxChanges /\ changes' = changes + 1 /\ due' = due
      BY DEF Tables!Relist
    <3> QED BY <3>1, <3>2 DEF Tables!MuxChanges
  <2> QED BY <2>1, TablesAssumption DEF MuxInv
<1>2. \A k \in Tables!Versions : (k + 1) % V \in Tables!Versions
  BY <1>1 DEF Tables!Versions
<1>3. \A s : s \in Tables!Section <=>
        /\ s = [pid |-> s.pid, program |-> s.program, version |-> s.version, edition |-> s.edition]
        /\ s.pid \in PmtPids /\ s.program \in Programs
        /\ s.version \in Tables!Versions /\ s.edition \in 0 .. MaxChanges
  BY DEF Tables!Section
<1>4. CASE \E x \in PmtPids : Tables!Renew(x)
  <2>1. PICK x \in PmtPids : Tables!Renew(x)
    BY <1>4
  <2>2. /\ pmt' = [pmt EXCEPT ![x] = [pmt[x] EXCEPT !.version = (pmt[x].version + 1) % V,
                                                     !.edition = changes + 1]]
        /\ pat' = pat
    BY <2>1 DEF Tables!Renew
  <2>3. pmt[x] \in Tables!Section /\ pmt[x].pid = x
    BY DEF MuxInv
  <2>4. PICK s : s = [pmt[x] EXCEPT !.version = (pmt[x].version + 1) % V, !.edition = changes + 1]
    OBVIOUS
  <2>5. s \in Tables!Section /\ s.pid = x
    BY <1>1, <1>2, <2>3, <2>4 DEF Tables!Section
  <2>6. pmt' \in [PmtPids -> Tables!Section] /\ \A y \in PmtPids : pmt'[y].pid = y
    BY <2>2, <2>4, <2>5 DEF MuxInv
  <2> QED BY <1>1, <2>2, <2>6 DEF MuxInv
<1>5. CASE Tables!Relist
  <2>1. PICK list \in Tables!Listing :
          /\ pat' \in Tables!NewPats(list)
          /\ pmt' = [x \in PmtPids |->
               IF \E i \in DOMAIN list : pmt[list[i].pid].program # list[i].program
                                         /\ list[i].pid = x
               THEN [pid |-> x,
                     program |-> list[CHOOSE i \in {j \in DOMAIN list :
                                        pmt[list[j].pid].program # list[j].program} :
                                        list[i].pid = x].program,
                     version |-> (pmt[x].version + 1) % V, edition |-> changes + 1]
               ELSE pmt[x]]
    BY <1>5 DEF Tables!Relist
  <2>2. list \in Seq(Tables!Item) /\ Listed(list)
    BY ListingIsListed DEF Listed
  <2>3. \A i \in DOMAIN list : list[i].program \in Programs
    <3>1. DOMAIN list = 1 .. Len(list)
      BY <2>2, LenProperties
    <3>2. \A i \in 1 .. Len(list) : list[i] \in Tables!Item
      BY <2>2, ElementOfSeq
    <3> QED BY <3>1, <3>2 DEF Tables!Item
  <2>4. ASSUME NEW x \in PmtPids
        PROVE  pmt'[x] \in Tables!Section /\ pmt'[x].pid = x
    <3>1. pmt[x] \in Tables!Section /\ pmt[x].pid = x
      BY DEF MuxInv
    <3>2. pmt[x].version \in Tables!Versions
      BY <3>1 DEF Tables!Section
    <3> DEFINE moved == {j \in DOMAIN list : pmt[list[j].pid].program # list[j].program}
               place == CHOOSE i \in moved : list[i].pid = x
    <3>3. CASE \E i \in moved : list[i].pid = x
      <4>1. place \in DOMAIN list
        BY <3>3
      <4> HIDE DEF place
      <4>2. list[place].program \in Programs
        BY <2>3, <4>1
      <4>3. pmt'[x] = [pid |-> x, program |-> list[place].program,
                       version |-> (pmt[x].version + 1) % V, edition |-> changes + 1]
        BY <2>1, <3>3 DEF place
      <4> QED BY <1>1, <1>2, <3>2, <4>2, <4>3 DEF Tables!Section
    <3>4. CASE ~ \E i \in moved : list[i].pid = x
      <4>1. pmt'[x] = pmt[x]
        BY <2>1, <3>4
      <4> QED BY <3>1, <4>1
    <3> QED BY <3>3, <3>4
  <2>5. pmt' \in [PmtPids -> Tables!Section] /\ \A x \in PmtPids : pmt'[x].pid = x
    <3>1. pmt' = [x \in PmtPids |-> pmt'[x]]
      BY <2>1
    <3> QED BY <2>4, <3>1
  <2>6. /\ pat' \in [ts : 0 .. MaxChanges, version : Tables!Versions, list : Seq(Tables!Item)]
        /\ pat'.list = list
    <3>1. \/ pat' = [pat EXCEPT !.list = list, !.version = (pat.version + 1) % V]
          \/ pat' = [pat EXCEPT !.list = list, !.ts = changes + 1]
      BY <2>1 DEF Tables!NewPats
    <3>2. /\ pat \in [ts : 0 .. MaxChanges, version : Tables!Versions, list : Seq(Tables!Item)]
          /\ (pat.version + 1) % V \in Tables!Versions /\ changes + 1 \in 0 .. MaxChanges
      BY <1>1, <1>2 DEF MuxInv
    <3> QED BY <2>2, <3>1, <3>2
  <2> QED BY <1>1, <2>2, <2>5, <2>6 DEF MuxInv
<1> QED BY <1>4, <1>5 DEF Tables!MuxChanges

(* The hub's side of a step of the multiplexer.                            *)
LEMMA HubStays ==
  ASSUME PatInv, BufferInv, EntryInv, UNCHANGED Tables!hubVars
  PROVE  PatInv' /\ BufferInv' /\ EntryInv'
<1>1. /\ patSeen' = patSeen /\ listed' = listed /\ noted' = noted /\ decoded' = decoded
      /\ buffer' = buffer /\ expected' = expected /\ entries' = entries
  BY DEF Tables!hubVars
<1>2. TablesExact' = TablesExact
  BY <1>1 DEF TablesExact, Tables!TablesExact, Tables!EntryOf
<1> QED BY <1>1, <1>2 DEF PatInv, BufferInv, EntryInv

(* A packet goes out: the next one of a section of its PID.                *)
LEMMA Going ==
  ASSUME MuxInv, NEW x \in PmtPids, Tables!Goes(x)
  PROVE  MuxInv' /\ Head(Tables!Sent(x)) \in SentOn(x)
<1>1. /\ pat' = pat /\ pmt' = pmt /\ changes' = changes
      /\ due' = [due EXCEPT ![x] = Tail(Tables!Sent(x))]
  BY DEF Tables!Goes
<1>2. Tables!Sent(x) \in Seq(SentOn(x)) /\ Tables!Sent(x) # <<>>
  <2>1. CASE due[x] # <<>>
    BY <2>1 DEF MuxInv, Tables!Sent
  <2>2. CASE due[x] = <<>>
    <3>1. pmt[x] \in Tables!Section /\ pmt[x].pid = x /\ Size[x] \in Nat \ {0}
      BY TablesAssumption DEF MuxInv
    <3>2. Tables!Sent(x) = [k \in 1 .. Size[x] |-> [section |-> pmt[x], part |-> k]]
      BY <2>2, <3>1 DEF Tables!Sent, Tables!Parts
    <3>3. \A k \in 1 .. Size[x] : [section |-> pmt[x], part |-> k] \in SentOn(x)
      BY <3>1 DEF SentOn, Packet
    <3>4. Tables!Sent(x) \in [1 .. Size[x] -> SentOn(x)]
      BY <3>2, <3>3
    <3>5. Tables!Sent(x) \in Seq(SentOn(x)) /\ 1 \in DOMAIN Tables!Sent(x)
      BY <3>1, <3>4
    <3> QED BY <3>5
  <2> QED BY <2>1, <2>2
<1>3. Tail(Tables!Sent(x)) \in Seq(SentOn(x)) /\ Head(Tables!Sent(x)) \in SentOn(x)
  BY <1>2, HeadTailProperties
<1>4. SentOn(x) \subseteq Packet
  BY DEF SentOn
<1>5. Tail(Tables!Sent(x)) \in Seq(Packet)
  BY <1>3, <1>4, SeqMonotonic
<1>6. /\ due' \in [PmtPids -> Seq(Packet)]
      /\ \A y \in PmtPids : due'[y] \in Seq(SentOn(y))
  BY <1>1, <1>3, <1>5 DEF MuxInv
<1> QED BY <1>1, <1>3, <1>6 DEF MuxInv

(* The two halves of TablesExact.                                          *)
EntriesWhole ==
    \A i \in DOMAIN entries :
        /\ \E s \in Tables!Section : s.pid = entries[i].pid /\ entries[i].data = Tables!Parts(s)
        /\ \A j \in DOMAIN entries : entries[i].pid = entries[j].pid => i = j
Marked(i) ==
    \/ \E j \in DOMAIN entries : /\ entries[j].pid = listed[i].pid
                                 /\ entries[j].data[1].section.version = noted[i]
    \/ /\ \A j \in DOMAIN entries : entries[j].pid # listed[i].pid
       /\ Len(entries) = MAX_PMT_PIDS
MarksTrue == \A i \in DOMAIN listed : decoded[i] => Marked(i)

(* That the tables are exact says something of entries and of marks.       *)
LEMMA ExactInHalves == TablesExact <=> EntriesWhole /\ MarksTrue
<1>1. ASSUME NEW i \in DOMAIN listed
      PROVE  Marked(i) <=>
               \/ \E j \in Tables!EntryOf(listed[i].pid) :
                    entries[j].data[1].section.version = noted[i]
               \/ Tables!EntryOf(listed[i].pid) = {} /\ Len(entries) = MAX_PMT_PIDS
  <2>1. \A j : j \in Tables!EntryOf(listed[i].pid) <=>
                 j \in DOMAIN entries /\ entries[j].pid = listed[i].pid
    BY DEF Tables!EntryOf
  <2> QED BY <2>1, Zenon DEF Marked
<1> QED BY <1>1 DEF TablesExact, Tables!TablesExact, EntriesWhole, MarksTrue

(* So it does in the next state.                                           *)
LEMMA ExactInHalvesNext == TablesExact' <=> EntriesWhole' /\ MarksTrue'
BY ExactInHalves, PTL

(* A checksum that agrees makes one section of what is in the buffer; the  *)
(* packet that came last was sent on x, so the section was.                *)
LEMMA OneSection ==
  ASSUME NEW x \in PmtPids, NEW data \in Seq(Packet), data # <<>>,
         data[Len(data)] \in SentOn(x), Tables!CrcAgrees(data)
  PROVE  /\ data[1].section \in Tables!Section /\ data[1].section.pid = x
         /\ data = Tables!Parts(data[1].section)
<1>1. Len(data) \in Nat \ {0} /\ DOMAIN data = 1 .. Len(data) /\ data[1] \in Packet
  BY EmptySeq, LenProperties, ElementOfSeq
<1>2. PICK s \in Tables!Section : s = data[1].section
  BY <1>1 DEF Packet
<1>3. data = [k \in 1 .. Size[s.pid] |-> [section |-> s, part |-> k]]
  BY <1>2 DEF Tables!CrcAgrees, Tables!Parts
<1>4. Len(data) \in 1 .. Size[s.pid]
  <2>1. DOMAIN data = 1 .. Size[s.pid]
    BY <1>3
  <2>2. Len(data) \in DOMAIN data
    BY <1>1
  <2> QED BY <2>1, <2>2
<1>5. data[Len(data)].section = s
  BY <1>3, <1>4
<1> QED BY <1>2, <1>5 DEF SentOn, Tables!CrcAgrees

(* What decode_pmt_table makes of the entries.                             *)
LEMMA DecodedEntries ==
  ASSUME entries \in Seq(Entry), Len(entries) <= MAX_PMT_PIDS,
         NEW x \in PmtPids, NEW data \in Seq(Packet), NEW E, E = Tables!Decoded(x, data)
  PROVE  /\ E \in Seq(Entry) /\ Len(E) <= MAX_PMT_PIDS /\ Len(E) >= Len(entries)
         /\ \A j \in DOMAIN E :
              \/ j \in DOMAIN entries /\ E[j] = entries[j] /\ E[j].pid # x
              \/ j \in DOMAIN entries /\ entries[j].pid = x /\ E[j] = [pid |-> x, data |-> data]
              \/ /\ E[j] = [pid |-> x, data |-> data] /\ j = Len(entries) + 1
                 /\ \A k \in DOMAIN entries : entries[k].pid # x
         /\ DOMAIN entries \subseteq DOMAIN E
         /\ (\E j \in DOMAIN E : E[j] = [pid |-> x, data |-> data])
            \/ (E = entries /\ Len(entries) = MAX_PMT_PIDS
                /\ \A j \in DOMAIN entries : entries[j].pid # x)
<1>1. /\ Len(entries) \in Nat /\ DOMAIN entries = 1 .. Len(entries)
      /\ MAX_PMT_PIDS \in Nat
      /\ \A j \in DOMAIN entries : entries[j] \in Entry
  BY LenProperties, ElementOfSeq, TablesAssumption
<1>2. PICK e : e = [pid |-> x, data |-> data]
  OBVIOUS
<1>3. e \in Entry /\ e.pid = x
  BY <1>2 DEF Entry
<1>4. \A j : j \in Tables!EntryOf(x) <=> j \in DOMAIN entries /\ entries[j].pid = x
  BY DEF Tables!EntryOf
<1>5. CASE Tables!EntryOf(x) # {}
  <2>1. E = [j \in DOMAIN entries |-> IF j \in Tables!EntryOf(x) THEN e ELSE entries[j]]
    BY <1>2, <1>5 DEF Tables!Decoded
  <2>2. \A j \in DOMAIN entries : E[j] = IF j \in Tables!EntryOf(x) THEN e ELSE entries[j]
    BY <2>1
  <2>3. E \in [1 .. Len(entries) -> Entry]
    BY <1>1, <1>3, <2>1
  <2>4. E \in Seq(Entry) /\ Len(E) = Len(entries) /\ DOMAIN E = DOMAIN entries
    BY <1>1, <2>3
  <2>5. PICK k \in DOMAIN entries : entries[k].pid = x
    BY <1>4, <1>5
  <2>6. E[k] = e
    BY <1>4, <2>2, <2>5
  <2>7. \A j \in DOMAIN E : \/ j \in DOMAIN entries /\ E[j] = entries[j] /\ E[j].pid # x
                            \/ j \in DOMAIN entries /\ entries[j].pid = x /\ E[j] = e
    BY <1>4, <2>2, <2>4
  <2>8. /\ Len(E) >= Len(entries) /\ Len(E) <= MAX_PMT_PIDS
        /\ DOMAIN entries \subseteq DOMAIN E /\ k \in DOMAIN E
    BY <1>1, <2>4, <2>5
  <2> QED BY <1>2, <2>4, <2>6, <2>7, <2>8
<1>6. CASE Tables!EntryOf(x) = {} /\ Len(entries) < MAX_PMT_PIDS
  <2>1. E = Append(entries, e)
    BY <1>2, <1>6 DEF Tables!Decoded
  <2>2. /\ E \in Seq(Entry) /\ Len(E) = Len(entries) + 1 /\ E[Len(entries) + 1] = e
        /\ \A j \in 1 .. Len(entries) : E[j] = entries[j]
        /\ \A j \in 1 .. Len(entries) + 1 : j # Len(entries) + 1 => j \in 1 .. Len(entries)
    BY <1>3, <2>1, Appended
  <2>3. DOMAIN E = 1 .. Len(entries) + 1
    BY <2>2, LenProperties
  <2>4. \A j \in DOMAIN entries : entries[j].pid # x
    BY <1>4, <1>6
  <2>5. \A j \in DOMAIN E : \/ j \in DOMAIN entries /\ E[j] = entries[j]
                            \/ E[j] = e /\ j = Len(entries) + 1
    BY <1>1, <2>2, <2>3
  <2>6. /\ Len(entries) + 1 <= MAX_PMT_PIDS /\ Len(entries) + 1 >= Len(entries)
        /\ Len(entries) + 1 \in DOMAIN E /\ DOMAIN entries \subseteq DOMAIN E
    BY <1>1, <1>6, <2>3
  <2> QED BY <1>2, <2>2, <2>4, <2>5, <2>6
<1>7. CASE Tables!EntryOf(x) = {} /\ ~(Len(entries) < MAX_PMT_PIDS)
  <2>1. E = entries /\ Len(entries) = MAX_PMT_PIDS
    BY <1>1, <1>7 DEF Tables!Decoded
  <2> QED BY <1>1, <1>4, <1>7, <2>1
<1> QED BY <1>5, <1>6, <1>7

(* The section in the buffer is complete.                                  *)
LEMMA CompletedInv ==
  ASSUME PatInv, EntryInv, listed' = listed,
         NEW x \in PmtPids, NEW i \in Tables!PlacesOf(x), NEW data \in Seq(Packet),
         data # <<>>, data[Len(data)] \in SentOn(x), Tables!Completed(i, x, data)
  PROVE  BufferInv' /\ EntryInv'
<1>1. BufferInv'
  <2>1. buffer' = <<>> /\ expected' = 0
    BY DEF Tables!Completed
  <2> QED BY <2>1, EmptySeq DEF BufferInv
<1>2. /\ EntriesWhole /\ MarksTrue /\ entries \in Seq(Entry) /\ Len(entries) <= MAX_PMT_PIDS
      /\ noted \in [Tables!Places -> Tables!Versions]
      /\ decoded \in [Tables!Places -> BOOLEAN]
  BY ExactInHalves DEF EntryInv
<1>3. /\ i \in DOMAIN listed /\ listed[i].pid = x /\ DOMAIN listed \subseteq Tables!Places
      /\ \A j \in DOMAIN listed : j # i => listed[j].pid # x
  BY DEF Tables!PlacesOf, PatInv, Listed, Tables!Unmixed
<1>4. CASE ~Tables!CrcAgrees(data)
  <2>1. noted' = noted /\ decoded' = decoded /\ entries' = entries
    BY <1>4 DEF Tables!Completed
  <2>2. EntriesWhole' /\ MarksTrue'
    BY <1>2, <2>1 DEF EntriesWhole, MarksTrue, Marked
  <2> QED BY <1>1, <1>2, <2>1, <2>2, ExactInHalvesNext DEF EntryInv
<1>5. CASE Tables!CrcAgrees(data)
  <2>1. PICK s \in Tables!Section :
          s = data[1].section /\ s.pid = x /\ data = Tables!Parts(s)
    BY <1>5, OneSection
  <2>2. /\ noted' = [noted EXCEPT ![i] = s.version] /\ decoded' = [decoded EXCEPT ![i] = TRUE]
        /\ entries' = IF Tables!Wanted(i, s.version) THEN Tables!Decoded(x, data) ELSE entries
    BY <1>5, <2>1 DEF Tables!Completed
  <2>3. s.version \in Tables!Versions
    BY DEF Tables!Section
  <2>4. /\ noted' \in [Tables!Places -> Tables!Versions]
        /\ decoded' \in [Tables!Places -> BOOLEAN] /\ noted'[i] = s.version
        /\ \A j \in DOMAIN listed : j # i => noted'[j] = noted[j] /\ decoded'[j] = decoded[j]
    BY <1>2, <1>3, <2>2, <2>3
  <2>5. CASE ~Tables!Wanted(i, s.version)
    <3>1. entries' = entries /\ noted[i] = s.version /\ decoded[i]
      BY <2>2, <2>5 DEF Tables!Wanted
    <3>2. EntriesWhole' /\ MarksTrue'
      BY <1>2, <2>4, <3>1 DEF EntriesWhole, MarksTrue, Marked
    <3> QED BY <1>1, <1>2, <2>4, <3>1, <3>2, ExactInHalvesNext DEF EntryInv
  <2>6. CASE Tables!Wanted(i, s.version)
    <3>1. entries' = Tables!Decoded(x, data)
      BY <2>2, <2>6
    <3>2. /\ entries' \in Seq(Entry) /\ Len(entries') <= MAX_PMT_PIDS
          /\ Len(entries') >= Len(entries)
          /\ \A j \in DOMAIN entries' :
               \/ /\ j \in DOMAIN entries /\ entries'[j] = entries[j]
                  /\ entries'[j].pid # x
               \/ /\ j \in DOMAIN entries /\ entries[j].pid = x
                  /\ entries'[j] = [pid |-> x, data |-> data]
               \/ /\ entries'[j] = [pid |-> x, data |-> data] /\ j = Len(entries) + 1
                  /\ \A k \in DOMAIN entries : entries[k].pid # x
          /\ DOMAIN entries \subseteq DOMAIN entries'
          /\ \/ \E j \in DOMAIN entries' : entries'[j] = [pid |-> x, data |-> data]
             \/ /\ entries' = entries /\ Len(entries) = MAX_PMT_PIDS
                /\ \A j \in DOMAIN entries : entries[j].pid # x
      BY <1>2, <3>1, DecodedEntries
    <3>3. [pid |-> x, data |-> data].pid = x /\ [pid |-> x, data |-> data].data = data
      OBVIOUS
    <3>4. EntriesWhole'
      <4>1. ASSUME NEW j \in DOMAIN entries'
            PROVE  \E r \in Tables!Section :
                     r.pid = entries'[j].pid /\ entries'[j].data = Tables!Parts(r)
        BY <1>2, <2>1, <3>2, <3>3 DEF EntriesWhole
      <4>2. ASSUME NEW j \in DOMAIN entries', NEW k \in DOMAIN entries',
                   entries'[j].pid = entries'[k].pid
            PROVE  j = k
        BY <1>2, <3>2, <3>3, <4>2 DEF EntriesWhole
      <4> QED BY <4>1, <4>2 DEF EntriesWhole, Tables!Parts
    <3>5. MarksTrue'
      <4>1. ASSUME NEW j \in DOMAIN listed, decoded'[j]
            PROVE  Marked(j)'
        <5>1. CASE j = i
          <6>1. CASE \E k \in DOMAIN entries' : entries'[k] = [pid |-> x, data |-> data]
            BY <1>3, <2>1, <2>4, <3>3, <5>1, <6>1 DEF Marked
          <6>2. CASE /\ entries' = entries /\ Len(entries) = MAX_PMT_PIDS
                     /\ \A k \in DOMAIN entries : entries[k].pid # x
            BY <1>3, <5>1, <6>2 DEF Marked
          <6> QED BY <3>2, <6>1, <6>2
        <5>2. CASE j # i
          <6>1. Marked(j) /\ noted'[j] = noted[j] /\ listed[j].pid # x
            BY <1>2, <1>3, <2>4, <4>1, <5>2 DEF MarksTrue
          <6>2. CASE \E k \in DOMAIN entries : /\ entries[k].pid = listed[j].pid
                                               /\ entries[k].data[1].section.version = noted[j]
            <7>1. PICK k \in DOMAIN entries : /\ entries[k].pid = listed[j].pid
                                              /\ entries[k].data[1].section.version = noted[j]
              BY <6>2
            <7>2. k \in DOMAIN entries' /\ k # Len(entries) + 1
              BY <1>2, <3>2, LenProperties
            <7>3. entries'[k] = entries[k]
              BY <3>2, <6>1, <7>1, <7>2
            <7> QED BY <6>1, <7>1, <7>2, <7>3 DEF Marked
          <6>3. CASE /\ \A k \in DOMAIN entries : entries[k].pid # listed[j].pid
                     /\ Len(entries) = MAX_PMT_PIDS
            <7>1. Len(entries') = MAX_PMT_PIDS
              BY <1>2, <3>2, <6>3, LenProperties, TablesAssumption
            <7>2. \A k \in DOMAIN entries' : entries'[k].pid # listed[j].pid
              BY <3>2, <3>3, <6>1, <6>3
            <7> QED BY <7>1, <7>2 DEF Marked
          <6> QED BY <6>1, <6>2, <6>3 DEF Marked
        <5> QED BY <5>1, <5>2
      <4> QED BY <4>1 DEF MarksTrue
    <3> QED BY <1>1, <2>4, <3>2, <3>4, <3>5, ExactInHalvesNext DEF EntryInv
  <2> QED BY <2>5, <2>6
<1> QED BY <1>4, <1>5

(* A packet of a PMT arrives.                                              *)
LEMMA PmtArrivesInv ==
  ASSUME TableInv, NEW x \in PmtPids, Tables!PmtArrives(x)
  PROVE  TableInv'
<1>1. MuxInv /\ PatInv /\ BufferInv /\ EntryInv
  BY DEF TableInv
<1>2. PICK packet : packet = Head(Tables!Sent(x))
  OBVIOUS
<1>3. /\ Tables!Goes(x) /\ patSeen' = patSeen /\ listed' = listed
      /\ \/ Tables!Ignores(x, packet) /\ UNCHANGED Tables!hubVars
         \/ \E i \in Tables!PlacesOf(x) :
              /\ packet.part = 1
              /\ Tables!Wanted(i, packet.section.version)
              /\ Tables!BeginIn(i, x, packet)
         \/ \E i \in Tables!PlacesOf(x) : packet.part > 1 /\ Tables!AddIn(i, x, packet)
  BY <1>2, Zenon DEF Tables!PmtArrives
<1>4. MuxInv' /\ packet \in SentOn(x) /\ packet \in Packet
  BY <1>1, <1>2, <1>3, Going DEF SentOn
<1>5. PatInv'
  BY <1>1, <1>3 DEF PatInv
<1>6. CASE UNCHANGED Tables!hubVars
  BY <1>1, <1>4, <1>6, HubStays DEF TableInv
<1>7. Size[x] \in Nat \ {0} /\ \A y \in PmtPids : Size[y] \in Nat \ {0}
  BY TablesAssumption
<1>8. ASSUME NEW i \in Tables!PlacesOf(x), Tables!BeginIn(i, x, packet)
      PROVE  BufferInv' /\ EntryInv'
  <2>1. <<packet>> \in Seq(Packet) /\ Len(<<packet>>) = 1 /\ <<packet>>[1] = packet /\ <<packet>> # <<>>
    BY <1>4
  <2>2. CASE Size[x] = 1
    <3>1. Tables!Completed(i, x, <<packet>>)
      BY <1>8, <2>2 DEF Tables!BeginIn
    <3> QED BY <1>1, <1>3, <1>4, <2>1, <3>1, CompletedInv
  <2>3. CASE Size[x] # 1
    <3>1. /\ buffer' = <<packet>> /\ expected' = Size[x]
          /\ noted' = noted /\ decoded' = decoded /\ entries' = entries
      BY <1>8, <2>3 DEF Tables!BeginIn
    <3>2. BufferInv'
      BY <1>7, <2>1, <3>1 DEF BufferInv
    <3>3. EntryInv'
      BY <1>1, <1>3, <3>1 DEF EntryInv, TablesExact, Tables!TablesExact, Tables!EntryOf
    <3> QED BY <3>2, <3>3
  <2> QED BY <2>2, <2>3
<1>9. ASSUME NEW i \in Tables!PlacesOf(x), Tables!AddIn(i, x, packet)
      PROVE  BufferInv' /\ EntryInv'
  <2>1. /\ Append(buffer, packet) \in Seq(Packet) /\ Len(Append(buffer, packet)) = Len(buffer) + 1
        /\ Append(buffer, packet)[Len(buffer) + 1] = packet /\ Append(buffer, packet) # <<>>
        /\ Len(buffer) \in Nat
    BY <1>1, <1>4, AppendProperties, LenProperties DEF BufferInv
  <2>2. CASE Len(buffer) + 1 >= expected
    <3>1. Tables!Completed(i, x, Append(buffer, packet))
      BY <1>9, <2>2 DEF Tables!AddIn
    <3>2. Append(buffer, packet)[Len(Append(buffer, packet))] \in SentOn(x)
      BY <1>4, <2>1
    <3> QED BY <1>1, <1>3, <2>1, <3>1, <3>2, CompletedInv
  <2>3. CASE ~(Len(buffer) + 1 >= expected)
    <3>1. /\ buffer' = Append(buffer, packet) /\ expected' = expected /\ expected > 0
          /\ noted' = noted /\ decoded' = decoded /\ entries' = entries
      BY <1>9, <2>3 DEF Tables!AddIn
    <3>2. BufferInv'
      BY <1>1, <2>1, <2>3, <3>1 DEF BufferInv
    <3>3. EntryInv'
      BY <1>1, <1>3, <3>1 DEF EntryInv, TablesExact, Tables!TablesExact, Tables!EntryOf
    <3> QED BY <3>2, <3>3
  <2> QED BY <2>2, <2>3
<1> QED BY <1>3, <1>4, <1>5, <1>6, <1>8, <1>9 DEF TableInv

(* A new PAT starts the marks over, so that there are none to be wrong.    *)
LEMMA PatArrivesInv ==
  ASSUME TableInv, Tables!PatArrives
  PROVE  TableInv'
<1>1. MuxInv /\ PatInv /\ BufferInv /\ EntryInv
  BY DEF TableInv
<1>2. /\ pat' = pat /\ pmt' = pmt /\ due' = due /\ changes' = changes
      /\ noted' = noted /\ buffer' = buffer /\ expected' = expected /\ entries' = entries
  BY DEF Tables!PatArrives, Tables!muxVars
<1>3. MuxInv' /\ BufferInv'
  BY <1>1, <1>2 DEF MuxInv, BufferInv
<1>4. CASE Tables!SamePat
  <2>1. UNCHANGED Tables!hubVars
    BY <1>2, <1>4 DEF Tables!PatArrives, Tables!hubVars
  <2> QED BY <1>1, <1>3, <2>1, HubStays DEF TableInv
<1>5. CASE ~Tables!SamePat
  <2>1. /\ patSeen' = <<pat.ts, pat.version>> /\ listed' = pat.list
        /\ decoded' = [i \in Tables!Places |-> FALSE]
    BY <1>5 DEF Tables!PatArrives
  <2>2. PatInv'
    BY <1>1, <2>1 DEF MuxInv, PatInv
  <2>3. EntriesWhole' /\ MarksTrue'
    <3>1. EntriesWhole
      BY <1>1, ExactInHalves DEF EntryInv
    <3>2. EntriesWhole'
      BY <1>2, <3>1 DEF EntriesWhole
    <3>3. \A i \in DOMAIN listed' : ~decoded'[i]
      BY <2>1, <2>2 DEF PatInv, Listed
    <3> QED BY <3>2, <3>3 DEF MarksTrue
  <2>4. EntryInv'
    BY <1>1, <1>2, <2>1, <2>3, ExactInHalvesNext DEF EntryInv
  <2> QED BY <1>3, <2>2, <2>4 DEF TableInv
<1> QED BY <1>4, <1>5

(* No step of the multiplexer or of the parser of tables breaks it.        *)
LEMMA TableNext ==
  ASSUME TableInv, [Tables!Next]_tableVars
  PROVE  TableInv'
<1>1. MuxInv /\ PatInv /\ BufferInv /\ EntryInv
  BY DEF TableInv
<1>2. CASE UNCHANGED tableVars
  <2>1. /\ pat' = pat /\ pmt' = pmt /\ due' = due /\ changes' = changes
        /\ UNCHANGED Tables!hubVars
    BY <1>2 DEF tableVars, Tables!hubVars
  <2> QED BY <1>1, <2>1, HubStays DEF TableInv, MuxInv
<1>3. CASE Tables!MuxChanges
  <2>1. UNCHANGED Tables!hubVars
    BY <1>3, Zenon DEF Tables!MuxChanges, Tables!Relist, Tables!Renew
  <2> QED BY <1>1, <1>3, <2>1, MuxInvChanges, HubStays DEF TableInv
<1>4. ASSUME NEW x \in PmtPids, Tables!Lost(x)
      PROVE  TableInv'
  <2>1. Tables!Goes(x) /\ UNCHANGED Tables!hubVars
    BY <1>4, Zenon DEF Tables!Lost
  <2> QED BY <1>1, <2>1, Going, HubStays DEF TableInv
<1> QED BY <1>2, <1>3, <1>4, PatArrivesInv, PmtArrivesInv DEF Tables!Next

-----------------------------------------------------------------------------
(* The continuity counter                                                  *)

(* Every number is some cycles and a remainder, in one way only.           *)
LEMMA Quotient ==
  ASSUME NEW m \in Nat
  PROVE  \E q \in Int : m = q * CC + (m % CC) /\ m % CC \in 0 .. (CC - 1)
<1>1. m = CC * (m \div CC) + (m % CC) /\ m % CC \in 0 .. (CC - 1) /\ m \div CC \in Int
  BY FramesAssumption
<1>2. CC * (m \div CC) = (m \div CC) * CC
  BY <1>1, FramesAssumption
<1>3. m = (m \div CC) * CC + (m % CC)
  BY <1>1, <1>2
<1> QED BY <1>1, <1>3

(* The one multiple of the cycle within a cycle of 0 is 0.                 *)
LEMMA LessThanOneCycle ==
  ASSUME NEW d \in Int, d * CC < CC, -CC < d * CC
  PROVE  d = 0
<1>1. d >= 1 => d * CC >= CC
  BY FramesAssumption
<1>2. d <= -1 => d * CC <= -CC
  BY FramesAssumption
<1> QED BY <1>1, <1>2, FramesAssumption

(* There is one remainder.                                                 *)
LEMMA Remainder ==
  ASSUME NEW m \in Nat, NEW q \in Int, NEW r \in 0 .. (CC - 1), m = q * CC + r
  PROVE  m % CC = r
<1>1. PICK p \in Int :  m = p * CC + (m % CC) /\ m % CC \in 0 .. (CC - 1)
  BY Quotient
<1>2. (q - p) * CC = (m % CC) - r
  BY <1>1, FramesAssumption
<1>3. (q - p) * CC < CC /\ -CC < (q - p) * CC
  BY <1>1, <1>2, FramesAssumption
<1>4. q - p = 0
  BY <1>3, LessThanOneCycle
<1> QED BY <1>1, <1>4, FramesAssumption

(* The packet after a run of k lost ones, shorter than the cycle of the    *)
(* counter, has the next value of the counter only if k is 0.              *)
LEMMA NextCounter ==
  ASSUME NEW m \in Nat, NEW k \in 0 .. (CC - 1)
  PROVE  (m + k + 1) % CC = ((m % CC) + 1) % CC <=> k = 0
<1>1. PICK q \in Int : m = q * CC + (m % CC) /\ m % CC \in 0 .. (CC - 1)
  BY Quotient
<1>2. PICK r \in 0 .. (CC - 1) : r = m % CC
  BY <1>1
<1>3. (r + 1) % CC = IF r + 1 < CC THEN r + 1 ELSE 0
  <2>1. CASE r + 1 < CC
    BY <2>1, Remainder, FramesAssumption
  <2>2. CASE r + 1 = CC
    <3>1. r + 1 = 1 * CC + 0
      BY <2>2, FramesAssumption
    <3> QED BY <2>2, <3>1, Remainder, FramesAssumption
  <2> QED BY <2>1, <2>2, FramesAssumption
<1>4. PICK cycles \in Int : cycles = q * CC /\ cycles + CC = (q + 1) * CC
  BY FramesAssumption
<1>5. m = cycles + r /\ m + k + 1 \in Nat
  BY <1>1, <1>2, <1>4
<1>6. (m + k + 1) % CC = IF r + k + 1 < CC THEN r + k + 1 ELSE r + k + 1 - CC
  <2>1. CASE r + k + 1 < CC
    <3>1. m + k + 1 = cycles + (r + k + 1) /\ r + k + 1 \in 0 .. (CC - 1)
      BY ONLY <1>5, <2>1, FramesAssumption
    <3>2. m + k + 1 = q * CC + (r + k + 1)
      BY <1>4, <3>1
    <3> QED BY <1>5, <2>1, <3>1, <3>2, Remainder
  <2>2. CASE ~(r + k + 1 < CC)
    <3>1. /\ m + k + 1 = (cycles + CC) + (r + k + 1 - CC)
          /\ r + k + 1 - CC \in 0 .. (CC - 1)
      BY ONLY <1>5, <2>2, FramesAssumption
    <3>2. m + k + 1 = (q + 1) * CC + (r + k + 1 - CC) /\ q + 1 \in Int
      BY <1>4, <3>1
    <3> QED BY <1>5, <2>2, <3>1, <3>2, Remainder
  <2> QED BY <2>1, <2>2
<1> QED BY <1>2, <1>3, <1>6, FramesAssumption

(* The value of a counter is never the one after itself.                   *)
LEMMA NotItsOwnNext ==
  ASSUME NEW m \in Nat
  PROVE  m % CC # ((m % CC) + 1) % CC
<1>1. PICK r \in 0 .. (CC - 1) : r = m % CC
  BY Quotient
<1>2. CASE r + 1 < CC
  BY <1>1, <1>2, Remainder, FramesAssumption
<1>3. CASE r + 1 = CC
  <2>1. r + 1 = 1 * CC + 0
    BY <1>3, FramesAssumption
  <2> QED BY <1>1, <1>3, <2>1, Remainder, FramesAssumption
<1> QED BY <1>1, <1>2, <1>3, FramesAssumption
-----------------------------------------------------------------------------
(* The frames: what is filled from one PES. p is all that was sent on the  *)
(* PID, and last the last packet of it that arrived.                       *)

PesPacket == [start : BOOLEAN, size : Nat]
PesUnit == [pid : StreamPids, n : Nat \ {0}, at : Nat]

EndIn(p, unit) == unit.at + p[unit.n].size
LeftOut(p, used, missing) ==
    \A m \in missing : ~p[m].start /\ used + p[m].size > MAX_BUFFER_SIZE
FromPes(p, x, data, size, last) ==
    /\ last \in 1 .. Len(p)
    /\ \A k \in 1 .. Len(data) :
         /\ data[k].pid = x /\ data[k].n <= last /\ p[data[k].n].start = (k = 1)
    /\ data[1].at = 0 /\ size = EndIn(p, data[Len(data)])
    /\ \A k \in 1 .. (Len(data) - 1) :
         /\ data[k].n < data[k + 1].n /\ data[k + 1].at = EndIn(p, data[k])
         /\ LeftOut(p, EndIn(p, data[k]), (data[k].n + 1) .. (data[k + 1].n - 1))
    /\ LeftOut(p, size, (data[Len(data)].n + 1) .. last)

(* The packets of p are the first of q.                                    *)
Grown(p, q) == Len(p) <= Len(q) /\ \A m \in 1 .. Len(p) : q[m] = p[m]

(* A unit of a frame has a number and a place.                             *)
LEMMA UnitFields ==
  ASSUME NEW data \in Seq(PesUnit), data # <<>>
  PROVE  /\ Len(data) \in Nat /\ Len(data) >= 1
         /\ \A k \in 1 .. Len(data) : data[k].n \in Nat /\ data[k].n >= 1 /\ data[k].at \in Nat
<1>1. Len(data) \in Nat \ {0}
  BY EmptySeq
<1>2. ASSUME NEW k \in 1 .. Len(data)
      PROVE  data[k].n \in Nat /\ data[k].n >= 1 /\ data[k].at \in Nat
  <2>1. data[k] \in PesUnit
    BY ElementOfSeq
  <2> QED BY <2>1 DEF PesUnit
<1> QED BY <1>1, <1>2

(* A frame stays filled from its PES when more is sent.                    *)
LEMMA FromPesGrows ==
  ASSUME NEW p \in Seq(PesPacket), NEW q \in Seq(PesPacket), Grown(p, q),
         NEW data \in Seq(PesUnit), data # <<>>, NEW x, NEW size, NEW last,
         FromPes(p, x, data, size, last)
  PROVE  FromPes(q, x, data, size, last)
<1>1. Len(p) \in Nat /\ Len(q) \in Nat /\ Len(p) <= Len(q) /\ last \in 1 .. Len(p)
  BY LenProperties DEF Grown, FromPes
<1>2. /\ Len(data) \in Nat /\ Len(data) >= 1
      /\ \A k \in 1 .. Len(data) : data[k].n \in Nat /\ data[k].n >= 1 /\ data[k].at \in Nat
  BY UnitFields
<1>3. \A k \in 1 .. Len(data) : data[k].n <= last
  BY DEF FromPes
<1>4. \A m \in 1 .. last : q[m] = p[m]
  BY <1>1 DEF Grown
<1>5. \A k \in 1 .. Len(data) : data[k].n \in 1 .. last
  BY <1>1, <1>2, <1>3
<1>6. \A k \in 1 .. Len(data) : EndIn(q, data[k]) = EndIn(p, data[k])
  BY <1>4, <1>5 DEF EndIn
<1>7. last \in 1 .. Len(q)
  BY <1>1
<1>8. \A k \in 1 .. Len(data) :
        data[k].pid = x /\ data[k].n <= last /\ q[data[k].n].start = (k = 1)
  BY <1>4, <1>5 DEF FromPes
<1>9. data[1].at = 0 /\ size = EndIn(q, data[Len(data)])
  BY <1>2, <1>6 DEF FromPes
<1>10. ASSUME NEW k \in 1 .. (Len(data) - 1)
       PROVE  /\ data[k].n < data[k + 1].n /\ data[k + 1].at = EndIn(q, data[k])
              /\ LeftOut(q, EndIn(q, data[k]), (data[k].n + 1) .. (data[k + 1].n - 1))
  <2>1. k \in 1 .. Len(data) /\ k + 1 \in 1 .. Len(data)
    BY <1>2
  <2>2. /\ data[k].n < data[k + 1].n /\ data[k + 1].at = EndIn(p, data[k])
        /\ LeftOut(p, EndIn(p, data[k]), (data[k].n + 1) .. (data[k + 1].n - 1))
    BY DEF FromPes
  <2>3. \A m \in (data[k].n + 1) .. (data[k + 1].n - 1) : m \in 1 .. last
    BY <1>1, <1>5, <2>1
  <2>4. EndIn(q, data[k]) = EndIn(p, data[k])
    BY <1>6, <2>1
  <2>5. LeftOut(q, EndIn(p, data[k]), (data[k].n + 1) .. (data[k + 1].n - 1))
    BY <1>4, <2>2, <2>3 DEF LeftOut
  <2> QED BY <2>2, <2>4, <2>5
<1>11. LeftOut(q, size, (data[Len(data)].n + 1) .. last)
  <2>1. LeftOut(p, size, (data[Len(data)].n + 1) .. last)
    BY DEF FromPes
  <2>2. \A m \in (data[Len(data)].n + 1) .. last : m \in 1 .. last
    BY <1>1, <1>2
  <2> QED BY <1>4, <2>1, <2>2 DEF LeftOut
<1> QED BY <1>7, <1>8, <1>9, <1>10, <1>11 DEF FromPes

(* A start with data begins a frame.                                       *)
LEMMA FromPesBegins ==
  ASSUME NEW p \in Seq(PesPacket), NEW n \in 1 .. Len(p), p[n].start, NEW x \in StreamPids,
         NEW data, data = <<[pid |-> x, n |-> n, at |-> 0]>>
  PROVE  FromPes(p, x, data, p[n].size, n)
<1>1. Len(data) = 1 /\ data[1] = [pid |-> x, n |-> n, at |-> 0]
  OBVIOUS
<1>2. p[n].start \in BOOLEAN /\ p[n].size \in Nat /\ Len(p) \in Nat
  <2>1. p[n] \in PesPacket
    BY ElementOfSeq
  <2> QED BY <2>1, LenProperties DEF PesPacket
<1>3. EndIn(p, data[1]) = p[n].size
  BY <1>1, <1>2 DEF EndIn
<1>4. p[n].start = TRUE
  BY <1>2
<1>5. \A k \in 1 .. Len(data) :
        data[k].pid = x /\ data[k].n <= n /\ p[data[k].n].start = (k = 1)
  <2> TAKE k \in 1 .. Len(data)
  <2>1. k = 1
    BY <1>1
  <2>2. data[k].pid = x /\ data[k].n = n
    BY <1>1, <2>1
  <2>3. data[k].n <= n /\ p[data[k].n] = p[n]
    BY <1>2, <2>2
  <2>4. p[n].start = (k = 1)
    BY <1>4, <2>1
  <2> QED BY <2>2, <2>3, <2>4
<1>6. LeftOut(p, p[n].size, (data[Len(data)].n + 1) .. n)
  BY <1>1, <1>2 DEF LeftOut
<1> QED BY <1>1, <1>2, <1>3, <1>5, <1>6 DEF FromPes

(* The next packet of the PID goes on with a frame if it has room, ...     *)
LEMMA FromPesGoesOn ==
  ASSUME NEW p \in Seq(PesPacket), NEW n \in 2 .. Len(p), ~p[n].start, NEW x \in StreamPids,
         NEW data \in Seq(PesUnit), data # <<>>, NEW size \in Nat,
         FromPes(p, x, data, size, n - 1)
  PROVE  FromPes(p, x, Append(data, [pid |-> x, n |-> n, at |-> size]), size + p[n].size, n)
<1>1. PICK unit \in PesUnit : unit = [pid |-> x, n |-> n, at |-> size]
  <2>1. n \in Nat \ {0}
    BY LenProperties
  <2>2. [pid |-> x, n |-> n, at |-> size] \in PesUnit
    BY <2>1 DEF PesUnit
  <2> QED BY <2>2
<1>2. PICK more \in Seq(PesUnit) : more = Append(data, unit)
  BY Appended
<1>3. PICK len \in Nat : len = Len(data) /\ len >= 1
  BY UnitFields
<1>4. Len(more) = len + 1 /\ more[len + 1] = unit /\ \A k \in 1 .. len : more[k] = data[k]
  BY <1>2, <1>3, Appended
<1>5. p[n].start \in BOOLEAN /\ p[n].size \in Nat /\ Len(p) \in Nat
  <2>1. Len(p) \in Nat
    BY LenProperties
  <2>2. p[n] \in PesPacket
    BY <2>1, ElementOfSeq
  <2> QED BY <2>1, <2>2 DEF PesPacket
<1>6. \A k \in 1 .. len : data[k].n \in Nat /\ data[k].n >= 1 /\ data[k].at \in Nat
  BY <1>3, UnitFields
<1>7. /\ \A k \in 1 .. len : data[k].pid = x /\ data[k].n <= n - 1 /\ p[data[k].n].start = (k = 1)
      /\ data[1].at = 0 /\ size = EndIn(p, data[len])
      /\ \A k \in 1 .. (len - 1) :
           /\ data[k].n < data[k + 1].n /\ data[k + 1].at = EndIn(p, data[k])
           /\ LeftOut(p, EndIn(p, data[k]), (data[k].n + 1) .. (data[k + 1].n - 1))
      /\ LeftOut(p, size, (data[len].n + 1) .. (n - 1))
  BY <1>3 DEF FromPes
<1>8. ASSUME NEW k \in 1 .. (len + 1)
      PROVE  more[k].pid = x /\ more[k].n <= n /\ p[more[k].n].start = (k = 1)
  <2>1. CASE k \in 1 .. len
    <3>1. more[k] = data[k]
      BY <1>4, <2>1
    <3>2. data[k].pid = x /\ data[k].n <= n - 1 /\ p[data[k].n].start = (k = 1)
      BY <1>7, <2>1
    <3>3. data[k].n \in Nat
      BY <1>6, <2>1
    <3>4. data[k].n <= n
      BY <3>2, <3>3
    <3> QED BY <3>1, <3>2, <3>4
  <2>2. CASE k = len + 1
    <3>1. more[k] = unit /\ k # 1
      BY <1>3, <1>4, <2>2
    <3>2. more[k].pid = x /\ more[k].n = n
      BY <1>1, <3>1
    <3>3. p[n].start = FALSE
      BY <1>5
    <3> QED BY <1>5, <3>1, <3>2, <3>3
  <2> QED BY <1>3, <2>1, <2>2
<1>9. EndIn(p, more[len + 1]) = size + p[n].size
  BY <1>1, <1>4 DEF EndIn
<1>10. more[1].at = 0
  BY <1>3, <1>4, <1>7
<1>11. ASSUME NEW k \in 1 .. len
       PROVE  /\ more[k].n < more[k + 1].n /\ more[k + 1].at = EndIn(p, more[k])
              /\ LeftOut(p, EndIn(p, more[k]), (more[k].n + 1) .. (more[k + 1].n - 1))
  <2>1. CASE k \in 1 .. (len - 1)
    <3>1. more[k] = data[k] /\ more[k + 1] = data[k + 1]
      BY <1>3, <1>4, <2>1
    <3> QED BY <1>7, <2>1, <3>1
  <2>2. CASE k = len
    <3>1. more[k] = data[len] /\ more[k + 1].n = n /\ more[k + 1].at = size
      BY <1>1, <1>3, <1>4, <2>2
    <3>2. data[len].n < n
      BY <1>3, <1>6, <1>7
    <3> QED BY <1>7, <3>1, <3>2
  <2> QED BY <1>3, <2>1, <2>2
<1>12. LeftOut(p, size + p[n].size, (more[len + 1].n + 1) .. n)
  BY <1>1, <1>4, <1>5 DEF LeftOut
<1>13. n \in 1 .. Len(p)
  BY <1>5
<1>14. FromPes(p, x, more, size + p[n].size, n)
  BY <1>3, <1>4, <1>8, <1>9, <1>10, <1>11, <1>12, <1>13 DEF FromPes
<1> QED BY <1>1, <1>2, <1>14

(* ... and is left out of it if not.                                       *)
LEMMA FromPesLeavesOut ==
  ASSUME NEW p \in Seq(PesPacket), NEW n \in 2 .. Len(p), ~p[n].start, NEW x,
         NEW data \in Seq(PesUnit), data # <<>>, NEW size \in Nat,
         FromPes(p, x, data, size, n - 1), size + p[n].size > MAX_BUFFER_SIZE
  PROVE  FromPes(p, x, data, size, n)
<1>1. Len(p) \in Nat
  BY LenProperties
<1>2. /\ Len(data) \in Nat /\ Len(data) >= 1
      /\ \A k \in 1 .. Len(data) : data[k].n \in Nat /\ data[k].n >= 1 /\ data[k].at \in Nat
  BY UnitFields
<1>3. \A k \in 1 .. Len(data) :
        data[k].pid = x /\ data[k].n <= n /\ p[data[k].n].start = (k = 1)
  <2> TAKE k \in 1 .. Len(data)
  <2>1. data[k].pid = x /\ data[k].n <= n - 1 /\ p[data[k].n].start = (k = 1)
    BY DEF FromPes
  <2>2. data[k].n \in Nat
    BY <1>2
  <2>3. data[k].n <= n
    BY <2>1, <2>2
  <2> QED BY <2>1, <2>3
<1>4. LeftOut(p, size, (data[Len(data)].n + 1) .. n)
  <2>1. LeftOut(p, size, (data[Len(data)].n + 1) .. (n - 1))
    BY DEF FromPes
  <2>2. ASSUME NEW m \in (data[Len(data)].n + 1) .. n
        PROVE  ~p[m].start /\ size + p[m].size > MAX_BUFFER_SIZE
    <3>1. CASE m = n
      BY <3>1
    <3>2. CASE m # n
      <4>1. m \in (data[Len(data)].n + 1) .. (n - 1)
        BY <1>2, <3>2
      <4> QED BY <2>1, <4>1 DEF LeftOut
    <3> QED BY <3>1, <3>2
  <2> QED BY <2>2 DEF LeftOut
<1>5. n \in 1 .. Len(p)
  BY <1>1
<1> QED BY <1>3, <1>4, <1>5 DEF FromPes
-----------------------------------------------------------------------------
(* The frames: the inductive invariant                                     *)

Engine == [data : Seq(PesUnit), index : Nat, last : 0 .. (CC - 1), errors : Nat]
History == [last : Nat, irregular : Nat, base : Nat, atStart : Nat, changed : BOOLEAN]

FrameTypes ==
    /\ sent \in [StreamPids -> Seq(Frames!Packet)]
    /\ burst \in [StreamPids -> 0 .. MaxBurst]
    /\ engine \in [Frames!Places -> Engine] /\ heard \in [Frames!Places -> History]

(* The streams have places, and PIDs of their own.                         *)
Placed ==
    /\ DOMAIN streams \subseteq Frames!Places
    /\ \A i \in DOMAIN streams : streams[i].pid \in StreamPids
    /\ \A i, j \in DOMAIN streams : streams[i].pid = streams[j].pid => i = j

(* What was heard at a place: all that was sent but for the last run of    *)
(* losses; the counter is that of the last packet, and the errors are the  *)
(* gaps and repeats.                                                       *)
HeardRight(i) ==
    /\ heard[i].last > 0 =>
         /\ i \in DOMAIN streams
         /\ heard[i].last + burst[streams[i].pid] = Len(sent[streams[i].pid])
         /\ engine[i].last = Frames!CounterOf(heard[i].last)
         /\ engine[i].errors = heard[i].base + heard[i].irregular
    /\ heard[i].last = 0 => heard[i].irregular = 0

(* Whether the frame of a place had no error and no other stream since it  *)
(* began; and that such a frame is filled from one PES, up to the last     *)
(* packet heard.                                                           *)
Clean(i) == ~heard[i].changed /\ engine[i].errors = heard[i].atStart
Whole(i) ==
    FromPes(sent[streams[i].pid], streams[i].pid, engine[i].data, engine[i].index, heard[i].last)
AssembledRight(i) ==
    /\ engine[i].index <= MAX_BUFFER_SIZE
    /\ engine[i].index > 0 <=> engine[i].data # <<>>
    /\ heard[i].atStart <= engine[i].errors
    /\ Clean(i) /\ engine[i].data # <<>> => i \in DOMAIN streams /\ Whole(i)

(* What a frame is made of was sent, and so is one handed on.              *)
SentBefore(data, n) == \A k \in 1 .. Len(data) : data[k].n <= Len(n[data[k].pid])
UnitsSent == \A i \in Frames!Places : SentBefore(engine[i].data, sent)
FrameHandedOn ==
    frame # NONE =>
      /\ frame.place \in Frames!Places /\ frame.data \in Seq(PesUnit) /\ frame.data # <<>>
      /\ ~frame.history.changed /\ frame.errors = frame.history.atStart
           => \E x \in StreamPids :
                FromPes(sent[x], x, frame.data, frame.size, frame.history.last)

FrameInv ==
    /\ FrameTypes /\ Placed /\ UnitsSent /\ FrameHandedOn
    /\ \A i \in Frames!Places : HeardRight(i) /\ AssembledRight(i)

(* A packet is one of the source.                                          *)
LEMMA PacketFields ==
  ASSUME NEW packet \in Frames!Packet
  PROVE  /\ packet \in PesPacket /\ packet.start \in BOOLEAN /\ packet.size \in Nat
         /\ packet.size > 0 \/ packet.start
<1>1. PICK start \in BOOLEAN, size \in Nat :
        packet = [start |-> start, size |-> size] /\ (size > 0 \/ start)
  <2>1. CASE packet \in [start : BOOLEAN, size : PacketSizes]
    <3>1. PICK start \in BOOLEAN, size \in PacketSizes : packet = [start |-> start, size |-> size]
      BY <2>1
    <3>2. size \in Nat /\ size > 0
      BY FramesAssumption
    <3> QED BY <3>1, <3>2
  <2>2. CASE packet \in [start : {TRUE}, size : {0}]
    <3>1. packet = [start |-> TRUE, size |-> 0]
      BY <2>2
    <3> QED BY <3>1
  <2> QED BY <2>1, <2>2 DEF Frames!Packet
<1>2. packet.start = start /\ packet.size = size
  BY <1>1
<1> QED BY <1>1, <1>2 DEF PesPacket

(* And so are all of a sequence.                                           *)
LEMMA PacketsFields ==
  ASSUME NEW p \in Seq(Frames!Packet)
  PROVE  p \in Seq(PesPacket)
<1>1. Len(p) \in Nat /\ p \in [1 .. Len(p) -> Frames!Packet]
  BY LenProperties
<1>2. p \in [1 .. Len(p) -> PesPacket]
  BY <1>1, PacketFields
<1> QED BY <1>1, <1>2, SeqDef

(* The places of a layout.                                                 *)
LEMMA LayoutPlaced ==
  ASSUME NEW list \in Layouts
  PROVE  /\ DOMAIN Frames!StreamsOf(list) \subseteq Frames!Places
         /\ \A i \in DOMAIN Frames!StreamsOf(list) : Frames!StreamsOf(list)[i].pid \in StreamPids
         /\ \A i, j \in DOMAIN Frames!StreamsOf(list) :
              Frames!StreamsOf(list)[i].pid = Frames!StreamsOf(list)[j].pid => i = j
<1> DEFINE Described == [pid : StreamPids, type : STRING, tags : Seq(STRING)]
<1>1. /\ list \in Seq(Described) /\ Len(list) \in Nat /\ DOMAIN list = 1 .. Len(list)
      /\ \A i \in DOMAIN list : list[i] \in Described
  <2>1. list \in Seq(Described)
    BY LayoutsAssumption
  <2>2. DOMAIN list = 1 .. Len(list) /\ Len(list) \in Nat
    BY <2>1, LenProperties
  <2>3. \A i \in 1 .. Len(list) : list[i] \in Described
    BY <2>1, ElementOfSeq
  <2> QED BY <2>1, <2>2, <2>3
<1>2. /\ DOMAIN Frames!StreamsOf(list) = DOMAIN list
      /\ \A i \in DOMAIN list : Frames!StreamsOf(list)[i].pid = list[i].pid
  BY DEF Frames!StreamsOf
<1>3. Len(list) <= Frames!MaxPlaces /\ Frames!MaxPlaces \in Nat
  <2>1. PICK longest \in Layouts : \A l \in Layouts : Len(l) <= Len(longest)
    BY LayoutsAssumption
  <2>2. \E n \in {Len(l) : l \in Layouts} : \A l \in Layouts : Len(l) <= n
    BY <2>1
  <2>3. /\ Frames!MaxPlaces \in {Len(l) : l \in Layouts}
        /\ \A l \in Layouts : Len(l) <= Frames!MaxPlaces
    BY <2>2, Zenon DEF Frames!MaxPlaces
  <2>4. \A l \in Layouts : Len(l) \in Nat
    BY LayoutsAssumption, LenProperties
  <2> QED BY <2>3, <2>4
<1>4. DOMAIN list \subseteq Frames!Places
  BY <1>1, <1>3 DEF Frames!Places
<1>5. \A i \in DOMAIN list : list[i].pid \in StreamPids
  BY <1>1
<1>6. \A i, j \in DOMAIN list : list[i].pid = list[j].pid => i = j
  BY LayoutsAssumption
<1> QED BY <1>2, <1>4, <1>5, <1>6

(* The counters and the frames begin with nothing heard.                   *)
LEMMA FrameInit == Frames!Init => FrameInv
<1> SUFFICES ASSUME Frames!Init PROVE FrameInv
  OBVIOUS
<1>1. /\ 0 \in 0 .. MaxBurst /\ 0 \in 0 .. (CC - 1) /\ MAX_BUFFER_SIZE \in Nat
      /\ <<>> \in Seq(PesUnit) /\ <<>> \in Seq(Frames!Packet) /\ Len(<<>>) = 0
  BY FramesAssumption, EmptySeq
<1>2. Placed
  <2>1. PICK list \in Layouts : streams = Frames!StreamsOf(list)
    BY DEF Frames!Init
  <2> QED BY <2>1, LayoutPlaced DEF Placed
<1>3. \A i \in Frames!Places :
        /\ engine[i] = [data |-> <<>>, index |-> 0, last |-> 0, errors |-> 0]
        /\ heard[i] = [last |-> 0, irregular |-> 0, base |-> 0, atStart |-> 0, changed |-> FALSE]
  BY DEF Frames!Init
<1>4. FrameTypes
  <2>1. [data |-> <<>>, index |-> 0, last |-> 0, errors |-> 0] \in Engine
    BY <1>1 DEF Engine
  <2>2. [last |-> 0, irregular |-> 0, base |-> 0, atStart |-> 0, changed |-> FALSE] \in History
    BY DEF History
  <2>3. engine \in [Frames!Places -> Engine] /\ heard \in [Frames!Places -> History]
    BY <2>1, <2>2 DEF Frames!Init
  <2>4. /\ sent \in [StreamPids -> Seq(Frames!Packet)]
        /\ burst \in [StreamPids -> 0 .. MaxBurst]
    BY <1>1 DEF Frames!Init
  <2> QED BY <2>3, <2>4 DEF FrameTypes
<1>5. \A i \in Frames!Places : HeardRight(i) /\ AssembledRight(i)
  BY <1>1, <1>3 DEF HeardRight, AssembledRight
<1>6. FrameHandedOn
  BY DEF Frames!Init, FrameHandedOn
<1>7. UnitsSent
  BY <1>1, <1>3 DEF UnitsSent, SentBefore
<1> QED BY <1>2, <1>4, <1>5, <1>6, <1>7 DEF FrameInv

(* What a packet does at a place, whether it starts a frame or not: n is   *)
(* the next one after those heard and lost, or the last one again.         *)
Noted(i, n, start) ==
    /\ engine'[i].last = Frames!CounterOf(n)
    /\ engine'[i].errors = IF Frames!InSequence(engine[i].last, n)
                           THEN engine[i].errors ELSE engine[i].errors + 1
    /\ heard'[i].last = n
    /\ heard'[i].irregular = IF heard[i].last = 0 \/ n = heard[i].last + 1
                             THEN heard[i].irregular ELSE heard[i].irregular + 1
    /\ heard'[i].base = IF heard[i].last = 0 THEN engine'[i].errors ELSE heard[i].base
    /\ heard'[i].atStart = IF start THEN engine'[i].errors ELSE heard[i].atStart
    /\ heard'[i].changed = IF start THEN FALSE ELSE heard[i].changed
Others(i) ==
    \A j \in Frames!Places : j # i => engine'[j] = engine[j] /\ heard'[j] = heard[j]

(* What is copied goes behind the data and moves the index; the counter    *)
(* and the errors are left alone.                                          *)
LEMMA CopiedBehind ==
  ASSUME NEW e \in Engine, NEW x \in StreamPids, NEW n \in Nat \ {0}, NEW size \in Nat,
         NEW more, more = Frames!Copied(e, x, n, size)
  PROVE  /\ more \in Engine
         /\ more.data = Append(e.data, [pid |-> x, n |-> n, at |-> e.index])
         /\ more.index = e.index + size /\ more.last = e.last /\ more.errors = e.errors
<1>1. PICK d \in Seq(PesUnit), ix \in Nat :
        d = Append(e.data, [pid |-> x, n |-> n, at |-> e.index]) /\ ix = e.index + size
  <2>1. e.index + size \in Nat /\ e.data \in Seq(PesUnit) /\ e.index \in Nat
    BY DEF Engine
  <2>2. [pid |-> x, n |-> n, at |-> e.index] \in PesUnit
    BY <2>1 DEF PesUnit
  <2>3. Append(e.data, [pid |-> x, n |-> n, at |-> e.index]) \in Seq(PesUnit)
    BY <2>1, <2>2, Appended
  <2> QED BY <2>1, <2>3
<1>2. more = [e EXCEPT !.data = d, !.index = ix]
  BY <1>1, Zenon DEF Frames!Copied
<1> QED BY <1>1, <1>2 DEF Engine

(* An engine that is emptied.                                              *)
LEMMA EmptiedBehind ==
  ASSUME NEW e \in Engine, NEW f, f = Frames!Emptied(e)
  PROVE  /\ f \in Engine /\ f.data = <<>> /\ f.index = 0
         /\ f.last = e.last /\ f.errors = e.errors
<1>1. <<>> \in Seq(PesUnit)
  BY EmptySeq
<1> QED BY <1>1 DEF Engine, Frames!Emptied

(* A counter that is noted at one place is noted there only.               *)
LEMMA NotedAtPlace ==
  ASSUME FrameTypes, NEW i \in Frames!Places, NEW n \in Nat, NEW start \in BOOLEAN,
         NEW e, e = Frames!NotedCounter(engine[i], n),
         NEW new \in Engine, new.last = e.last, new.errors = e.errors,
         engine' = [engine EXCEPT ![i] = new],
         Frames!Hears(i, n, e.errors, start)
  PROVE  /\ Noted(i, n, start) /\ Others(i)
         /\ engine'[i] = new
         /\ engine' \in [Frames!Places -> Engine] /\ heard' \in [Frames!Places -> History]
<1>1. engine[i] \in Engine /\ heard[i] \in History
  BY DEF FrameTypes
<1>2. Frames!CounterOf(n) \in 0 .. (CC - 1)
  <2>1. offset + n \in Nat
    BY FramesAssumption
  <2> QED BY <2>1, FramesAssumption DEF Frames!CounterOf
<1>3. PICK errors \in Nat : errors = IF Frames!InSequence(engine[i].last, n)
                                     THEN engine[i].errors ELSE engine[i].errors + 1
  BY <1>1 DEF Engine
<1>4. e.last = Frames!CounterOf(n) /\ e.errors = errors
  BY <1>1, <1>2, <1>3 DEF Frames!NotedCounter, Engine
<1>5. /\ engine'[i] = new /\ new.last = Frames!CounterOf(n) /\ new.errors = errors
      /\ \A j \in Frames!Places : j # i => engine'[j] = engine[j]
      /\ engine' \in [Frames!Places -> Engine]
  BY <1>4 DEF FrameTypes
<1>6. PICK irregular \in Nat, base \in Nat :
        /\ irregular = IF heard[i].last = 0 \/ n = heard[i].last + 1
                       THEN heard[i].irregular ELSE heard[i].irregular + 1
        /\ base = IF heard[i].last = 0 THEN errors ELSE heard[i].base
  BY <1>1 DEF History
<1> DEFINE now == [heard[i] EXCEPT !.last = n, !.irregular = irregular, !.base = base]
<1>7. /\ now \in History /\ now.last = n /\ now.atStart = heard[i].atStart
      /\ now.changed = heard[i].changed /\ now.irregular = irregular /\ now.base = base
  BY <1>1 DEF History
<1>10. heard' = [heard EXCEPT ![i] =
          IF start THEN [now EXCEPT !.atStart = errors, !.changed = FALSE] ELSE now]
  BY <1>4, <1>6 DEF Frames!Hears
<1> HIDE DEF now
<1>8. CASE start
  <2>1. heard'[i] = [now EXCEPT !.atStart = errors, !.changed = FALSE]
    BY <1>8, <1>10 DEF FrameTypes
  <2>2. heard' \in [Frames!Places -> History] /\ \A j \in Frames!Places : j # i => heard'[j] = heard[j]
    BY <1>7, <1>8, <1>10 DEF FrameTypes, History
  <2>3. /\ heard'[i].last = n /\ heard'[i].atStart = errors /\ heard'[i].changed = FALSE
        /\ heard'[i].irregular = now.irregular /\ heard'[i].base = now.base
    BY <1>7, <2>1 DEF History
  <2> QED BY <1>3, <1>5, <1>6, <1>7, <1>8, <2>2, <2>3 DEF Noted, Others
<1>9. CASE ~start
  <2>1. heard'[i] = now
    BY <1>9, <1>10 DEF FrameTypes
  <2>2. heard' \in [Frames!Places -> History] /\ \A j \in Frames!Places : j # i => heard'[j] = heard[j]
    BY <1>7, <1>9, <1>10 DEF FrameTypes
  <2> QED BY <1>3, <1>5, <1>6, <1>7, <1>9, <2>1, <2>2 DEF Noted, Others
<1> QED BY <1>8, <1>9

(* The counter tells: after at most MaxBurst losses a packet is in         *)
(* sequence exactly if it follows the last one heard.                      *)
LEMMA GapSeen ==
  ASSUME FrameTypes, NEW i \in DOMAIN streams, i \in Frames!Places, streams[i].pid \in StreamPids,
         HeardRight(i), heard[i].last > 0,
         NEW n \in Nat, NEW all \in Nat, all = Len(sent[streams[i].pid]),
         n = all + 1 \/ (n = all /\ n = heard[i].last)
  PROVE  Frames!InSequence(engine[i].last, n) <=> n = heard[i].last + 1
<1>1. /\ heard[i].last \in Nat /\ burst[streams[i].pid] \in 0 .. (CC - 1)
      /\ offset + heard[i].last \in Nat
  BY FramesAssumption DEF FrameTypes, History
<1>2. /\ heard[i].last + burst[streams[i].pid] = all
      /\ engine[i].last = (offset + heard[i].last) % CC
  BY DEF HeardRight, Frames!CounterOf
<1>3. Frames!InSequence(engine[i].last, n)
        <=> (offset + n) % CC = (((offset + heard[i].last) % CC) + 1) % CC
  BY <1>2 DEF Frames!InSequence, Frames!CounterOf
<1>4. CASE n = all + 1
  <2>1. offset + n = (offset + heard[i].last) + burst[streams[i].pid] + 1
    <3>1. PICK o \in Nat, last \in Nat, lost \in 0 .. (CC - 1) :
            o = offset /\ last = heard[i].last /\ lost = burst[streams[i].pid]
      BY <1>1, FramesAssumption DEF FrameTypes
    <3>2. last + lost = all /\ lost \in Nat
      BY <1>2, <3>1, FramesAssumption
    <3>3. n = (last + lost) + 1
      BY <1>4, <3>1, <3>2
    <3>4. o + ((last + lost) + 1) = (o + last) + lost + 1
      BY ONLY o \in Nat, last \in Nat, <3>2
    <3> QED BY <3>1, <3>3, <3>4
  <2>2. Frames!InSequence(engine[i].last, n) <=> burst[streams[i].pid] = 0
    BY <1>1, <1>3, <2>1, NextCounter
  <2>3. n = heard[i].last + 1 <=> burst[streams[i].pid] = 0
    BY <1>1, <1>2, <1>4
  <2> QED BY <2>2, <2>3
<1>5. CASE n = heard[i].last
  <2>1. ~Frames!InSequence(engine[i].last, n)
    BY <1>1, <1>3, <1>5, NotItsOwnNext
  <2> QED BY <1>1, <1>5, <2>1
<1> QED BY <1>4, <1>5

(* A packet of a stream at the place of the stream.                        *)
LEMMA HeardAtPlace ==
  ASSUME FrameTypes, NEW i \in DOMAIN streams, i \in Frames!Places, streams[i].pid \in StreamPids,
         HeardRight(i), NEW n \in Nat, n > 0, NEW start \in BOOLEAN, Noted(i, n, start),
         streams' = streams,
         NEW all \in Nat, all = Len(sent[streams[i].pid]), Len(sent'[streams[i].pid]) = n,
         \/ n = all + 1 /\ burst'[streams[i].pid] = 0
         \/ n = all /\ n = heard[i].last /\ burst' = burst
  PROVE  HeardRight(i)'
<1>1. /\ heard[i].last \in Nat /\ heard[i].irregular \in Nat /\ heard[i].base \in Nat
      /\ engine[i].errors \in Nat /\ burst[streams[i].pid] \in Nat
  BY FramesAssumption DEF FrameTypes, History, Engine
<1>2. engine'[i].last = (Frames!CounterOf(n))'
  BY DEF Noted, Frames!CounterOf
<1>3. n + burst'[streams[i].pid] = Len(sent'[streams[i].pid])
  <2>1. CASE n = all + 1 /\ burst'[streams[i].pid] = 0
    BY <2>1
  <2>2. CASE n = all /\ n = heard[i].last /\ burst' = burst
    BY <1>1, <2>2 DEF HeardRight
  <2> QED BY <2>1, <2>2
<1>4. engine'[i].errors = heard'[i].base + heard'[i].irregular
  <2>1. CASE heard[i].last = 0
    <3>1. heard'[i].base = engine'[i].errors /\ heard'[i].irregular = 0
      BY <2>1 DEF Noted, HeardRight
    <3>2. engine'[i].errors \in Nat
      BY <1>1 DEF Noted
    <3> QED BY <3>1, <3>2
  <2>2. CASE heard[i].last > 0
    <3>1. Frames!InSequence(engine[i].last, n) <=> n = heard[i].last + 1
      BY <2>2, GapSeen
    <3>2. /\ heard[i].last # 0 /\ heard'[i].base = heard[i].base
          /\ engine[i].errors = heard[i].base + heard[i].irregular
      BY <1>1, <2>2 DEF Noted, HeardRight
    <3>3. CASE n = heard[i].last + 1
      <4>1. engine'[i].errors = engine[i].errors /\ heard'[i].irregular = heard[i].irregular
        BY <3>1, <3>3 DEF Noted
      <4> QED BY <3>2, <4>1
    <3>4. CASE n # heard[i].last + 1
      <4>1. engine'[i].errors = engine[i].errors + 1 /\ heard'[i].irregular = heard[i].irregular + 1
        BY <3>1, <3>2, <3>4 DEF Noted
      <4> QED BY <1>1, <3>2, <4>1
    <3> QED BY <3>3, <3>4
  <2> QED BY <1>1, <2>1, <2>2
<1>5. heard'[i].last = n
  BY DEF Noted
<1> QED BY <1>2, <1>3, <1>4, <1>5 DEF HeardRight

(* A frame that begins with the last packet sent.                          *)
LEMMA BegunAtPlace ==
  ASSUME FrameTypes, NEW i \in DOMAIN streams, i \in Frames!Places,
         NEW x \in StreamPids, x = streams[i].pid, streams' = streams,
         NEW q \in Seq(PesPacket), q = sent'[x], NEW n \in 1 .. Len(q), q[n].start,
         Noted(i, n, TRUE),
         \/ /\ q[n].size \in 1 .. MAX_BUFFER_SIZE /\ engine'[i].index = q[n].size
            /\ engine'[i].data = <<[pid |-> x, n |-> n, at |-> 0]>>
         \/ engine'[i].data = <<>> /\ engine'[i].index = 0
  PROVE  AssembledRight(i)'
<1>1. engine[i].errors \in Nat /\ MAX_BUFFER_SIZE \in Nat
  BY FramesAssumption DEF FrameTypes, Engine
<1>2. heard'[i].last = n /\ heard'[i].atStart = engine'[i].errors /\ engine'[i].errors \in Nat
  BY <1>1 DEF Noted
<1>3. CASE engine'[i].data = <<>> /\ engine'[i].index = 0
  BY <1>1, <1>2, <1>3 DEF AssembledRight
<1>4. CASE /\ q[n].size \in 1 .. MAX_BUFFER_SIZE /\ engine'[i].index = q[n].size
           /\ engine'[i].data = <<[pid |-> x, n |-> n, at |-> 0]>>
  <2>1. FromPes(q, x, engine'[i].data, engine'[i].index, heard'[i].last)
    BY <1>2, <1>4, FromPesBegins
  <2>2. Whole(i)'
    BY <2>1 DEF Whole
  <2>3. engine'[i].index <= MAX_BUFFER_SIZE /\ engine'[i].index > 0
    BY <1>1, <1>4
  <2>4. engine'[i].data # <<>>
    BY <1>4
  <2>5. heard'[i].atStart <= engine'[i].errors
    BY <1>2
  <2> QED BY <2>2, <2>3, <2>4, <2>5 DEF AssembledRight
<1> QED BY <1>3, <1>4

(* A packet that goes on with the frame of its place, or is left out: if   *)
(* the frame is still clean the packet was in sequence.                    *)
LEMMA AddedAtPlace ==
  ASSUME FrameTypes, NEW i \in DOMAIN streams, i \in Frames!Places,
         HeardRight(i), AssembledRight(i),
         NEW x \in StreamPids, x = streams[i].pid, streams' = streams,
         NEW p \in Seq(PesPacket), p = sent[x], NEW q \in Seq(PesPacket), q = sent'[x],
         NEW n \in 1 .. Len(q), ~q[n].start, Grown(p, q),
         n = Len(p) + 1 \/ (n = Len(p) /\ n = heard[i].last),
         Noted(i, n, FALSE),
         \/ /\ engine[i].index > 0 /\ engine[i].index + q[n].size <= MAX_BUFFER_SIZE
            /\ engine'[i].data = Append(engine[i].data,
                                        [pid |-> x, n |-> n, at |-> engine[i].index])
            /\ engine'[i].index = engine[i].index + q[n].size
         \/ /\ ~(engine[i].index > 0 /\ engine[i].index + q[n].size <= MAX_BUFFER_SIZE)
            /\ engine'[i].data = engine[i].data /\ engine'[i].index = engine[i].index
  PROVE  AssembledRight(i)'
<1>1. /\ engine[i].errors \in Nat /\ MAX_BUFFER_SIZE \in Nat
      /\ engine[i].data \in Seq(PesUnit) /\ engine[i].index \in Nat
      /\ heard[i].last \in Nat /\ heard[i].atStart \in Nat
  BY FramesAssumption DEF FrameTypes, Engine, History
<1>2. Len(p) \in Nat /\ Len(q) \in Nat /\ n \in Nat /\ q[n].size \in Nat
  <2>1. q[n] \in PesPacket
    BY ElementOfSeq
  <2> QED BY <2>1, LenProperties DEF PesPacket
<1>3. PICK data \in Seq(PesUnit), index \in Nat : data = engine[i].data /\ index = engine[i].index
  BY <1>1
<1>4. PICK more \in Seq(PesUnit) : more = Append(data, [pid |-> x, n |-> n, at |-> index])
                                    /\ more # <<>>
  <2>1. [pid |-> x, n |-> n, at |-> index] \in PesUnit
    BY <1>2 DEF PesUnit
  <2> QED BY <2>1, AppendProperties
<1>5. /\ heard'[i].last = n /\ heard'[i].atStart = heard[i].atStart
      /\ heard'[i].changed = heard[i].changed
      /\ engine'[i].errors = engine[i].errors \/ engine'[i].errors = engine[i].errors + 1
      /\ engine'[i].errors = engine[i].errors => Frames!InSequence(engine[i].last, n)
  BY <1>1 DEF Noted
<1>6. index <= MAX_BUFFER_SIZE /\ (index > 0 <=> data # <<>>) /\ heard[i].atStart <= engine[i].errors
  BY <1>3 DEF AssembledRight
<1>7. \/ /\ index > 0 /\ index + q[n].size <= MAX_BUFFER_SIZE
         /\ engine'[i].data = more /\ engine'[i].index = index + q[n].size
      \/ /\ ~(index > 0 /\ index + q[n].size <= MAX_BUFFER_SIZE)
         /\ engine'[i].data = data /\ engine'[i].index = index
  BY <1>3, <1>4
<1>8. engine'[i].index <= MAX_BUFFER_SIZE /\ (engine'[i].index > 0 <=> engine'[i].data # <<>>)
  BY <1>1, <1>2, <1>4, <1>6, <1>7
<1>9. heard'[i].atStart <= engine'[i].errors
  BY <1>1, <1>5, <1>6
<1>10. ASSUME Clean(i)', engine'[i].data # <<>>
       PROVE  Whole(i)'
  <2>1. Clean(i) /\ engine'[i].errors = engine[i].errors
    BY <1>1, <1>5, <1>6, <1>10 DEF Clean
  <2>2. data # <<>> /\ index > 0
    BY <1>6, <1>7, <1>10
  <2>3. FromPes(p, x, data, index, heard[i].last)
    BY <1>3, <2>1, <2>2 DEF AssembledRight, Whole
  <2>4. heard[i].last >= 1
    BY <1>2, <2>3 DEF FromPes
  <2>5. Frames!InSequence(engine[i].last, n)
    BY <1>5, <2>1
  <2>6. n = heard[i].last + 1
    <3>1. heard[i].last > 0
      BY <1>1, <2>4
    <3> QED BY <1>2, <2>5, <3>1, GapSeen
  <2>7. n \in 2 .. Len(q) /\ heard[i].last = n - 1
    <3>1. PICK last \in Nat : last = heard[i].last
      BY <1>1
    <3>2. last >= 1 /\ n = last + 1 /\ n <= Len(q)
      BY <1>2, <2>4, <2>6, <3>1
    <3>3. n \in 2 .. Len(q) /\ last = n - 1
      BY ONLY <1>2, <3>1, <3>2
    <3> QED BY ONLY <3>1, <3>3
  <2>8. FromPes(q, x, data, index, n - 1)
    BY <2>2, <2>3, <2>7, FromPesGrows
  <2>9. FromPes(q, x, engine'[i].data, engine'[i].index, n)
    <3>1. CASE /\ index > 0 /\ index + q[n].size <= MAX_BUFFER_SIZE
               /\ engine'[i].data = more /\ engine'[i].index = index + q[n].size
      BY <1>4, <2>2, <2>7, <2>8, <3>1, FromPesGoesOn
    <3>2. CASE /\ ~(index > 0 /\ index + q[n].size <= MAX_BUFFER_SIZE)
               /\ engine'[i].data = data /\ engine'[i].index = index
      <4>1. index + q[n].size > MAX_BUFFER_SIZE
        <5>1. PICK next \in Nat, size \in Nat, most \in Nat :
                next = index /\ size = q[n].size /\ most = MAX_BUFFER_SIZE
          BY <1>1, <1>2
        <5>2. next > 0 /\ ~(next > 0 /\ next + size <= most)
          BY <2>2, <3>2, <5>1
        <5>3. next + size > most
          BY ONLY <5>1, <5>2
        <5> QED BY <5>1, <5>3
      <4>2. FromPes(q, x, data, index, n)
        BY <2>2, <2>7, <2>8, <4>1, FromPesLeavesOut
      <4> QED BY <3>2, <4>2
    <3> QED BY <1>7, <3>1, <3>2
  <2> QED BY <1>5, <2>9 DEF Whole
<1> QED BY <1>8, <1>9, <1>10 DEF AssembledRight

(* The places that a packet does not go to.                                *)
LEMMA OtherPlaces ==
  ASSUME FrameInv, NEW x \in StreamPids, NEW j \in Frames!Places,
         j \in DOMAIN streams => streams[j].pid # x,
         engine'[j] = engine[j], heard'[j] = heard[j], streams' = streams,
         \A y \in StreamPids : y # x => sent'[y] = sent[y] /\ burst'[y] = burst[y]
  PROVE  HeardRight(j)' /\ AssembledRight(j)'
<1>1. HeardRight(j) /\ AssembledRight(j) /\ Placed
  BY DEF FrameInv
<1>2. AssembledRight(j)'
  <2>1. ASSUME Clean(j), engine[j].data # <<>>
        PROVE  j \in DOMAIN streams' /\ Whole(j)'
    <3>1. j \in DOMAIN streams /\ Whole(j)
      BY <1>1, <2>1 DEF AssembledRight
    <3>2. sent'[streams[j].pid] = sent[streams[j].pid]
      BY <1>1, <3>1 DEF Placed
    <3> QED BY <3>1, <3>2 DEF Whole
  <2> QED BY <1>1, <2>1 DEF AssembledRight, Clean
<1>3. HeardRight(j)'
  <2>1. CASE heard[j].last > 0
    <3>1. /\ sent'[streams[j].pid] = sent[streams[j].pid]
          /\ burst'[streams[j].pid] = burst[streams[j].pid]
      BY <1>1, <2>1 DEF HeardRight, Placed
    <3> QED BY <1>1, <3>1 DEF HeardRight, Frames!CounterOf
  <2>2. CASE ~(heard[j].last > 0)
    BY <1>1, <2>2 DEF HeardRight
  <2> QED BY <2>1, <2>2
<1> QED BY <1>2, <1>3

(* What was sent stays sent.                                               *)
LEMMA SentBeforeGrows ==
  ASSUME NEW data \in Seq(PesUnit),
         NEW m \in [StreamPids -> Seq(PesPacket)], NEW n \in [StreamPids -> Seq(PesPacket)],
         SentBefore(data, m), \A y \in StreamPids : Grown(m[y], n[y])
  PROVE  SentBefore(data, n)
<1> SUFFICES ASSUME NEW k \in 1 .. Len(data) PROVE data[k].n <= Len(n[data[k].pid])
  BY DEF SentBefore
<1>1. data[k] \in PesUnit
  BY ElementOfSeq
<1>2. data[k].n \in Nat /\ data[k].pid \in StreamPids
  BY <1>1 DEF PesUnit
<1>3. data[k].n <= Len(m[data[k].pid])
  BY DEF SentBefore
<1>4. Len(m[data[k].pid]) \in Nat /\ Len(n[data[k].pid]) \in Nat
  BY <1>2, LenProperties
<1> QED BY <1>2, <1>3, <1>4 DEF Grown

(* A packet sent goes behind packets sent.                                 *)
LEMMA SentBeforeAppended ==
  ASSUME NEW data \in Seq(PesUnit), NEW n, NEW unit \in PesUnit,
         SentBefore(data, n), unit.n <= Len(n[unit.pid])
  PROVE  SentBefore(Append(data, unit), n)
<1> SUFFICES ASSUME NEW k \in 1 .. Len(Append(data, unit))
             PROVE  Append(data, unit)[k].n <= Len(n[Append(data, unit)[k].pid])
  BY DEF SentBefore
<1>1. k = Len(data) + 1 \/ k \in 1 .. Len(data)
  BY Appended
<1>2. CASE k = Len(data) + 1
  BY <1>2, Appended
<1>3. CASE k \in 1 .. Len(data)
  <2>1. Append(data, unit)[k] = data[k]
    BY <1>3, Appended
  <2> QED BY <1>3, <2>1 DEF SentBefore
<1> QED BY <1>1, <1>2, <1>3

(* What was sent are packets, and more of them are the same with more.     *)
LEMMA SentPackets ==
  ASSUME NEW s \in [StreamPids -> Seq(Frames!Packet)]
  PROVE  s \in [StreamPids -> Seq(PesPacket)] /\ \A y \in StreamPids : Len(s[y]) \in Nat
<1>1. ASSUME NEW y \in StreamPids
      PROVE  s[y] \in Seq(PesPacket) /\ Len(s[y]) \in Nat
  <2>1. s[y] \in Seq(Frames!Packet)
    OBVIOUS
  <2> QED BY <2>1, PacketsFields, LenProperties
<1> QED BY <1>1

(* One packet more on one PID.                                             *)
OneMore(s, t, x, packet) ==
    /\ Len(t[x]) = Len(s[x]) + 1 /\ t[x][Len(t[x])] = packet
    /\ \A y \in StreamPids : Grown(s[y], t[y]) /\ (y # x => t[y] = s[y])

(* One more packet of a PID.                                               *)
LEMMA SentMore ==
  ASSUME NEW s \in [StreamPids -> Seq(Frames!Packet)], NEW x \in StreamPids,
         NEW packet \in Frames!Packet, NEW t, t = [s EXCEPT ![x] = Append(@, packet)]
  PROVE  t \in [StreamPids -> Seq(Frames!Packet)] /\ OneMore(s, t, x, packet)
<1>1. s[x] \in Seq(Frames!Packet)
  OBVIOUS
<1>2. PICK more \in Seq(Frames!Packet) : more = Append(s[x], packet)
  BY <1>1, Appended
<1>3. /\ Len(more) = Len(s[x]) + 1 /\ more[Len(s[x]) + 1] = packet /\ Len(s[x]) \in Nat
      /\ \A m \in 1 .. Len(s[x]) : more[m] = s[x][m]
  BY <1>1, <1>2, Appended, LenProperties
<1>4. t \in [StreamPids -> Seq(Frames!Packet)] /\ t[x] = more /\ \A y \in StreamPids : y # x => t[y] = s[y]
  BY <1>2
<1>5. \A y \in StreamPids : Len(s[y]) \in Nat
  BY LenProperties
<1>6. \A y \in StreamPids : Grown(s[y], t[y])
  BY <1>3, <1>4, <1>5 DEF Grown
<1> QED BY <1>3, <1>4, <1>6 DEF OneMore

(* A frame that was handed on stays what it is.                            *)
LEMMA HandedOnStays ==
  ASSUME FrameHandedOn, frame' = frame,
         NEW s \in [StreamPids -> Seq(PesPacket)], s = sent,
         NEW t \in [StreamPids -> Seq(PesPacket)], t = sent',
         \A y \in StreamPids : Grown(s[y], t[y])
  PROVE  FrameHandedOn'
<1>1. ASSUME frame # NONE, ~frame.history.changed, frame.errors = frame.history.atStart
      PROVE  \E x \in StreamPids :
               FromPes(t[x], x, frame.data, frame.size, frame.history.last)
  <2>1. PICK x \in StreamPids : FromPes(s[x], x, frame.data, frame.size, frame.history.last)
    BY <1>1 DEF FrameHandedOn
  <2>2. frame.data \in Seq(PesUnit) /\ frame.data # <<>>
    BY <1>1 DEF FrameHandedOn
  <2>3. s[x] \in Seq(PesPacket) /\ t[x] \in Seq(PesPacket) /\ Grown(s[x], t[x])
    OBVIOUS
  <2>4. FromPes(t[x], x, frame.data, frame.size, frame.history.last)
    BY <2>1, <2>2, <2>3, FromPesGrows
  <2> QED BY <2>4
<1> QED BY <1>1 DEF FrameHandedOn

(* A packet at a place of its stream, and what it does there: the frame    *)
(* it starts or goes on with, and the one it hands on.                     *)
LEMMA PacketAtPlace ==
  ASSUME FrameInv, NEW x \in StreamPids, NEW i \in Frames!PlaceOf(x),
         NEW packet \in Frames!Packet, NEW n \in Nat \ {0}, Frames!ArrivesAt(i, x, n, packet),
         streams' = streams,
         NEW all \in Nat, all = Len(sent[x]),
         \/ /\ n = all + 1 /\ sent' = [sent EXCEPT ![x] = Append(@, packet)]
            /\ burst' = [burst EXCEPT ![x] = 0]
         \/ /\ n = all /\ n = heard[i].last /\ packet = sent[x][all]
            /\ sent' = sent /\ burst' = burst
  PROVE  FrameInv'
<1>1. /\ FrameTypes /\ Placed /\ UnitsSent /\ FrameHandedOn
      /\ \A j \in Frames!Places : HeardRight(j) /\ AssembledRight(j)
  BY DEF FrameInv
<1>2. /\ i \in DOMAIN streams /\ streams[i].pid = x /\ i \in Frames!Places
      /\ \A j \in DOMAIN streams : j # i => streams[j].pid # x
  BY <1>1 DEF Frames!PlaceOf, Placed
<1>3. engine[i] \in Engine /\ packet.start \in BOOLEAN /\ packet.size \in Nat
  BY <1>1, <1>2, PacketFields DEF FrameTypes
<1>4. PICK s \in [StreamPids -> Seq(Frames!Packet)] : s = sent
  BY <1>1 DEF FrameTypes
<1>5. PICK t \in [StreamPids -> Seq(Frames!Packet)] :
        /\ t = sent' /\ Len(t[x]) = n /\ t[x][n] = packet
        /\ \A y \in StreamPids : Grown(s[y], t[y]) /\ (y # x => t[y] = s[y])
  <2>1. CASE n = all + 1 /\ sent' = [sent EXCEPT ![x] = Append(@, packet)]
    <3>1. PICK u : u = [s EXCEPT ![x] = Append(@, packet)]
      OBVIOUS
    <3>2. u \in [StreamPids -> Seq(Frames!Packet)] /\ OneMore(s, u, x, packet)
      BY <3>1, SentMore, Zenon
    <3>3. Len(u[x]) = Len(s[x]) + 1 /\ u[x][Len(u[x])] = packet
      BY <3>2 DEF OneMore
    <3>4. \A y \in StreamPids : Grown(s[y], u[y]) /\ (y # x => u[y] = s[y])
      BY <3>2 DEF OneMore
    <3>5. u = sent' /\ Len(u[x]) = n
      BY <1>4, <2>1, <3>1, <3>3
    <3> QED BY <3>2, <3>3, <3>4, <3>5
  <2>2. CASE n = all /\ packet = sent[x][all] /\ sent' = sent
    <3>1. \A y \in StreamPids : Len(s[y]) \in Nat
      BY SentPackets
    <3>2. \A y \in StreamPids : Grown(s[y], s[y])
      BY <3>1 DEF Grown
    <3> QED BY <1>4, <2>2, <3>2
  <2> QED BY <2>1, <2>2
<1>6. /\ s \in [StreamPids -> Seq(PesPacket)] /\ t \in [StreamPids -> Seq(PesPacket)]
      /\ \A y \in StreamPids : Len(t[y]) \in Nat
  BY SentPackets
<1>7. burst' \in [StreamPids -> 0 .. MaxBurst] /\ \A y \in StreamPids : y # x => burst'[y] = burst[y]
  <2>1. burst \in [StreamPids -> 0 .. MaxBurst] /\ 0 \in 0 .. MaxBurst
    BY <1>1, FramesAssumption DEF FrameTypes
  <2>2. CASE burst' = [burst EXCEPT ![x] = 0]
    BY <2>1, <2>2
  <2>3. CASE burst' = burst
    BY <2>1, <2>3
  <2> QED BY <2>2, <2>3
<1>8. sent' \in [StreamPids -> Seq(Frames!Packet)]
  BY <1>1, <1>5 DEF FrameTypes
<1>9. PICK e : e = Frames!NotedCounter(engine[i], n)
  OBVIOUS
<1>10. e \in Engine /\ e.data = engine[i].data /\ e.index = engine[i].index
  <2>1. offset + n \in Nat
    BY FramesAssumption
  <2>2. Frames!CounterOf(n) \in 0 .. (CC - 1)
    BY <2>1, FramesAssumption DEF Frames!CounterOf
  <2>3. PICK errors \in Nat : errors = IF Frames!InSequence(engine[i].last, n)
                                      THEN engine[i].errors ELSE engine[i].errors + 1
    <3>1. engine[i].errors \in Nat
      BY <1>3 DEF Engine
    <3>2. engine[i].errors + 1 \in Nat
      BY <3>1
    <3> QED BY <3>1, <3>2
  <2>4. e = [engine[i] EXCEPT !.last = Frames!CounterOf(n), !.errors = errors]
    BY <1>3, <1>9, <2>3 DEF Frames!NotedCounter, Engine
  <2> QED BY <1>3, <2>2, <2>4 DEF Engine
<1>11. /\ engine[i].data \in Seq(PesUnit) /\ engine[i].index \in Nat /\ MAX_BUFFER_SIZE \in Nat
       /\ SentBefore(engine[i].data, s) /\ (engine[i].index > 0 <=> engine[i].data # <<>>)
  BY <1>1, <1>2, <1>3, <1>4, FramesAssumption DEF Engine, UnitsSent, AssembledRight
<1>12. PICK unit \in PesUnit : unit = [pid |-> x, n |-> n, at |-> engine[i].index]
  <2>1. [pid |-> x, n |-> n, at |-> engine[i].index] \in PesUnit
    BY <1>11 DEF PesUnit
  <2> QED BY <2>1
<1>13. ASSUME Noted(i, n, packet.start), Others(i)
       PROVE  \A j \in Frames!Places : HeardRight(j)' /\ (j # i => AssembledRight(j)')
  <2>1. HeardRight(i)'
    <3>1. HeardRight(i) /\ all = Len(sent[streams[i].pid]) /\ Len(sent'[streams[i].pid]) = n
      BY <1>1, <1>2, <1>5
    <3>2. \/ n = all + 1 /\ burst'[streams[i].pid] = 0
          \/ n = all /\ n = heard[i].last /\ burst' = burst
      BY <1>1, <1>2 DEF FrameTypes
    <3>3. n \in Nat /\ n > 0
      OBVIOUS
    <3> QED BY <1>1, <1>2, <1>3, <1>13, <3>1, <3>2, <3>3, HeardAtPlace
  <2>2. ASSUME NEW j \in Frames!Places, j # i
        PROVE  HeardRight(j)' /\ AssembledRight(j)'
    <3>1. engine'[j] = engine[j] /\ heard'[j] = heard[j]
      BY <1>13, <2>2 DEF Others
    <3>2. \A y \in StreamPids : y # x => sent'[y] = sent[y] /\ burst'[y] = burst[y]
      BY <1>4, <1>5, <1>7
    <3>3. j \in DOMAIN streams => streams[j].pid # x
      BY <1>2, <2>2
    <3> QED BY <3>1, <3>2, <3>3, OtherPlaces
  <2> QED BY <2>1, <2>2
<1>14. Placed'
  BY <1>1 DEF Placed
<1>15. ASSUME Others(i), SentBefore(engine'[i].data, t)
       PROVE  UnitsSent'
  <2>1. ASSUME NEW j \in Frames!Places, j # i
        PROVE  SentBefore(engine'[j].data, t)
    <3>1. engine'[j].data = engine[j].data /\ engine[j].data \in Seq(PesUnit)
      BY <1>1, <1>15, <2>1 DEF Others, FrameTypes, Engine
    <3>2. SentBefore(engine[j].data, s)
      BY <1>1, <1>4, <2>1 DEF UnitsSent
    <3>3. SentBefore(engine[j].data, t)
      BY <1>5, <1>6, <3>1, <3>2, SentBeforeGrows
    <3> QED BY <3>1, <3>3
  <2> QED BY <1>5, <1>15, <2>1 DEF UnitsSent
<1>16. PICK grown \in Engine :
         /\ grown = Frames!Copied(e, x, n, packet.size)
         /\ grown.data = Append(engine[i].data, unit)
         /\ grown.index = engine[i].index + packet.size
         /\ grown.last = e.last /\ grown.errors = e.errors
  <2>1. PICK h \in Engine : h = e
    BY <1>10
  <2>2. PICK g \in Engine : /\ g = Frames!Copied(h, x, n, packet.size)
                            /\ g.data = Append(h.data, [pid |-> x, n |-> n, at |-> h.index])
                            /\ g.index = h.index + packet.size
                            /\ g.last = h.last /\ g.errors = h.errors
    <3>1. PICK copied : copied = Frames!Copied(h, x, n, packet.size)
      OBVIOUS
    <3>2. /\ copied \in Engine
          /\ copied.data = Append(h.data, [pid |-> x, n |-> n, at |-> h.index])
          /\ copied.index = h.index + packet.size
          /\ copied.last = h.last /\ copied.errors = h.errors
      BY <1>3, <3>1, CopiedBehind
    <3> QED BY <3>1, <3>2
  <2>3. g.data = Append(engine[i].data, unit) /\ g.index = engine[i].index + packet.size
    BY <1>10, <1>12, <2>1, <2>2
  <2> QED BY <2>1, <2>2, <2>3
<1>17. CASE packet.start
  <2>1. Frames!StartAt(i, x, n, packet.size)
    BY <1>17 DEF Frames!ArrivesAt
  <2>2. PICK f \in Engine : /\ f = Frames!Emptied(e) /\ f.data = <<>> /\ f.index = 0
                            /\ f.last = e.last /\ f.errors = e.errors
    BY <1>10, EmptiedBehind
  <2>3. PICK more \in Engine : /\ more = Frames!Copied(f, x, n, packet.size)
                               /\ more.data = Append(f.data, [pid |-> x, n |-> n, at |-> f.index])
                               /\ more.index = f.index + packet.size
                               /\ more.last = f.last /\ more.errors = f.errors
    <3>1. PICK copied : copied = Frames!Copied(f, x, n, packet.size)
      OBVIOUS
    <3>2. /\ copied \in Engine
          /\ copied.data = Append(f.data, [pid |-> x, n |-> n, at |-> f.index])
          /\ copied.index = f.index + packet.size
          /\ copied.last = f.last /\ copied.errors = f.errors
      BY <1>3, <3>1, CopiedBehind
    <3> QED BY <3>1, <3>2
  <2>4. more.data = <<[pid |-> x, n |-> n, at |-> 0]>> /\ more.index = packet.size
    <3>1. PICK u : u = [pid |-> x, n |-> n, at |-> 0]
      OBVIOUS
    <3>2. Append(<<>>, u) = <<u>> /\ 0 + packet.size = packet.size
      BY <1>3
    <3> QED BY <2>2, <2>3, <3>1, <3>2
  <2>5. PICK new \in Engine :
          /\ new = Frames!Begun(e, x, n, packet.size)
          /\ new.last = e.last /\ new.errors = e.errors
          /\ \/ packet.size \in 1 .. MAX_BUFFER_SIZE /\ new = more
             \/ new = f
    <3>1. Frames!Begun(e, x, n, packet.size)
            = IF packet.size \in 1 .. MAX_BUFFER_SIZE THEN more ELSE f
      BY <2>2, <2>3 DEF Frames!Begun
    <3> QED BY <2>2, <2>3, <3>1
  <2>6. engine' = [engine EXCEPT ![i] = new] /\ Frames!Hears(i, n, e.errors, TRUE)
    BY <1>9, <2>1, <2>5 DEF Frames!StartAt
  <2>7. /\ Noted(i, n, TRUE) /\ Others(i) /\ engine'[i] = new
        /\ engine' \in [Frames!Places -> Engine] /\ heard' \in [Frames!Places -> History]
    BY <1>1, <1>2, <1>9, <2>5, <2>6, NotedAtPlace
  <2>8. packet.start = TRUE
    BY <1>3, <1>17
  <2>9. \A j \in Frames!Places : HeardRight(j)' /\ (j # i => AssembledRight(j)')
    BY <1>13, <2>7, <2>8
  <2>10. AssembledRight(i)'
    <3>1. PICK q \in Seq(PesPacket) : q = sent'[x] /\ Len(q) = n /\ q[n] = packet
      BY <1>5, <1>6
    <3>2. n \in 1 .. Len(q) /\ q[n].start
      BY <1>17, <3>1
    <3>3. \/ /\ q[n].size \in 1 .. MAX_BUFFER_SIZE /\ engine'[i].index = q[n].size
             /\ engine'[i].data = <<[pid |-> x, n |-> n, at |-> 0]>>
          \/ engine'[i].data = <<>> /\ engine'[i].index = 0
      BY <2>2, <2>4, <2>5, <2>7, <3>1
    <3> QED BY <1>1, <1>2, <2>7, <3>1, <3>2, <3>3, BegunAtPlace
  <2>11. UnitsSent'
    <3>1. CASE new = f
      BY <1>15, <2>2, <2>7, <3>1 DEF SentBefore
    <3>2. CASE new = more
      <4>1. Len(more.data) = 1 /\ more.data[1].n = n /\ more.data[1].pid = x
        BY <2>4
      <4>2. SentBefore(more.data, t)
        BY <1>5, <4>1 DEF SentBefore
      <4> QED BY <1>15, <2>7, <3>2, <4>2
    <3> QED BY <2>5, <3>1, <3>2
  <2>12. FrameHandedOn'
    <3>1. CASE engine[i].index > 0 /\ Frames!HandedOn(i)
      <4>1. frame' = Frames!FrameOf(i)
        BY <2>1, <3>1 DEF Frames!StartAt
      <4>2. /\ frame'.data = engine[i].data /\ frame'.errors = engine[i].errors
            /\ frame'.history = heard[i] /\ frame'.place = i /\ frame'.size = engine[i].index
        BY <4>1 DEF Frames!FrameOf
      <4>3. ASSUME ~heard[i].changed, engine[i].errors = heard[i].atStart
            PROVE  FromPes(t[x], x, engine[i].data, engine[i].index, heard[i].last)
        <5>1. Whole(i)
          BY <1>1, <1>2, <1>11, <3>1, <4>3 DEF AssembledRight, Clean
        <5>2. FromPes(s[x], x, engine[i].data, engine[i].index, heard[i].last)
          BY <1>2, <1>4, <5>1 DEF Whole
        <5>3. s[x] \in Seq(PesPacket) /\ t[x] \in Seq(PesPacket) /\ Grown(s[x], t[x])
          BY <1>5, <1>6
        <5> QED BY <1>11, <3>1, <5>2, <5>3, FromPesGrows
      <4> QED BY <1>2, <1>5, <1>11, <3>1, <4>2, <4>3 DEF FrameHandedOn
    <3>2. CASE ~(engine[i].index > 0 /\ Frames!HandedOn(i))
      <4>1. frame' = frame
        BY <2>1, <3>2 DEF Frames!StartAt
      <4> QED BY <1>1, <1>4, <1>5, <1>6, <4>1, HandedOnStays
    <3> QED BY <3>1, <3>2
  <2> QED BY <1>7, <1>8, <1>14, <2>7, <2>9, <2>10, <2>11, <2>12 DEF FrameInv, FrameTypes
<1>18. CASE ~packet.start
  <2>1. Frames!AddAt(i, x, n, packet.size)
    BY <1>18 DEF Frames!ArrivesAt
  <2>3. PICK new \in Engine :
          /\ new = Frames!Added(e, x, n, packet.size)
          /\ new.last = e.last /\ new.errors = e.errors
          /\ \/ /\ engine[i].index > 0 /\ engine[i].index + packet.size <= MAX_BUFFER_SIZE
                /\ new.data = Append(engine[i].data, unit)
                /\ new.index = engine[i].index + packet.size
             \/ /\ ~(engine[i].index > 0 /\ engine[i].index + packet.size <= MAX_BUFFER_SIZE)
                /\ new.data = engine[i].data /\ new.index = engine[i].index
    <3>1. Frames!Added(e, x, n, packet.size)
            = IF engine[i].index > 0 /\ engine[i].index + packet.size <= MAX_BUFFER_SIZE
              THEN grown ELSE e
      BY <1>10, <1>16 DEF Frames!Added
    <3>2. CASE engine[i].index > 0 /\ engine[i].index + packet.size <= MAX_BUFFER_SIZE
      BY <1>16, <3>1, <3>2
    <3>3. CASE ~(engine[i].index > 0 /\ engine[i].index + packet.size <= MAX_BUFFER_SIZE)
      BY <1>10, <3>1, <3>3
    <3> QED BY <3>2, <3>3
  <2>4. engine' = [engine EXCEPT ![i] = new] /\ Frames!Hears(i, n, e.errors, FALSE)
        /\ frame' = frame
    BY <1>9, <2>1, <2>3 DEF Frames!AddAt
  <2>5. /\ Noted(i, n, FALSE) /\ Others(i) /\ engine'[i] = new
        /\ engine' \in [Frames!Places -> Engine] /\ heard' \in [Frames!Places -> History]
    BY <1>1, <1>2, <1>9, <2>3, <2>4, NotedAtPlace
  <2>6. packet.start = FALSE
    BY <1>3, <1>18
  <2>7. \A j \in Frames!Places : HeardRight(j)' /\ (j # i => AssembledRight(j)')
    BY <1>13, <2>5, <2>6
  <2>8. AssembledRight(i)'
    <3>1. PICK p \in Seq(PesPacket) : p = sent[x]
      BY <1>4, <1>6
    <3>2. PICK q \in Seq(PesPacket) : q = sent'[x] /\ Len(q) = n /\ q[n] = packet /\ Grown(p, q)
      BY <1>4, <1>5, <1>6, <3>1
    <3>3. n \in 1 .. Len(q) /\ ~q[n].start
      BY <1>18, <3>2
    <3>4. n = Len(p) + 1 \/ (n = Len(p) /\ n = heard[i].last)
      BY <3>1
    <3>5. \/ /\ engine[i].index > 0 /\ engine[i].index + q[n].size <= MAX_BUFFER_SIZE
             /\ engine'[i].data = Append(engine[i].data,
                                         [pid |-> x, n |-> n, at |-> engine[i].index])
             /\ engine'[i].index = engine[i].index + q[n].size
          \/ /\ ~(engine[i].index > 0 /\ engine[i].index + q[n].size <= MAX_BUFFER_SIZE)
             /\ engine'[i].data = engine[i].data /\ engine'[i].index = engine[i].index
      BY <1>12, <2>3, <2>5, <3>2
    <3>6. HeardRight(i) /\ AssembledRight(i)
      BY <1>1, <1>2
    <3> QED BY <1>1, <1>2, <2>5, <3>1, <3>2, <3>3, <3>4, <3>5, <3>6, AddedAtPlace
  <2>9. FrameHandedOn'
    BY <1>1, <1>4, <1>5, <1>6, <2>4, HandedOnStays
  <2>10. UnitsSent'
    <3>1. SentBefore(engine[i].data, t)
      BY <1>5, <1>6, <1>11, SentBeforeGrows
    <3>2. unit.n <= Len(t[unit.pid])
      BY <1>5, <1>12
    <3>3. SentBefore(Append(engine[i].data, unit), t)
      BY <1>11, <3>1, <3>2, SentBeforeAppended
    <3> QED BY <1>15, <2>3, <2>5, <3>1, <3>3
  <2> QED BY <1>7, <1>8, <1>14, <2>5, <2>7, <2>8, <2>9, <2>10 DEF FrameInv, FrameTypes
<1> QED BY <1>17, <1>18

(* A packet that nobody hears: lost, or of a PID that has no place.        *)
LEMMA PacketUnheard ==
  ASSUME FrameInv, NEW x \in StreamPids, UNCHANGED <<engine, heard, frame, streams>>,
         NEW packet \in Frames!Packet, sent' = [sent EXCEPT ![x] = Append(@, packet)],
         \/ burst[x] < MaxBurst /\ burst' = [burst EXCEPT ![x] = @ + 1]
         \/ Frames!PlaceOf(x) = {} /\ burst' = [burst EXCEPT ![x] = 0]
  PROVE  FrameInv'
<1>1. /\ FrameTypes /\ Placed /\ UnitsSent /\ FrameHandedOn
      /\ \A j \in Frames!Places : HeardRight(j) /\ AssembledRight(j)
  BY DEF FrameInv
<1>2. PICK s \in [StreamPids -> Seq(Frames!Packet)] : s = sent
  BY <1>1 DEF FrameTypes
<1>3. PICK t \in [StreamPids -> Seq(Frames!Packet)] : t = sent' /\ OneMore(s, t, x, packet)
  <2>1. PICK u : u = [s EXCEPT ![x] = Append(@, packet)]
    OBVIOUS
  <2>2. u \in [StreamPids -> Seq(Frames!Packet)] /\ OneMore(s, u, x, packet)
    BY <2>1, SentMore, Zenon
  <2>3. u = sent'
    BY <1>2, <2>1
  <2> QED BY <2>2, <2>3
<1>4. /\ Len(t[x]) = Len(s[x]) + 1
      /\ \A y \in StreamPids : Grown(s[y], t[y]) /\ (y # x => t[y] = s[y])
  BY <1>3 DEF OneMore
<1>5. /\ s \in [StreamPids -> Seq(PesPacket)] /\ t \in [StreamPids -> Seq(PesPacket)]
      /\ \A y \in StreamPids : Len(s[y]) \in Nat
  BY SentPackets
<1>6. FrameTypes'
  <2>1. burst[x] \in 0 .. MaxBurst /\ MaxBurst \in Nat /\ burst \in [StreamPids -> 0 .. MaxBurst]
    BY <1>1, FramesAssumption DEF FrameTypes
  <2>2. CASE burst[x] < MaxBurst /\ burst' = [burst EXCEPT ![x] = @ + 1]
    <3>1. burst[x] + 1 \in 0 .. MaxBurst
      BY <2>1, <2>2
    <3> QED BY <1>1, <1>3, <2>1, <2>2, <3>1 DEF FrameTypes
  <2>3. CASE burst' = [burst EXCEPT ![x] = 0]
    <3>1. 0 \in 0 .. MaxBurst
      BY <2>1
    <3> QED BY <1>1, <1>3, <2>1, <2>3, <3>1 DEF FrameTypes
  <2> QED BY <2>2, <2>3
<1>7. Placed'
  BY <1>1 DEF Placed
<1>8. FrameHandedOn'
  BY <1>1, <1>2, <1>3, <1>4, <1>5, HandedOnStays
<1>9. UnitsSent'
  <2>1. ASSUME NEW j \in Frames!Places
        PROVE  SentBefore(engine'[j].data, t)
    <3>1. engine'[j].data = engine[j].data /\ engine[j].data \in Seq(PesUnit)
      BY <1>1, <2>1 DEF FrameTypes, Engine
    <3>2. SentBefore(engine[j].data, s)
      BY <1>1, <1>2, <2>1 DEF UnitsSent
    <3>3. SentBefore(engine[j].data, t)
      BY <1>4, <1>5, <3>1, <3>2, SentBeforeGrows
    <3> QED BY <3>1, <3>3
  <2> QED BY <1>3, <2>1 DEF UnitsSent
<1>10. \A y \in StreamPids : y # x => sent'[y] = sent[y] /\ burst'[y] = burst[y]
  BY <1>1, <1>2, <1>3, <1>4 DEF FrameTypes
<1>11. ASSUME NEW j \in Frames!Places
       PROVE  HeardRight(j)' /\ AssembledRight(j)'
  <2>1. CASE j \in DOMAIN streams => streams[j].pid # x
    BY <1>10, <1>11, <2>1, OtherPlaces
  <2>2. CASE j \in DOMAIN streams /\ streams[j].pid = x
    <3>1. burst' = [burst EXCEPT ![x] = @ + 1]
      BY <2>2 DEF Frames!PlaceOf
    <3>2. /\ Len(sent'[x]) = Len(sent[x]) + 1 /\ burst'[x] = burst[x] + 1
          /\ Len(sent[x]) \in Nat /\ burst[x] \in Nat /\ heard[j].last \in Nat
      BY <1>1, <1>2, <1>3, <1>4, <1>5, <3>1, FramesAssumption DEF FrameTypes, History
    <3>3. heard[j].last > 0 => heard[j].last + burst[x] = Len(sent[x])
      BY <1>1, <2>2 DEF HeardRight
    <3>4. heard[j].last > 0 => heard[j].last + burst'[x] = Len(sent'[x])
      <4>1. PICK last \in Nat, lost \in Nat, all \in Nat :
              last = heard[j].last /\ lost = burst[x] /\ all = Len(sent[x])
        BY <3>2
      <4>2. last + lost = all => last + (lost + 1) = all + 1
        OBVIOUS
      <4> QED BY <3>2, <3>3, <4>1, <4>2
    <3>5. HeardRight(j)'
      BY <1>1, <2>2, <3>4 DEF HeardRight, Frames!CounterOf
    <3>6. AssembledRight(j)'
      <4>1. ASSUME Clean(j), engine[j].data # <<>>
            PROVE  Whole(j)'
        <5>1. FromPes(s[x], x, engine[j].data, engine[j].index, heard[j].last)
          BY <1>1, <1>2, <2>2, <4>1 DEF AssembledRight, Whole
        <5>2. engine[j].data \in Seq(PesUnit)
          BY <1>1 DEF FrameTypes, Engine
        <5>3. s[x] \in Seq(PesPacket) /\ t[x] \in Seq(PesPacket) /\ Grown(s[x], t[x])
          BY <1>4, <1>5
        <5>4. FromPes(t[x], x, engine[j].data, engine[j].index, heard[j].last)
          BY <4>1, <5>1, <5>2, <5>3, FromPesGrows
        <5> QED BY <1>3, <2>2, <5>4 DEF Whole
      <4> QED BY <1>1, <2>2, <4>1 DEF AssembledRight, Clean
    <3> QED BY <3>5, <3>6
  <2> QED BY <2>1, <2>2
<1> QED BY <1>6, <1>7, <1>8, <1>9, <1>11 DEF FrameInv

(* A new PMT: a place either stays what it is, or starts over.             *)
LEMMA PmtRenumbers ==
  ASSUME FrameInv, Frames!NewPmt
  PROVE  FrameInv'
<1>1. /\ FrameTypes /\ Placed /\ UnitsSent /\ FrameHandedOn
      /\ \A j \in Frames!Places : HeardRight(j) /\ AssembledRight(j)
  BY DEF FrameInv
<1>2. PICK list \in Layouts : streams' = Frames!StreamsOf(list)
  BY DEF Frames!NewPmt
<1>3. UNCHANGED <<sent, burst, engine, frame>>
  BY DEF Frames!NewPmt, Frames!sourceVars
<1>4. PICK same \in [Frames!Places -> BOOLEAN] :
        \A i \in Frames!Places :
          same[i] = (i \in DOMAIN streams /\ i \in DOMAIN streams' /\ streams[i] = streams'[i])
  <2> DEFINE f == [i \in Frames!Places |->
                     i \in DOMAIN streams /\ i \in DOMAIN streams' /\ streams[i] = streams'[i]]
  <2>1. f \in [Frames!Places -> BOOLEAN]
    OBVIOUS
  <2>2. \A i \in Frames!Places :
          f[i] = (i \in DOMAIN streams /\ i \in DOMAIN streams' /\ streams[i] = streams'[i])
    OBVIOUS
  <2> QED BY <2>1, <2>2
<1>5. heard' = [i \in Frames!Places |->
                  IF same[i] THEN heard[i]
                  ELSE [heard[i] EXCEPT !.changed = TRUE, !.last = 0, !.irregular = 0, !.base = 0]]
  BY <1>4 DEF Frames!NewPmt
<1>6. Placed'
  BY <1>2, LayoutPlaced DEF Placed
<1>7. ASSUME NEW i \in Frames!Places, same[i]
      PROVE  heard'[i] \in History /\ HeardRight(i)' /\ AssembledRight(i)'
  <2>1. heard'[i] = heard[i] /\ i \in DOMAIN streams' /\ streams'[i] = streams[i]
    BY <1>4, <1>5, <1>7
  <2>2. HeardRight(i) /\ AssembledRight(i) /\ heard[i] \in History
    BY <1>1, <1>7 DEF FrameTypes
  <2>3. HeardRight(i)'
    BY <1>3, <2>1, <2>2 DEF HeardRight, Frames!CounterOf
  <2>4. AssembledRight(i)'
    BY <1>3, <2>1, <2>2 DEF AssembledRight, Clean, Whole
  <2> QED BY <2>1, <2>2, <2>3, <2>4
<1>8. ASSUME NEW i \in Frames!Places, ~same[i]
      PROVE  heard'[i] \in History /\ HeardRight(i)' /\ AssembledRight(i)'
  <2>1. heard[i] \in [last : Nat, irregular : Nat, base : Nat, atStart : Nat, changed : BOOLEAN]
    BY <1>1, <1>8 DEF FrameTypes, History
  <2>2. heard'[i] = [heard[i] EXCEPT !.changed = TRUE, !.last = 0, !.irregular = 0, !.base = 0]
    BY <1>5, <1>8
  <2>3. /\ heard'[i].changed /\ heard'[i].last = 0 /\ heard'[i].irregular = 0
        /\ heard'[i].atStart = heard[i].atStart /\ heard'[i] \in History
    <3>1. PICK h \in [last : Nat, irregular : Nat, base : Nat, atStart : Nat, changed : BOOLEAN] :
            h = heard[i]
      BY <2>1
    <3>2. heard'[i] = [last |-> 0, irregular |-> 0, base |-> 0, atStart |-> h.atStart,
                       changed |-> TRUE]
      BY <2>2, <3>1
    <3> QED BY <3>1, <3>2 DEF History
  <2>4. HeardRight(i)'
    BY <2>3 DEF HeardRight
  <2>5. AssembledRight(i)'
    BY <1>1, <1>3, <1>8, <2>3 DEF AssembledRight, Clean
  <2> QED BY <2>3, <2>4, <2>5
<1>9. FrameHandedOn' /\ UnitsSent'
  BY <1>1, <1>3 DEF FrameHandedOn, UnitsSent, SentBefore
<1>10. FrameTypes'
  <2>1. \A i \in Frames!Places : heard'[i] \in History
    BY <1>7, <1>8
  <2>2. heard' \in [Frames!Places -> History]
    BY <1>5, <2>1
  <2> QED BY <1>1, <1>3, <2>2 DEF FrameTypes
<1> QED BY <1>6, <1>7, <1>8, <1>9, <1>10 DEF FrameInv

(* No packet, loss or new PMT breaks it.                                   *)
LEMMA FrameNext ==
  ASSUME FrameInv, [Frames!Next]_frameVars
  PROVE  FrameInv'
<1>1. /\ FrameTypes /\ Placed /\ UnitsSent /\ FrameHandedOn
      /\ \A j \in Frames!Places : HeardRight(j) /\ AssembledRight(j)
  BY DEF FrameInv
<1>2. CASE UNCHANGED frameVars
  <2>1. /\ sent' = sent /\ burst' = burst /\ streams' = streams
        /\ engine' = engine /\ heard' = heard /\ frame' = frame
    BY <1>2 DEF frameVars
  <2>2. FrameTypes' /\ Placed'
    BY <1>1, <2>1 DEF FrameTypes, Placed
  <2>3. \A j \in Frames!Places : HeardRight(j)' /\ AssembledRight(j)'
    BY <1>1, <2>1 DEF HeardRight, AssembledRight, Clean, Whole, Frames!CounterOf
  <2>4. FrameHandedOn' /\ UnitsSent'
    BY <1>1, <2>1 DEF FrameHandedOn, UnitsSent, SentBefore
  <2> QED BY <2>2, <2>3, <2>4 DEF FrameInv
<1>3. ASSUME NEW x \in StreamPids, NEW packet \in Frames!Packet, Frames!Received(x, packet)
      PROVE  FrameInv'
  <2>1. /\ sent' = [sent EXCEPT ![x] = Append(@, packet)] /\ burst' = [burst EXCEPT ![x] = 0]
        /\ streams' = streams
    BY <1>3 DEF Frames!Received, Frames!Sends
  <2>2. Frames!Arrives(x, Len(sent[x]) + 1, packet)
    BY <1>3 DEF Frames!Received
  <2>3. PICK all \in Nat, n \in Nat \ {0} : all = Len(sent[x]) /\ n = all + 1
    <3>1. Len(sent[x]) \in Nat
      BY <1>1, LenProperties DEF FrameTypes
    <3> QED BY <3>1
  <2>4. CASE Frames!PlaceOf(x) = {}
    <3>1. UNCHANGED <<engine, heard, frame>>
      BY <2>2, <2>4 DEF Frames!Arrives
    <3> QED BY <2>1, <2>4, <3>1, PacketUnheard
  <2>5. CASE Frames!PlaceOf(x) # {}
    <3>1. PICK i \in Frames!PlaceOf(x) : Frames!ArrivesAt(i, x, n, packet)
      BY <2>2, <2>3, <2>5 DEF Frames!Arrives
    <3> QED BY <2>1, <2>3, <3>1, PacketAtPlace
  <2> QED BY <2>4, <2>5
<1>4. ASSUME NEW x \in StreamPids, Frames!Lost(x)
      PROVE  FrameInv'
  <2>1. PICK packet : packet = [start |-> TRUE, size |-> 0]
    OBVIOUS
  <2>2. packet \in Frames!Packet
    BY <2>1 DEF Frames!Packet
  <2>3. /\ sent' = [sent EXCEPT ![x] = Append(@, packet)] /\ burst[x] < MaxBurst
        /\ burst' = [burst EXCEPT ![x] = @ + 1]
        /\ UNCHANGED <<engine, heard, frame, streams>>
    BY <1>4, <2>1 DEF Frames!Lost, Frames!Sends
  <2> QED BY <2>2, <2>3, PacketUnheard
<1>5. ASSUME NEW x \in StreamPids, Frames!Repeated(x)
      PROVE  FrameInv'
  <2>1. sent[x] # <<>> /\ sent[x] \in Seq(Frames!Packet)
    BY <1>1, <1>5 DEF Frames!Repeated, FrameTypes
  <2>2. PICK all \in Nat \ {0} : all = Len(sent[x])
    BY <2>1, EmptySeq
  <2>3. PICK packet \in Frames!Packet : packet = sent[x][all]
    <3>1. all \in 1 .. Len(sent[x])
      BY <2>2
    <3>2. sent[x][all] \in Frames!Packet
      BY <2>1, <3>1, ElementOfSeq
    <3> QED BY <3>2
  <2>4. PICK i \in Frames!PlaceOf(x) :
          heard[i].last = all /\ Frames!ArrivesAt(i, x, all, packet)
    BY <1>5, <2>2, <2>3 DEF Frames!Repeated, Frames!Last
  <2>5. sent' = sent /\ burst' = burst /\ streams' = streams
    BY <1>5 DEF Frames!Repeated, Frames!sourceVars
  <2> QED BY <2>2, <2>3, <2>4, <2>5, PacketAtPlace
<1> QED BY <1>2, <1>3, <1>4, <1>5, PmtRenumbers DEF Frames!Next

(* The types of the parts.                                                 *)
LEMMA TableInvTypes == TableInv => Tables!TypeOK
BY DEF TableInv, PatInv, Listed, BufferInv, EntryInv, Tables!TypeOK

(* The invariant gives the events their types.                             *)
LEMMA EventInvTypes == EventInv => Events!TypeOK
<1> SUFFICES ASSUME EventInv PROVE Events!TypeOK
  OBVIOUS
<1>1. EventTypes /\ SentOnly
  BY DEF EventInv
<1> DEFINE Sent == [words : Events!Words, n : 1 .. MaxEvents]
<1>2. \A e : WasSent(e) => e \in Sent
  <2>1. Len(said) \in Nat /\ Len(said) <= MaxEvents /\ MaxEvents \in Nat
    BY <1>1, LenProperties, EventsAssumption DEF EventTypes
  <2>2. ASSUME NEW e, WasSent(e)
        PROVE  e \in Sent
    <3>1. e \in [words : Events!Words, n : Nat] /\ e.n \in 1 .. MaxEvents
      BY <2>1, <2>2 DEF WasSent, Event
    <3> QED BY <3>1
  <2> QED BY <2>2
<1>3. posts \subseteq Sent /\ late \subseteq Sent /\ thread \in Sent \cup {NONE}
  BY <1>1, <1>2, Zenon DEF SentOnly
<1>4. queue \in Seq(Sent) /\ log \in Seq(Sent)
  <2>1. /\ \A k \in 1 .. Len(queue) : queue[k] \in Sent
        /\ \A k \in 1 .. Len(log) : log[k] \in Sent
    BY <1>1, <1>2, Zenon DEF SentOnly, Waiting, InLog
  <2>2. queue \in Seq(Event) /\ log \in Seq(Event)
    BY <1>1 DEF EventTypes
  <2>3. /\ queue = [k \in 1 .. Len(queue) |-> queue[k]] /\ Len(queue) \in Nat
        /\ log = [k \in 1 .. Len(log) |-> log[k]] /\ Len(log) \in Nat
    BY <2>2, LenProperties
  <2>4. queue \in [1 .. Len(queue) -> Sent] /\ log \in [1 .. Len(log) -> Sent]
    BY <2>1, <2>3
  <2>5. \A s, n : n \in Nat /\ s \in [1 .. n -> Sent] => s \in Seq(Sent)
    BY SeqDef
  <2> QED BY <2>3, <2>4, <2>5
<1> QED BY <1>1, <1>3, <1>4 DEF EventTypes, Events!TypeOK

(* And the frames theirs.                                                  *)
LEMMA FrameInvTypes == FrameInv => Frames!TypeOK
<1> SUFFICES ASSUME FrameInv PROVE Frames!TypeOK
  OBVIOUS
<1>1. /\ FrameTypes /\ Placed /\ UnitsSent /\ FrameHandedOn
      /\ \A i \in Frames!Places : AssembledRight(i)
  BY DEF FrameInv
<1>2. ASSUME NEW i \in Frames!Places
      PROVE  /\ engine[i].last \in Frames!Counters /\ engine[i].errors \in Nat
             /\ engine[i].index \in 0 .. MAX_BUFFER_SIZE
             /\ engine[i].index > 0 <=> engine[i].data # <<>>
             /\ \A k \in DOMAIN engine[i].data :
                  /\ engine[i].data[k] \in Frames!Unit
                  /\ engine[i].data[k].n <= Len(sent[engine[i].data[k].pid])
  <2>1. engine[i] \in Engine
    BY <1>1 DEF FrameTypes
  <2>2. DOMAIN engine[i].data = 1 .. Len(engine[i].data)
    BY <2>1, LenProperties DEF Engine
  <2>3. \A k \in 1 .. Len(engine[i].data) : engine[i].data[k] \in PesUnit
    BY <2>1, ElementOfSeq DEF Engine
  <2>4. /\ SentBefore(engine[i].data, sent) /\ engine[i].index <= MAX_BUFFER_SIZE
        /\ engine[i].index > 0 <=> engine[i].data # <<>>
    BY <1>1 DEF UnitsSent, AssembledRight
  <2>5. engine[i].last \in Frames!Counters /\ engine[i].errors \in Nat /\ engine[i].index \in Nat
    BY <2>1 DEF Engine, Frames!Counters
  <2>6. engine[i].index \in 0 .. MAX_BUFFER_SIZE
    BY <2>4, <2>5, FramesAssumption
  <2>7. \A k \in 1 .. Len(engine[i].data) :
          /\ engine[i].data[k] \in Frames!Unit
          /\ engine[i].data[k].n <= Len(sent[engine[i].data[k].pid])
    BY <2>3, <2>4 DEF SentBefore, PesUnit, Frames!Unit
  <2> QED BY <2>2, <2>4, <2>5, <2>6, <2>7
<1>3. \A x \in StreamPids : sent[x] \in Seq(Frames!Packet)
  BY <1>1 DEF FrameTypes
<1>4. DOMAIN streams \subseteq Frames!Places
  BY <1>1 DEF Placed
<1>5. frame # NONE => frame.place \in Frames!Places /\ frame.data # <<>>
  BY <1>1 DEF FrameHandedOn
<1> QED BY <1>2, <1>3, <1>4, <1>5 DEF Frames!TypeOK

(* A frame filled from one PES of its stream is what is promised of it.    *)
LEMMA FromPesFilled ==
  ASSUME FrameTypes, NEW x \in StreamPids, NEW data \in Seq(PesUnit), data # <<>>,
         NEW size, NEW last, FromPes(sent[x], x, data, size, last)
  PROVE  Frames!Filled(data, size, last)
<1>1. Len(data) \in Nat /\ Len(data) >= 1
  BY UnitFields
<1>2. \A k \in 1 .. Len(data) : data[k].pid = x /\ sent[x][data[k].n].start = (k = 1)
  BY DEF FromPes
<1>3. data[1].pid = x
  BY <1>1, <1>2
<1>4. ASSUME NEW k \in 1 .. Len(data)
      PROVE  /\ data[k].pid = data[1].pid /\ sent[data[k].pid][data[k].n].start = (k = 1)
             /\ Frames!EndOf(data[k]) = EndIn(sent[x], data[k])
  BY <1>2, <1>3, <1>4, Zenon DEF Frames!EndOf, EndIn
<1>5. ASSUME NEW k \in 1 .. Len(data), NEW missing,
             LeftOut(sent[x], EndIn(sent[x], data[k]), missing)
      PROVE  Frames!NoRoomBehind(data[k], missing)
  <2>1. data[k].pid = x /\ Frames!EndOf(data[k]) = EndIn(sent[x], data[k])
    BY <1>2, <1>4, <1>5
  <2> QED BY <1>5, <2>1, Zenon DEF LeftOut, Frames!NoRoomBehind
<1>6. ASSUME NEW k \in 1 .. (Len(data) - 1)
      PROVE  /\ data[k].n < data[k + 1].n /\ data[k + 1].at = Frames!EndOf(data[k])
             /\ Frames!NoRoomBehind(data[k], (data[k].n + 1) .. (data[k + 1].n - 1))
  <2>1. k \in 1 .. Len(data)
    BY <1>1, <1>6
  <2>2. /\ data[k].n < data[k + 1].n /\ data[k + 1].at = EndIn(sent[x], data[k])
        /\ LeftOut(sent[x], EndIn(sent[x], data[k]), (data[k].n + 1) .. (data[k + 1].n - 1))
    BY <1>6 DEF FromPes
  <2> QED BY <1>4, <1>5, <2>1, <2>2
<1>7. /\ data[1].at = 0 /\ size = Frames!EndOf(data[Len(data)])
      /\ Frames!NoRoomBehind(data[Len(data)], (data[Len(data)].n + 1) .. last)
  <2>1. Len(data) \in 1 .. Len(data)
    BY <1>1
  <2>2. /\ data[1].at = 0 /\ size = EndIn(sent[x], data[Len(data)])
        /\ LeftOut(sent[x], size, (data[Len(data)].n + 1) .. last)
    BY DEF FromPes
  <2> QED BY <1>4, <1>5, <2>1, <2>2
<1> QED BY <1>4, <1>6, <1>7 DEF Frames!Filled

(* What the invariant says of a place is what is promised of it.           *)
LEMMA FrameInvMeans == FrameInv => LossCounted /\ FramesGenuine
<1> SUFFICES ASSUME FrameInv PROVE LossCounted /\ FramesGenuine
  OBVIOUS
<1>1. FrameTypes /\ FrameHandedOn /\ \A i \in DOMAIN streams : i \in Frames!Places /\ HeardRight(i)
  BY DEF FrameInv, Placed
<1>2. LossCounted
  BY <1>1 DEF LossCounted, Frames!LossCounted, HeardRight
<1>3. ASSUME frame # NONE, ~frame.history.changed, frame.errors = frame.history.atStart
      PROVE  Frames!Filled(frame.data, frame.size, frame.history.last)
  <2>1. PICK x \in StreamPids : FromPes(sent[x], x, frame.data, frame.size, frame.history.last)
    BY <1>1, <1>3 DEF FrameHandedOn
  <2>2. frame.data \in Seq(PesUnit) /\ frame.data # <<>>
    BY <1>1, <1>3 DEF FrameHandedOn
  <2> QED BY <1>1, <2>1, <2>2, FromPesFilled
<1>4. FramesGenuine
  BY <1>3 DEF FramesGenuine, Frames!FramesGenuine
<1> QED BY <1>2, <1>4
-----------------------------------------------------------------------------
(* The watch of a UDP input, for tables of any size, any descriptors and   *)
(* any number of seconds                                                   *)

(* The least of a set of numbers is one of them.                           *)
LEMMA MinIsLeast ==
  ASSUME NEW S, S \subseteq Nat, S # {}
  PROVE  Min(S) \in S
BY LeastOf DEF Min

(* A table, what is open and the socket, when none but the socket is open  *)
(* and it has one slot.                                                    *)
Accounted(t, o, fd) ==
  /\ t \in [Slots -> Descriptors \cup {NONE}]
  /\ fd \in Descriptors \cup {NONE}
  /\ o = {fd} \ {NONE}
  /\ \A s \in Slots : t[s] \in {fd, NONE}
  /\ fd # NONE => \E s \in Slots : \A r \in Slots : t[r] = fd <=> r = s

(* Closing the one socket leaves none open and no slot used.               *)
LEMMA CloseAccounted ==
  ASSUME TypeOK, SocketsAccounted
  PROVE  Accounted(Closed(table, socket), open \ {socket}, NONE)
<1>1. Closed(table, socket) = [s \in Slots |-> NONE]
  BY DEF TypeOK, SocketsAccounted, Closed
<1>2. open \ {socket} = {}
  BY DEF SocketsAccounted
<1> QED BY <1>1, <1>2 DEF Accounted

(* Opening, when none is open, ends with none or with one in one slot.     *)
LEMMA OpenAccounted ==
  ASSUME NEW t, NEW o, Accounted(t, o, NONE), NEW outcome \in Openings(t, o)
  PROVE  Accounted(outcome.table, outcome.open, outcome.socket)
<1> DEFINE free == {s \in Slots : t[s] = NONE}
<1>1. CASE outcome = Outcome(t, o, NONE)
  BY <1>1 DEF Accounted, Outcome
<1>2. ASSUME NEW fd \in Descriptors \ o, outcome = Opened(t, o, fd), free # {}
      PROVE  Accounted(outcome.table, outcome.open, outcome.socket)
  <2>1. outcome = Outcome([t EXCEPT ![Min(free)] = fd], o \cup {fd}, fd)
    BY <1>2 DEF Opened
  <2>2. Min(free) \in Slots
    BY <1>2, MinIsLeast, SlotsAssumption
  <2>3. /\ o = {} /\ t \in [Slots -> Descriptors \cup {NONE}]
        /\ \A s \in Slots : t[s] = NONE
    BY DEF Accounted
  <2>4. fd # NONE
    BY DescriptorsAssumption
  <2>5. \A r \in Slots : [t EXCEPT ![Min(free)] = fd][r] = fd <=> r = Min(free)
    BY <2>2, <2>3, <2>4
  <2> HIDE DEF free
  <2> QED BY <2>1, <2>2, <2>3, <2>4, <2>5 DEF Accounted, Outcome
<1>3. \/ outcome = Outcome(t, o, NONE)
      \/ \E fd \in Descriptors \ o : outcome = Opened(t, o, fd) /\ free # {}
  BY DEF Openings, Unbound, Opened
<1> QED BY <1>1, <1>2, <1>3

(* So it does whichever way the code opens one.                            *)
LEMMA SocketOpensAccounted ==
  ASSUME NEW t, NEW o, Accounted(t, o, NONE), SocketOpens(t, o)
  PROVE  Accounted(table', open', socket')
BY OpenAccounted DEF SocketOpens

-----------------------------------------------------------------------------
(* The inductive invariant: of the silent seconds so many have been        *)
(* counted since the last report, and all of them if there was none.       *)
QuietCounted == quiet =< silence /\ (event = "lost" \/ quiet = silence)

IInv == TypeOK /\ InputWatched /\ QuietCounted

(* At first there is no socket and nothing was reported.                   *)
LEMMA InitIInv == Init => IInv
<1> SUFFICES ASSUME Init PROVE IInv
  OBVIOUS
<1>1. SocketsAccounted
  BY DEF Init, SocketsAccounted
<1>2. EventsTrue /\ QuietCounted
  BY SilentAssumption DEF Init, EventsTrue, QuietCounted, Lost
<1>3. /\ running \in BOOLEAN /\ input \in BOOLEAN /\ shown \in BOOLEAN
      /\ event \in {"locked", "lost", NONE} /\ socket \in open \cup {NONE}
  BY Zenon DEF Init
<1>4. /\ table \in [Slots -> Descriptors \cup {NONE}] /\ open \subseteq Descriptors
      /\ quiet \in 0 .. SILENT /\ silence \in 0 .. SILENT
  BY SilentAssumption DEF Init
<1>5. TypeOK
  BY <1>3, <1>4 DEF TypeOK
<1> QED BY <1>1, <1>2, <1>5 DEF IInv, InputWatched

(* What a step makes of the sockets.                                       *)
LEMMA SocketsStep ==
  ASSUME IInv, [Next]_vars
  PROVE  Accounted(table', open', socket') /\ (socket' # NONE => running')
<1>1. Accounted(table, open, socket) /\ (socket # NONE => running)
  BY DEF IInv, TypeOK, InputWatched, SocketsAccounted, Accounted
<1>2. Accounted(Closed(table, socket), open \ {socket}, NONE)
  BY CloseAccounted DEF IInv, InputWatched
<1>3. CASE UNCHANGED <<sockets, running>>
  BY <1>1, <1>3 DEF sockets
<1>4. CASE Reopen
  BY <1>2, <1>4, SocketOpensAccounted DEF Reopen
<1>5. CASE Stops
  BY <1>2, <1>5 DEF Stops
<1>6. CASE Starts
  <2>1. Accounted(table, open, NONE)
    BY <1>1, <1>6 DEF Starts
  <2> QED BY <2>1, <1>6, SocketOpensAccounted DEF Starts
<1> QED BY <1>3, <1>4, <1>5, <1>6
        DEF Next, Receives, Silence, Datagram, Interrupted, vars, sockets

(* And of the flags, the counts and what they say of each other.           *)
Flags == running \in BOOLEAN /\ input \in BOOLEAN /\ shown \in BOOLEAN
Counts == quiet \in 0 .. SILENT /\ silence \in 0 .. SILENT

(* The flags stay flags.                                                   *)
LEMMA FlagsStep ==
  ASSUME Flags, event \in {"locked", "lost", NONE}, [Next]_vars
  PROVE  Flags' /\ event' \in {"locked", "lost", NONE}
BY Zenon DEF Flags, Next, Receives, Reopen, Silence, Datagram, Interrupted, Stops, Starts, vars

(* What is counted and what was reported stay true of the silence.         *)
LEMMA CountsStep ==
  ASSUME Counts, EventsTrue, QuietCounted, [Next]_vars
  PROVE  Counts' /\ EventsTrue' /\ QuietCounted'
<1> USE SilentAssumption DEF Counts, EventsTrue, QuietCounted, Lost
<1>1. CASE Reopen
  BY <1>1 DEF Reopen
<1>2. CASE Silence
  BY <1>2 DEF Silence
<1>3. CASE Datagram
  BY <1>3 DEF Datagram
<1>4. CASE Stops
  BY <1>4 DEF Stops
<1>5. CASE Starts
  BY <1>5 DEF Starts
<1>6. CASE UNCHANGED vars
  BY <1>6 DEF vars
<1> QED BY <1>1, <1>2, <1>3, <1>4, <1>5, <1>6 DEF Next, Receives, Interrupted

(* So no step of the watch breaks its invariant.                           *)
LEMMA StepIInv == IInv /\ [Next]_vars => IInv'
<1> SUFFICES ASSUME IInv, [Next]_vars PROVE IInv'
  OBVIOUS
<1>1. Accounted(table', open', socket') /\ (socket' # NONE => running')
  BY SocketsStep
<1>2. SocketsAccounted'
  BY <1>1 DEF Accounted, SocketsAccounted
<1>3. /\ table' \in [Slots -> Descriptors \cup {NONE}]
      /\ open' \subseteq Descriptors /\ socket' \in open' \cup {NONE}
  BY <1>1, DescriptorsAssumption DEF Accounted
<1>4. Flags' /\ event' \in {"locked", "lost", NONE}
  BY FlagsStep DEF IInv, TypeOK, Flags
<1>5. Counts' /\ EventsTrue' /\ QuietCounted'
  BY CountsStep DEF IInv, InputWatched, TypeOK, Counts
<1>6. TypeOK'
  BY <1>3, <1>4, <1>5 DEF TypeOK, Flags, Counts
<1> QED BY <1>2, <1>5, <1>6 DEF IInv, InputWatched

(* It holds in every behaviour of the watch by itself.                     *)
LEMMA SpecIInv == Spec => []IInv
BY InitIInv, StepIInv, PTL DEF Spec

-----------------------------------------------------------------------------
(* The fields of the watch have their types.                               *)
THEOREM WatchTypes == Spec => []TypeOK
<1>1. IInv => TypeOK
  BY DEF IInv
<1> QED BY <1>1, SpecIInv, PTL

(* However opening its socket fails and however often it is restarted, the *)
(* receiver leaks none; and the events it sends are true of the input.     *)
THEOREM WatchTrue == Spec => []InputWatched
<1>1. IInv => InputWatched
  BY DEF IInv
<1> QED BY <1>1, SpecIInv, PTL

-----------------------------------------------------------------------------
(* All parts                                                               *)

(* The parts share no variable, so their invariants hold side by side;     *)
(* that of the parser is proved to be one in SpliceProofs.                 *)
AllInv == TableInv /\ FrameInv /\ SpliceInv /\ EventInv /\ IInv

(* It holds at first.                                                      *)
LEMMA AllInitInv == AllInit => AllInv
BY TableInit, FrameInit, SpliceInit, EventInit, InitIInv DEF AllInit, AllInv

(* And no step of any part breaks it.                                      *)
LEMMA AllNextInv ==
  ASSUME AllInv, [AllNext]_allVars
  PROVE  AllInv'
<1>1. TableInv /\ FrameInv /\ SpliceInv /\ EventInv /\ IInv
  BY DEF AllInv
<1>2. /\ [Tables!Next]_tableVars /\ [Frames!Next]_frameVars /\ [Events!Next]_eventVars
      /\ [Splices!Next]_spliceVars /\ [Next]_vars
  <2>1. CASE AllNext
    BY <2>1, Zenon DEF AllNext, TableSteps, FrameSteps, SpliceSteps, WatchSteps, EventSteps
  <2>2. CASE UNCHANGED allVars
    BY <2>2 DEF allVars
  <2> QED BY <2>1, <2>2
<1>3. SpliceInv'
  BY <1>1, <1>2, SpliceNext, SplicesAssumption
<1>4. TableInv' /\ FrameInv' /\ EventInv' /\ IInv'
  BY <1>1, <1>2, TableNext, FrameNext, EventNext, StepIInv
<1> QED BY <1>3, <1>4 DEF AllInv

(* The inductive invariant always holds, for any programs, streams, losses *)
(* and events.                                                             *)
THEOREM Invariance == AllSpec => []AllInv
<1>1. AllInit => AllInv
  BY AllInitInv
<1>2. AllInv /\ [AllNext]_allVars => AllInv'
  BY AllNextInv
<1> QED BY <1>1, <1>2, PTL DEF AllSpec

(* The state of every part has its types: no section outgrows what it      *)
(* waits for, no frame its buffer, what is in a frame has been sent, and   *)
(* the parser, whose cursor goes by the lengths it reads, stays in what    *)
(* has arrived of the section.                                             *)
THEOREM TypesAlways == AllSpec => []MonitorTypeOK
<1>1. AllInv => MonitorTypeOK
  <2>1. AllInv => Splices!TypeOK
    BY SpliceSafe, SplicesAssumption DEF AllInv
  <2> QED BY <2>1, TableInvTypes, FrameInvTypes, EventInvTypes DEF AllInv, IInv, MonitorTypeOK
<1> QED BY <1>1, Invariance, PTL

(* Every table the hub holds is one section, whole, that was sent on the   *)
(* PID it is kept for, and a program marked decoded has a table of the     *)
(* list the hub last took, whatever the multiplexer changes and however    *)
(* many sections are lost: what arrives together under the checksum came   *)
(* from one section of the PID of its last packet (decode_pmt_table).      *)
THEOREM TablesExactAlways == AllSpec => []TablesExact
<1>1. AllInv => TablesExact
  BY DEF AllInv, TableInv, EntryInv
<1> QED BY <1>1, Invariance, PTL

(* While a place of the PMT stays what it is, the errors the hub counts on *)
(* a stream are its runs of losses and its repeats, for a continuity       *)
(* counter of any number of values, as long as a run of losses is shorter  *)
(* than its cycle (decode_packets).                                        *)
THEOREM LossCountedAlways == AllSpec => []LossCounted
<1>1. AllInv => LossCounted
  BY FrameInvMeans DEF AllInv
<1> QED BY <1>1, Invariance, PTL

(* A frame handed to receive_frame with no error counted since it began,   *)
(* of a place that stayed what it is, is filled from one PES of its stream:*)
(* it begins with the start, the packets follow in order, each behind the  *)
(* one before it, and of those that arrived one is missing only where it   *)
(* was longer than what the buffer had left, for packets of any sizes and  *)
(* a buffer of any size (decode_packets).                                  *)
THEOREM FramesGenuineAlways == AllSpec => []FramesGenuine
<1>1. AllInv => FramesGenuine
  BY FrameInvMeans DEF AllInv
<1> QED BY <1>1, Invariance, PTL

(* A cue reported as complete is the one the splicer sent, in every field  *)
(* and in its order, and all are reported when the packet holds the whole  *)
(* section: for splice_inserts of any number of components and time_signals*)
(* of any descriptors, wherever the packet ends (scte35_decode_section).   *)
THEOREM CueAsSentAlways == AllSpec => []CueAsSent
<1>1. AllInv => CueAsSent
  BY SpliceSafe, SplicesAssumption DEF AllInv, CueAsSent
<1> QED BY <1>1, Invariance, PTL

(* The event log holds only what the hub sent, each event once and in the  *)
(* order it was sent unless its post was given up on (esignal.c).          *)
THEOREM LogFaithfulAlways == AllSpec => []LogFaithful
<1>1. AllInv => LogFaithful
  BY EventInvMeans DEF AllInv
<1> QED BY <1>1, Invariance, PTL

(* The hub holds the one socket that is open, and the events about its     *)
(* input are true, with the other parts beside it (udp_receiver_thread).   *)
THEOREM InputWatchedAlways == AllSpec => []InputWatched
<1>1. AllInv => InputWatched
  BY DEF AllInv, IInv
<1> QED BY <1>1, Invariance, PTL
=============================================================================
