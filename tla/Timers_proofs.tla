----------------------------- MODULE Timers_proofs -----------------------------
(***************************************************************************)
(* Proofs about Timers for any clients, timers and number of calls.        *)
(***************************************************************************)
EXTENDS Timers, TLAPS

\* Where the thread has a timer in its hands, ...
Taken == {"grabbed", "callback", "wait", "after"}

\* ... and where it may call others before it looks for removals.
Calling == Taken \cup {"dispatch"}

\* Where a client adds a timer, and where it removes one.
Adding == {"readAway", "recheck", "insert", "inserted", "enterAdd", "waitAdd", "wakeAdd"}
Removing == {"enterDel", "waitDel", "wakeDel"}

\* The thread has a timer exactly between GrabTimer and putting it back, and is away
\* exactly in a callback.
ThreadPlace ==
    /\ grabbed # None <=> tpc \in Taken
    /\ away <=> tpc = "callback"
    /\ tpc = "callback" => currentID = grabbed

\* A client in a call works on a timer; what is removed has been added.
ClientPlace ==
    \A c \in Clients :
        /\ cpc[c] # "idle" => arg[c] # None
        /\ cpc[c] \in Adding => c \in Inserters
        /\ cpc[c] \in Removing => arg[c] \in known

\* The handshake of the two flags, for one client that adds timers: the thread is in
\* a callback, or waits after it, until the client has put its timer into the list.
Handshake ==
    \A c \in Clients :
        /\ cpc[c] \in {"recheck", "insert", "inserted"} => inserting
        /\ cpc[c] \in {"insert", "inserted"} => tpc \in {"callback", "wait"}

\* A client's RemoveTimer has put the timer into the mailbox.
Posted(t) == t \in gone \/ \E c \in Clients : cpc[c] = "wakeDel" /\ arg[c] = t

\* A posted removal stays in the mailbox until the timer is freed, which is before the
\* thread calls anything in a turn that began after it.  In a turn that began before it
\* a timer that was called since is not due again; one that is to be put back where it
\* was rescheduled to has not been called since it was.
Removals ==
    /\ gone \subseteq known
    /\ settled \subseteq gone
    /\ grabbed \notin settled
    /\ \A t \in again : t = grabbed /\ late[t] = 0
    /\ \A t \in Timers :
        /\ Posted(t) => fault \/ t \notin pool \/ del = t
        /\ t \in settled => fault \/ t \notin pool \/ tpc \in {"top", "forever", "add", "del"}
        /\ late[t] # 0 => t \in gone /\ late[t] = 1
        /\ late[t] # 0 => fault \/ t \notin pool \/ (tpc \in Calling => t \in passed)

\* Types and places: what every part of the invariant rests on.
Places == TypeOK /\ ThreadPlace /\ ClientPlace

-----------------------------------------------------------------------------

\* The removal of a timer faults or does not.
LEMMA Removed ==
    ASSUME NEW t, DoRemoveTimer(t)
    PROVE  fault' \in BOOLEAN
BY DEF DoRemoveTimer

\* Every step keeps the types.
LEMMA TypeNext ==
    ASSUME Places, [Next]_vars
    PROVE  TypeOK'
<1> USE ClientsAssumption, TimersAssumption, OpsAssumption, NoneAssumption
        DEF Places, ThreadPlace, ClientPlace, TypeOK, ThreadPlaces, ClientPlaces, Taken, flags,
            thread, client, ghosts, others, Begin, Goto, At
<1>1. ASSUME NEW c \in Clients, ClientStep(c) PROVE TypeOK'
    <2>1. CASE ReadAway(c) BY <2>1 DEF ReadAway
    <2>2. CASE Recheck(c) BY <2>2 DEF Recheck
    <2>3. CASE InsertAway(c) BY <2>3 DEF InsertAway
    <2>4. CASE EndInsert(c)
        <3>1. arg[c] \in Timers BY <2>4 DEF EndInsert
        <3> QED BY <2>4, <3>1 DEF EndInsert
    <2>5. CASE EnterChange(c) BY <2>5 DEF EnterChange
    <2>6. CASE SpinAdd(c) BY <2>6 DEF SpinAdd
    <2>7. CASE PostAdd(c) BY <2>7 DEF PostAdd
    <2>8. CASE PostDel(c) BY <2>8 DEF PostDel
    <2>9. CASE WakeTimerThread(c) BY <2>9 DEF WakeTimerThread
    <2> QED BY <1>1, <2>1, <2>2, <2>3, <2>4, <2>5, <2>6, <2>7, <2>8, <2>9 DEF ClientStep
<1>2. ASSUME NEW c \in Clients, NEW t \in Timers, Add(c, t) \/ Remove(c, t) \/ Reschedule(c, t)
      PROVE  TypeOK'
    <2>1. CASE Add(c, t) BY <2>1 DEF Add
    <2>2. CASE Remove(c, t) BY <2>2 DEF Remove
    <2>3. CASE Reschedule(c, t)
        <3>1. token' \in BOOLEAN BY <2>3 DEF Reschedule, GetsRescheduled
        <3>2. ops' \in 0 .. MaxOps BY <2>3, SMT DEF Reschedule
        <3>3. again' \subseteq Timers /\ passed' \subseteq Timers BY <2>3 DEF Reschedule, GetsRescheduled
        <3>4. late' \in [Timers -> 0 .. 2] BY <2>3 DEF Reschedule, GetsRescheduled
        <3> QED BY <2>3, <3>1, <3>2, <3>3, <3>4 DEF Reschedule, GetsRescheduled
    <2> QED BY <1>2, <2>1, <2>2, <2>3
<1>3. ASSUME NEW t \in Timers,
             Grab(t) \/ CallbackRemove(t) \/ CallbackAdd(t) \/ CallbackReschedule(t)
      PROVE  TypeOK'
    <2>1. CASE Grab(t) BY <2>1 DEF Grab
    <2>2. CASE CallbackRemove(t)
        <3>1. t # currentID => DoRemoveTimer(t) BY <2>2 DEF CallbackRemove
        <3>2. fault' \in BOOLEAN BY <2>2, <3>1, Removed DEF CallbackRemove
        <3>3. ops' \in 0 .. MaxOps BY <2>2, SMT DEF CallbackRemove
        <3> QED BY <2>2, <3>1, <3>2, <3>3 DEF CallbackRemove, DoRemoveTimer
    <2>3. CASE CallbackAdd(t)
        <3>1. token' \in BOOLEAN BY <2>3 DEF CallbackAdd
        <3>2. ops' \in 0 .. MaxOps BY <2>3, SMT DEF CallbackAdd
        <3> QED BY <2>3, <3>1, <3>2 DEF CallbackAdd
    <2>4. CASE CallbackReschedule(t)
        <3>1. token' \in BOOLEAN BY <2>4 DEF CallbackReschedule, GetsRescheduled
        <3>2. ops' \in 0 .. MaxOps BY <2>4, SMT DEF CallbackReschedule
        <3>3. again' \subseteq Timers /\ passed' \subseteq Timers BY <2>4 DEF CallbackReschedule, GetsRescheduled
        <3>4. late' \in [Timers -> 0 .. 2] BY <2>4 DEF CallbackReschedule, GetsRescheduled
        <3> QED BY <2>4, <3>1, <3>2, <3>3, <3>4 DEF CallbackReschedule, GetsRescheduled
    <2> QED BY <1>3, <2>1, <2>2, <2>3, <2>4
<1>4. CASE Top BY <1>4 DEF Top
<1>5. CASE WakeForever BY <1>5 DEF WakeForever
<1>6. CASE TakeAdd BY <1>6 DEF TakeAdd
<1>7. CASE TakeDel
    <2>1. del # None => DoRemoveTimer(del) BY <1>7 DEF TakeDel
    <2>2. fault' \in BOOLEAN BY <1>7, <2>1, Removed DEF TakeDel
    <2> QED BY <1>7, <2>1, <2>2 DEF TakeDel, DoRemoveTimer
<1>8. CASE Call BY <1>8 DEF Call
<1>9. CASE CallbackReturn BY <1>9 DEF CallbackReturn
<1>10. CASE EndCall BY <1>10 DEF EndCall
<1>11. CASE PutBack BY <1>11 DEF PutBack
<1>12. CASE EndPass BY <1>12 DEF EndPass
<1>13. CASE Sleep BY <1>13 DEF Sleep
<1>14. CASE UNCHANGED vars BY <1>14 DEF vars
<1> QED BY <1>1, <1>2, <1>3, <1>4, <1>5, <1>6, <1>7, <1>8, <1>9, <1>10, <1>11, <1>12, <1>13,
    <1>14 DEF Next, ThreadStep

\* Every step keeps the places of the thread and the clients.
LEMMA PlacesNext ==
    ASSUME Places, TypeOK', [Next]_vars
    PROVE  (ThreadPlace /\ ClientPlace)'
<1> USE ClientsAssumption, TimersAssumption, OpsAssumption, NoneAssumption
        DEF Places, ThreadPlace, ClientPlace, TypeOK, ThreadPlaces, ClientPlaces, Taken, Adding,
            Removing, flags, thread, client, ghosts, others, Begin, Goto, At
<1>1. ASSUME NEW c \in Clients, ClientStep(c) PROVE (ThreadPlace /\ ClientPlace)'
    <2>1. CASE ReadAway(c) BY <2>1 DEF ReadAway
    <2>2. CASE Recheck(c) BY <2>2 DEF Recheck
    <2>3. CASE InsertAway(c) BY <2>3 DEF InsertAway
    <2>4. CASE EndInsert(c) BY <2>4 DEF EndInsert
    <2>5. CASE EnterChange(c) BY <2>5 DEF EnterChange
    <2>6. CASE SpinAdd(c) BY <2>6 DEF SpinAdd
    <2>7. CASE PostAdd(c) BY <2>7 DEF PostAdd
    <2>8. CASE PostDel(c) BY <2>8 DEF PostDel
    <2>9. CASE WakeTimerThread(c) BY <2>9 DEF WakeTimerThread
    <2> QED BY <1>1, <2>1, <2>2, <2>3, <2>4, <2>5, <2>6, <2>7, <2>8, <2>9 DEF ClientStep
<1>2. ASSUME NEW c \in Clients, NEW t \in Timers, Add(c, t) \/ Remove(c, t) \/ Reschedule(c, t)
      PROVE  (ThreadPlace /\ ClientPlace)'
    <2>1. CASE Add(c, t) BY <2>1 DEF Add
    <2>2. CASE Remove(c, t) BY <2>2 DEF Remove
    <2>3. CASE Reschedule(c, t) BY <2>3 DEF Reschedule, GetsRescheduled
    <2> QED BY <1>2, <2>1, <2>2, <2>3
<1>3. ASSUME NEW t \in Timers,
             Grab(t) \/ CallbackRemove(t) \/ CallbackAdd(t) \/ CallbackReschedule(t)
      PROVE  (ThreadPlace /\ ClientPlace)'
    <2>1. CASE Grab(t) BY <2>1 DEF Grab
    <2>2. CASE CallbackRemove(t) BY <2>2 DEF CallbackRemove, DoRemoveTimer
    <2>3. CASE CallbackAdd(t) BY <2>3 DEF CallbackAdd
    <2>4. CASE CallbackReschedule(t) BY <2>4 DEF CallbackReschedule, GetsRescheduled
    <2> QED BY <1>3, <2>1, <2>2, <2>3, <2>4
<1>4. CASE Top BY <1>4 DEF Top
<1>5. CASE WakeForever BY <1>5 DEF WakeForever
<1>6. CASE TakeAdd BY <1>6 DEF TakeAdd
<1>7. CASE TakeDel BY <1>7 DEF TakeDel, DoRemoveTimer
<1>8. CASE Call BY <1>8 DEF Call
<1>9. CASE CallbackReturn BY <1>9 DEF CallbackReturn
<1>10. CASE EndCall BY <1>10 DEF EndCall
<1>11. CASE PutBack BY <1>11 DEF PutBack
<1>12. CASE EndPass BY <1>12 DEF EndPass
<1>13. CASE Sleep BY <1>13 DEF Sleep
<1>14. CASE UNCHANGED vars BY <1>14 DEF vars
<1> QED BY <1>1, <1>2, <1>3, <1>4, <1>5, <1>6, <1>7, <1>8, <1>9, <1>10, <1>11, <1>12, <1>13,
    <1>14 DEF Next, ThreadStep

\* Every step keeps each timer in one place.
LEMMA OnePlaceNext ==
    ASSUME Places, OnePlace, [Next]_vars
    PROVE  OnePlace'
<1> USE ClientsAssumption, TimersAssumption, OpsAssumption, NoneAssumption
        DEF Places, ThreadPlace, ClientPlace, TypeOK, ThreadPlaces, ClientPlaces, Taken,
            OnePlace, Pending, flags, thread, client, ghosts, others, Begin, Goto, At
<1>1. ASSUME NEW c \in Clients, ClientStep(c) PROVE OnePlace'
    <2>1. CASE ReadAway(c) BY <2>1 DEF ReadAway
    <2>2. CASE Recheck(c) BY <2>2 DEF Recheck
    <2>3. CASE InsertAway(c) BY <2>3 DEF InsertAway
    <2>4. CASE EndInsert(c) BY <2>4 DEF EndInsert
    <2>5. CASE EnterChange(c) BY <2>5 DEF EnterChange
    <2>6. CASE SpinAdd(c) BY <2>6 DEF SpinAdd
    <2>7. CASE PostAdd(c) BY <2>7 DEF PostAdd
    <2>8. CASE PostDel(c) BY <2>8 DEF PostDel
    <2>9. CASE WakeTimerThread(c) BY <2>9 DEF WakeTimerThread
    <2> QED BY <1>1, <2>1, <2>2, <2>3, <2>4, <2>5, <2>6, <2>7, <2>8, <2>9 DEF ClientStep
<1>2. ASSUME NEW c \in Clients, NEW t \in Timers, Add(c, t) \/ Remove(c, t) \/ Reschedule(c, t)
      PROVE  OnePlace'
    <2>1. CASE Add(c, t) BY <2>1 DEF Add
    <2>2. CASE Remove(c, t) BY <2>2 DEF Remove
    <2>3. CASE Reschedule(c, t) BY <2>3 DEF Reschedule, GetsRescheduled
    <2> QED BY <1>2, <2>1, <2>2, <2>3
<1>3. ASSUME NEW t \in Timers,
             Grab(t) \/ CallbackRemove(t) \/ CallbackAdd(t) \/ CallbackReschedule(t)
      PROVE  OnePlace'
    <2>1. CASE Grab(t) BY <2>1 DEF Grab
    <2>2. CASE CallbackRemove(t) BY <2>2 DEF CallbackRemove, DoRemoveTimer
    <2>3. CASE CallbackAdd(t) BY <2>3 DEF CallbackAdd
    <2>4. CASE CallbackReschedule(t) BY <2>4 DEF CallbackReschedule, GetsRescheduled
    <2> QED BY <1>3, <2>1, <2>2, <2>3, <2>4
<1>4. CASE Top BY <1>4 DEF Top
<1>5. CASE WakeForever BY <1>5 DEF WakeForever
<1>6. CASE TakeAdd BY <1>6 DEF TakeAdd
<1>7. CASE TakeDel BY <1>7 DEF TakeDel, DoRemoveTimer
<1>8. CASE Call BY <1>8 DEF Call
<1>9. CASE CallbackReturn BY <1>9 DEF CallbackReturn
<1>10. CASE EndCall BY <1>10 DEF EndCall
<1>11. CASE PutBack BY <1>11 DEF PutBack
<1>12. CASE EndPass BY <1>12 DEF EndPass
<1>13. CASE Sleep BY <1>13 DEF Sleep
<1>14. CASE UNCHANGED vars BY <1>14 DEF vars
<1> QED BY <1>1, <1>2, <1>3, <1>4, <1>5, <1>6, <1>7, <1>8, <1>9, <1>10, <1>11, <1>12, <1>13,
    <1>14 DEF Next, ThreadStep

\* Every step keeps the handshake.
LEMMA HandshakeNext ==
    ASSUME \A c, d \in Inserters : c = d, Places, Handshake, [Next]_vars
    PROVE  Handshake'
<1> USE ClientsAssumption, TimersAssumption, OpsAssumption, NoneAssumption
        DEF Places, ThreadPlace, ClientPlace, TypeOK, ThreadPlaces, ClientPlaces, Adding,
            Handshake, flags, thread, client, ghosts, others, Begin, Goto, At
<1>1. ASSUME NEW c \in Clients, ClientStep(c) PROVE Handshake'
    <2>1. CASE ReadAway(c) BY <2>1 DEF ReadAway
    <2>2. CASE Recheck(c) BY <2>2 DEF Recheck
    <2>3. CASE InsertAway(c) BY <2>3 DEF InsertAway
    <2>4. CASE EndInsert(c) BY <2>4 DEF EndInsert
    <2>5. CASE EnterChange(c) BY <2>5 DEF EnterChange
    <2>6. CASE SpinAdd(c) BY <2>6 DEF SpinAdd
    <2>7. CASE PostAdd(c) BY <2>7 DEF PostAdd
    <2>8. CASE PostDel(c) BY <2>8 DEF PostDel
    <2>9. CASE WakeTimerThread(c) BY <2>9 DEF WakeTimerThread
    <2> QED BY <1>1, <2>1, <2>2, <2>3, <2>4, <2>5, <2>6, <2>7, <2>8, <2>9 DEF ClientStep
<1>2. ASSUME NEW c \in Clients, NEW t \in Timers, Add(c, t) \/ Remove(c, t) \/ Reschedule(c, t)
      PROVE  Handshake'
    <2>1. CASE Add(c, t) BY <2>1 DEF Add
    <2>2. CASE Remove(c, t) BY <2>2 DEF Remove
    <2>3. CASE Reschedule(c, t) BY <2>3 DEF Reschedule, GetsRescheduled
    <2> QED BY <1>2, <2>1, <2>2, <2>3
<1>3. ASSUME NEW t \in Timers,
             Grab(t) \/ CallbackRemove(t) \/ CallbackAdd(t) \/ CallbackReschedule(t)
      PROVE  Handshake'
    <2>1. CASE Grab(t) BY <2>1 DEF Grab
    <2>2. CASE CallbackRemove(t) BY <2>2 DEF CallbackRemove, DoRemoveTimer
    <2>3. CASE CallbackAdd(t) BY <2>3 DEF CallbackAdd
    <2>4. CASE CallbackReschedule(t) BY <2>4 DEF CallbackReschedule, GetsRescheduled
    <2> QED BY <1>3, <2>1, <2>2, <2>3, <2>4
<1>4. CASE Top BY <1>4 DEF Top
<1>5. CASE WakeForever BY <1>5 DEF WakeForever
<1>6. CASE TakeAdd BY <1>6 DEF TakeAdd
<1>7. CASE TakeDel BY <1>7 DEF TakeDel, DoRemoveTimer
<1>8. CASE Call BY <1>8 DEF Call
<1>9. CASE CallbackReturn BY <1>9 DEF CallbackReturn
<1>10. CASE EndCall BY <1>10 DEF EndCall
<1>11. CASE PutBack BY <1>11 DEF PutBack
<1>12. CASE EndPass BY <1>12 DEF EndPass
<1>13. CASE Sleep BY <1>13 DEF Sleep
<1>14. CASE UNCHANGED vars BY <1>14 DEF vars
<1> QED BY <1>1, <1>2, <1>3, <1>4, <1>5, <1>6, <1>7, <1>8, <1>9, <1>10, <1>11, <1>12, <1>13,
    <1>14 DEF Next, ThreadStep

\* Every step keeps a wake on its way.
LEMMA InsertNext ==
    ASSUME \A c, d \in Inserters : c = d, Places, Handshake, NoLostInsert, [Next]_vars
    PROVE  NoLostInsert'
<1> USE ClientsAssumption, TimersAssumption, OpsAssumption, NoneAssumption
        DEF Places, ThreadPlace, ClientPlace, TypeOK, ThreadPlaces, ClientPlaces, Handshake,
            NoLostInsert, flags, thread, client, ghosts, others, Begin, Goto, At
<1>1. ASSUME NEW c \in Clients, ClientStep(c) PROVE NoLostInsert'
    <2>1. CASE ReadAway(c) BY <2>1 DEF ReadAway
    <2>2. CASE Recheck(c) BY <2>2 DEF Recheck
    <2>3. CASE InsertAway(c) BY <2>3 DEF InsertAway
    <2>4. CASE EndInsert(c) BY <2>4 DEF EndInsert
    <2>5. CASE EnterChange(c) BY <2>5 DEF EnterChange
    <2>6. CASE SpinAdd(c) BY <2>6 DEF SpinAdd
    <2>7. CASE PostAdd(c) BY <2>7 DEF PostAdd
    <2>8. CASE PostDel(c) BY <2>8 DEF PostDel
    <2>9. CASE WakeTimerThread(c) BY <2>9 DEF WakeTimerThread
    <2> QED BY <1>1, <2>1, <2>2, <2>3, <2>4, <2>5, <2>6, <2>7, <2>8, <2>9 DEF ClientStep
<1>2. ASSUME NEW c \in Clients, NEW t \in Timers, Add(c, t) \/ Remove(c, t) \/ Reschedule(c, t)
      PROVE  NoLostInsert'
    <2>1. CASE Add(c, t) BY <2>1 DEF Add
    <2>2. CASE Remove(c, t) BY <2>2 DEF Remove
    <2>3. CASE Reschedule(c, t) BY <2>3 DEF Reschedule, GetsRescheduled
    <2> QED BY <1>2, <2>1, <2>2, <2>3
<1>3. ASSUME NEW t \in Timers,
             Grab(t) \/ CallbackRemove(t) \/ CallbackAdd(t) \/ CallbackReschedule(t)
      PROVE  NoLostInsert'
    <2>1. CASE Grab(t) BY <2>1 DEF Grab
    <2>2. CASE CallbackRemove(t) BY <2>2 DEF CallbackRemove, DoRemoveTimer
    <2>3. CASE CallbackAdd(t) BY <2>3 DEF CallbackAdd
    <2>4. CASE CallbackReschedule(t) BY <2>4 DEF CallbackReschedule, GetsRescheduled
    <2> QED BY <1>3, <2>1, <2>2, <2>3, <2>4
<1>4. CASE Top BY <1>4 DEF Top
<1>5. CASE WakeForever BY <1>5 DEF WakeForever
<1>6. CASE TakeAdd BY <1>6 DEF TakeAdd
<1>7. CASE TakeDel BY <1>7 DEF TakeDel, DoRemoveTimer
<1>8. CASE Call BY <1>8 DEF Call
<1>9. CASE CallbackReturn BY <1>9 DEF CallbackReturn
<1>10. CASE EndCall BY <1>10 DEF EndCall
<1>11. CASE PutBack BY <1>11 DEF PutBack
<1>12. CASE EndPass BY <1>12 DEF EndPass
<1>13. CASE Sleep BY <1>13 DEF Sleep
<1>14. CASE UNCHANGED vars BY <1>14 DEF vars
<1> QED BY <1>1, <1>2, <1>3, <1>4, <1>5, <1>6, <1>7, <1>8, <1>9, <1>10, <1>11, <1>12, <1>13,
    <1>14 DEF Next, ThreadStep

\* Every step keeps what is to be removed.
LEMMA RemovalsNext ==
    ASSUME Places, OnePlace, Removals, [Next]_vars
    PROVE  Removals'
<1> USE ClientsAssumption, TimersAssumption, OpsAssumption, NoneAssumption
        DEF Places, ThreadPlace, ClientPlace, TypeOK, ThreadPlaces, ClientPlaces, Taken, Calling,
            Removing, Posted, Removals, flags, thread, client, ghosts, others, Begin, Goto, At
<1>1. ASSUME NEW c \in Clients, ClientStep(c) PROVE Removals'
    <2>1. CASE ReadAway(c) BY <2>1 DEF ReadAway
    <2>2. CASE Recheck(c) BY <2>2 DEF Recheck
    <2>3. CASE InsertAway(c) BY <2>3 DEF InsertAway
    <2>4. CASE EndInsert(c) BY <2>4 DEF EndInsert
    <2>5. CASE EnterChange(c) BY <2>5 DEF EnterChange
    <2>6. CASE SpinAdd(c) BY <2>6 DEF SpinAdd
    <2>7. CASE PostAdd(c) BY <2>7 DEF PostAdd
    <2>8. CASE PostDel(c) BY <2>8 DEF PostDel
    <2>9. CASE WakeTimerThread(c) BY <2>9 DEF WakeTimerThread
    <2> QED BY <1>1, <2>1, <2>2, <2>3, <2>4, <2>5, <2>6, <2>7, <2>8, <2>9 DEF ClientStep
<1>2. ASSUME NEW c \in Clients, NEW t \in Timers, Add(c, t) \/ Remove(c, t) \/ Reschedule(c, t)
      PROVE  Removals'
    <2>1. CASE Add(c, t) BY <2>1 DEF Add
    <2>2. CASE Remove(c, t) BY <2>2 DEF Remove
    <2>3. CASE Reschedule(c, t) BY <2>3 DEF Reschedule, GetsRescheduled
    <2> QED BY <1>2, <2>1, <2>2, <2>3
<1>3. ASSUME NEW t \in Timers,
             Grab(t) \/ CallbackRemove(t) \/ CallbackAdd(t) \/ CallbackReschedule(t)
      PROVE  Removals'
    <2>1. CASE Grab(t)
        <3>1. ~fault /\ tpc = "dispatch" /\ t \notin passed BY <2>1 DEF Grab
        <3>2. t \in pool BY <2>1 DEF Grab, OnePlace
        <3>3. late[t] = 0 BY <2>1, <3>1, <3>2 DEF Grab
        <3>4. \A u \in Timers : late'[u] = IF u = t /\ t \in gone THEN 1 ELSE late[u]
            BY <2>1, <3>3 DEF Grab
        <3>5. \A u \in Timers : Posted(u)' = Posted(u) BY <2>1 DEF Grab
        <3> QED BY <2>1, <3>1, <3>2, <3>3, <3>4, <3>5 DEF Grab
    <2>2. CASE CallbackRemove(t) BY <2>2 DEF CallbackRemove, DoRemoveTimer
    <2>3. CASE CallbackAdd(t) BY <2>3 DEF CallbackAdd
    <2>4. CASE CallbackReschedule(t) BY <2>4 DEF CallbackReschedule, GetsRescheduled
    <2> QED BY <1>3, <2>1, <2>2, <2>3, <2>4
<1>4. CASE Top BY <1>4 DEF Top
<1>5. CASE WakeForever BY <1>5 DEF WakeForever
<1>6. CASE TakeAdd BY <1>6 DEF TakeAdd
<1>7. CASE TakeDel
    <2>1. ~fault /\ tpc' = "dispatch" /\ late' = late /\ gone' = gone /\ known' = known
        BY <1>7 DEF TakeDel
    <2>2. del # None => DoRemoveTimer(del) BY <1>7 DEF TakeDel
    <2>3. \A t \in Timers : Posted(t) => fault' \/ t \notin pool'
        <3> SUFFICES ASSUME NEW t \in Timers, Posted(t), t \in pool' PROVE fault'
            OBVIOUS
        <3>1. t \in pool BY <1>7 DEF TakeDel, DoRemoveTimer
        <3>2. del = t /\ del # None BY <2>1, <3>1
        <3>3. t \notin list BY <2>2, <3>2 DEF DoRemoveTimer
        <3>4. fault' = (t \in pool \ list) BY <2>2, <3>2 DEF DoRemoveTimer
        <3> QED BY <3>1, <3>3, <3>4
    <2>4. \A t \in Timers : Posted(t)' = Posted(t) BY <1>7 DEF TakeDel
    <2> QED BY <1>7, <2>1, <2>2, <2>3, <2>4 DEF TakeDel, DoRemoveTimer
<1>8. CASE Call BY <1>8 DEF Call
<1>9. CASE CallbackReturn BY <1>9 DEF CallbackReturn
<1>10. CASE EndCall BY <1>10 DEF EndCall
<1>11. CASE PutBack BY <1>11 DEF PutBack
<1>12. CASE EndPass BY <1>12 DEF EndPass
<1>13. CASE Sleep BY <1>13 DEF Sleep
<1>14. CASE UNCHANGED vars BY <1>14 DEF vars
<1> QED BY <1>1, <1>2, <1>3, <1>4, <1>5, <1>6, <1>7, <1>8, <1>9, <1>10, <1>11, <1>12, <1>13,
    <1>14 DEF Next, ThreadStep

-----------------------------------------------------------------------------
(* The specification. *)

\* Types, places, one place for each timer, and what removals have posted.
IInv == Places /\ OnePlace /\ Removals

LEMMA InitInv == Init => IInv
<1> SUFFICES ASSUME Init PROVE IInv
    OBVIOUS
<1> USE OpsAssumption, NoneAssumption DEF Init
<1>1. TypeOK
    <2>1. cpc \in [Clients -> ClientPlaces] /\ arg \in [Clients -> Timers \cup {None}] BY DEF ClientPlaces
    <2>2. late \in [Timers -> 0 .. 2] /\ ops \in 0 .. MaxOps OBVIOUS
    <2>3. tpc \in ThreadPlaces BY DEF ThreadPlaces
    <2> QED BY <2>1, <2>2, <2>3 DEF TypeOK
<1>2. ThreadPlace /\ ClientPlace BY DEF ThreadPlace, ClientPlace, Taken, Adding, Removing
<1>3. OnePlace
    <2>1. \A c \in Clients : Pending(c) = {} BY DEF Pending
    <2> QED BY <2>1, Zenon DEF OnePlace
<1>4. Removals BY DEF Removals, Posted
<1> QED BY <1>1, <1>2, <1>3, <1>4 DEF IInv, Places

LEMMA NextInv == IInv /\ [Next]_vars => IInv'
BY TypeNext, PlacesNext, OnePlaceNext, RemovalsNext DEF IInv, Places

LEMMA SpecInv == Spec => []IInv
<1> QED BY InitInv, NextInv, PTL DEF Spec

\* Type correctness of the timers' lists, mailboxes and flags.
THEOREM TimersTyping == Spec => []TypeOK
<1>1. IInv => TypeOK BY DEF IInv, Places
<1> QED BY <1>1, SpecInv, PTL

\* However clients, callbacks and the thread interleave, a timer of the pool is in one of the
\* list, the mailbox, the thread's hands and a client's hands, and in no two (DoInsertTimer,
\* GrabTimer, DoRemoveTimer).
THEOREM TimersInOnePlace == Spec => []OnePlace
<1>1. IInv => OnePlace BY DEF IInv
<1> QED BY <1>1, SpecInv, PTL

\* A turn of the thread that begins after RemoveTimer has returned does not call the timer;
\* the turn that is going on calls it once at the most, and once more for each reschedule
\* (RemoveTimerEx and InternalRescheduleTimerEx against the pass of ProcessTimers).
THEOREM RemovalsAreFinal == Spec => []RemovalIsFinal
<1>1. IInv => RemovalIsFinal BY DEF IInv, Places, TypeOK, Removals, RemovalIsFinal
<1> QED BY <1>1, SpecInv, PTL

\* Where one thread adds timers, the handshake of away_in_timer and insert_while_away loses
\* none: the timer thread never sleeps for ever beside a timer (InsertTimer against
\* ProcessTimers).
THEOREM InsertIsNotLost ==
    ASSUME \A c, d \in Inserters : c = d
    PROVE  Spec => []NoLostInsert
<1>1. Init => Handshake /\ NoLostInsert
    BY DEF Init, Handshake, NoLostInsert
<1>2. IInv /\ Handshake /\ NoLostInsert /\ [Next]_vars => (Handshake /\ NoLostInsert)'
    BY HandshakeNext, InsertNext DEF IInv
<1> QED BY <1>1, <1>2, SpecInv, PTL DEF Spec
=============================================================================
