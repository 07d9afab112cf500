-------------------------------- MODULE Timers --------------------------------
(***************************************************************************)
(* The timers of sack::timers (src/src/sack/sack.cc): one thread keeps the  *)
(* list of timers and calls those that are due; any thread, and a timer's  *)
(* callback, adds, removes and reschedules them.                           *)
(*                                                                         *)
(* Another thread hands a timer over in a mailbox of one place, add_timer, *)
(* and asks for a removal in another, del_timer, both filled under         *)
(* cs_timer_change, and wakes the thread.  While the thread is away in a   *)
(* callback a timer is put into the list directly, after a handshake of    *)
(* the two flags away_in_timer and insert_while_away.  The list itself is  *)
(* changed under csGrab; each section under it is one step here.           *)
(*                                                                         *)
(* Time is left out.  Any timer of the list may be due.  One that has been *)
(* called is not due again before the thread looks at the time again,      *)
(* because it is put back at least its frequency later; but it may be due  *)
(* at once, again and again, if it is rescheduled.                         *)
(***************************************************************************)
EXTENDS Naturals, FiniteSets

CONSTANTS
    Clients,    \* threads other than the timers' own
    Inserters,  \* those that add timers
    Timers,     \* timers that are added in a behaviour
    Periodic,   \* those with a frequency; the others fire once
    MaxOps      \* bound: calls of clients and callbacks

ASSUME ClientsAssumption == Inserters \subseteq Clients
ASSUME TimersAssumption == Periodic \subseteq Timers
ASSUME OpsAssumption == MaxOps \in Nat

None == "none"
ASSUME NoneAssumption == None \notin Timers \cup Clients

VARIABLES
    pool,       \* timer_pool: timers that are allocated
    list,       \* timers: the list of the thread
    add,        \* add_timer
    del,        \* del_timer
    change,     \* the owner of cs_timer_change
    away,       \* flags.away_in_timer
    inserting,  \* flags.insert_while_away
    current,    \* current_timer
    currentID,  \* CurrentTimerID, which keeps its value after the callback
    marked,     \* timers with flags.bRemoved
    again,      \* timers with flags.bRescheduled
    token,      \* a wake of the thread has not been slept off
    fault,      \* the thread followed the pointer of a timer in no list
    tpc,        \* where the thread is
    grabbed,    \* the timer it has taken from the list
    passed,     \* timers called since it last looked at the time, and not rescheduled
    cpc,        \* where each client is
    arg,        \* the timer each client works on
    known,      \* ghost: timers whose ID AddTimer has returned
    gone,       \* ghost: timers a RemoveTimer by a client has returned for
    late,       \* ghost: calls of such a timer since it was last rescheduled
    settled,    \* ghost: those that were gone when the thread began its turn
    ops         \* calls begun

flags == <<away, inserting>>
thread == <<tpc, grabbed, passed, current, currentID, marked, again>>
client == <<cpc, arg, change>>
ghosts == <<known, gone, late, settled>>
vars == <<pool, list, add, del, flags, token, fault, thread, client, ghosts, ops>>

ClientPlaces ==
    {"idle", "readAway", "recheck", "insert", "inserted", "enterAdd", "waitAdd",
     "enterDel", "waitDel", "wakeAdd", "wakeDel"}

ThreadPlaces ==
    {"top", "forever", "add", "del", "dispatch", "grabbed", "callback", "wait", "after", "sleep"}

TypeOK ==
    /\ pool \subseteq Timers /\ list \subseteq Timers
    /\ add \in Timers \cup {None} /\ del \in Timers \cup {None}
    /\ change \in Clients \cup {None}
    /\ away \in BOOLEAN /\ inserting \in BOOLEAN
    /\ current \in Timers \cup {None} /\ currentID \in Timers \cup {None}
    /\ marked \subseteq Timers /\ again \subseteq Timers
    /\ token \in BOOLEAN /\ fault \in BOOLEAN
    /\ tpc \in ThreadPlaces
    /\ grabbed \in Timers \cup {None}
    /\ passed \subseteq Timers
    /\ cpc \in [Clients -> ClientPlaces]
    /\ arg \in [Clients -> Timers \cup {None}]
    /\ known \subseteq Timers /\ gone \subseteq Timers /\ settled \subseteq Timers
    /\ late \in [Timers -> 0 .. 2]
    /\ ops \in 0 .. MaxOps

\* The thread has been started by the first AddTimer and waits for that timer.
Init ==
    /\ pool = {} /\ list = {} /\ add = None /\ del = None /\ change = None
    /\ away = FALSE /\ inserting = FALSE
    /\ current = None /\ currentID = None /\ marked = {} /\ again = {}
    /\ token = FALSE /\ fault = FALSE
    /\ tpc = "top" /\ grabbed = None /\ passed = {}
    /\ cpc = [c \in Clients |-> "idle"] /\ arg = [c \in Clients |-> None]
    /\ known = {} /\ gone = {} /\ settled = {} /\ late = [t \in Timers |-> 0]
    /\ ops = 0

\* A call begins, while the program runs.
Begin == ~fault /\ ops < MaxOps /\ ops' = ops + 1

Goto(c, place) == ~fault /\ cpc' = [cpc EXCEPT ![c] = place]
-----------------------------------------------------------------------------
(* AddTimerExx, by another thread. *)

\* A timer is allocated (GetFromSet); IDs are not used twice.
Add(c, t) ==
    /\ cpc[c] = "idle" /\ c \in Inserters
    /\ t \notin pool \cup known /\ \A d \in Clients : arg[d] # t
    /\ Begin
    /\ pool' = pool \cup {t}
    /\ arg' = [arg EXCEPT ![c] = t]
    /\ Goto(c, "readAway")
    /\ UNCHANGED <<list, add, del, change, flags, token, fault, thread, ghosts>>

\* InsertTimer: if the thread is away, say that a timer is being inserted ...
ReadAway(c) ==
    /\ cpc[c] = "readAway"
    /\ inserting' = (inserting \/ away)
    /\ Goto(c, IF away THEN "recheck" ELSE "enterAdd")
    /\ UNCHANGED <<pool, list, add, del, change, arg, away, token, fault, thread, ghosts, ops>>

\* ... look again ...
Recheck(c) ==
    /\ cpc[c] = "recheck"
    /\ inserting' = (inserting /\ away)
    /\ Goto(c, IF away THEN "insert" ELSE "enterAdd")
    /\ UNCHANGED <<pool, list, add, del, change, arg, away, token, fault, thread, ghosts, ops>>

\* ... insert it ...
InsertAway(c) ==
    /\ cpc[c] = "insert"
    /\ list' = list \cup {arg[c]}
    /\ Goto(c, "inserted")
    /\ UNCHANGED <<pool, add, del, change, arg, flags, token, fault, thread, ghosts, ops>>

\* ... and say that it is done.  AddTimer returns.
EndInsert(c) ==
    /\ cpc[c] = "inserted"
    /\ inserting' = FALSE
    /\ known' = known \cup {arg[c]}
    /\ Goto(c, "idle")
    /\ arg' = [arg EXCEPT ![c] = None]
    /\ UNCHANGED <<pool, list, add, del, change, away, token, fault, thread, gone, late, settled, ops>>

EnterChange(c) ==
    /\ cpc[c] \in {"enterAdd", "enterDel"}
    /\ change = None
    /\ change' = c
    /\ Goto(c, IF cpc[c] = "enterAdd" THEN "waitAdd" ELSE "waitDel")
    /\ UNCHANGED <<pool, list, add, del, arg, flags, token, fault, thread, ghosts, ops>>

\* The thread is woken until it has taken the timer that is in the mailbox.
SpinAdd(c) ==
    /\ cpc[c] = "waitAdd"
    /\ add # None
    /\ token' = TRUE
    /\ UNCHANGED <<pool, list, add, del, client, flags, fault, thread, ghosts, ops>>

PostAdd(c) ==
    /\ cpc[c] = "waitAdd"
    /\ add = None
    /\ add' = arg[c]
    /\ change' = None
    /\ Goto(c, "wakeAdd")
    /\ UNCHANGED <<pool, list, del, arg, flags, token, fault, thread, ghosts, ops>>
-----------------------------------------------------------------------------
(* RemoveTimerEx and RescheduleTimerEx, by another thread. *)

Remove(c, t) ==
    /\ cpc[c] = "idle"
    /\ t \in known
    /\ Begin
    /\ arg' = [arg EXCEPT ![c] = t]
    /\ Goto(c, "enterDel")
    /\ UNCHANGED <<pool, list, add, del, change, flags, token, fault, thread, ghosts>>

\* mutant: cs_timer_change is not left.
PostDelHolds(c) ==
    /\ cpc[c] = "waitDel"
    /\ del = None
    /\ del' = arg[c]
    /\ Goto(c, "wakeDel")
    /\ UNCHANGED <<pool, list, add, arg, change, flags, token, fault, thread, ghosts, ops>>

\* Until the mailbox is empty the caller relinquishes; it does not wake the thread.
PostDel(c) ==
    /\ cpc[c] = "waitDel"
    /\ del = None
    /\ del' = arg[c]
    /\ change' = None
    /\ Goto(c, "wakeDel")
    /\ UNCHANGED <<pool, list, add, arg, flags, token, fault, thread, ghosts, ops>>

\* WakeThread, and the call returns.
WakeTimerThread(c) ==
    /\ cpc[c] \in {"wakeAdd", "wakeDel"}
    /\ token' = TRUE
    /\ Goto(c, "idle")
    /\ arg' = [arg EXCEPT ![c] = None]
    /\ known' = known \cup {arg[c]}
    /\ gone' = IF cpc[c] = "wakeDel" THEN gone \cup {arg[c]} ELSE gone
    /\ UNCHANGED <<pool, list, add, del, change, flags, fault, thread, late, settled, ops>>

\* InternalRescheduleTimerEx: a timer of the list gets another place in it, where it
\* may be due at once, and the thread is woken if that is the first; a timer that is
\* being called is to be put back.
GetsRescheduled(t) ==
    LET called == {t} \cap (IF away THEN {currentID} ELSE {})
        listed == {t} \cap list
    IN  /\ again' = again \cup called
        /\ passed' = passed \ listed
        /\ token' \in {token, token \/ t \in list}
        /\ list = {t} => token'
        /\ late' = [u \in Timers |-> IF u \in called \cup listed THEN 0 ELSE late[u]]
        /\ UNCHANGED <<pool, list, add, del, client, flags, fault, grabbed, current,
                       currentID, marked, known, gone, settled>>

Reschedule(c, t) ==
    /\ cpc[c] = "idle"
    /\ t \in known
    /\ t \in list \/ t = current
    /\ Begin
    /\ GetsRescheduled(t)
    /\ UNCHANGED tpc

ClientStep(c) ==
    \/ ReadAway(c) \/ Recheck(c) \/ InsertAway(c) \/ EndInsert(c)
    \/ EnterChange(c) \/ SpinAdd(c) \/ PostAdd(c) \/ PostDel(c) \/ WakeTimerThread(c)
-----------------------------------------------------------------------------
(* ProcessTimers, by the thread. *)

others == <<client, known, gone, settled, ops>>

At(place, next) == ~fault /\ tpc = place /\ tpc' = next

\* DoRemoveTimer finds the timer in the pool, unlinks it through its pointer me,
\* and frees it.  The pointer is null unless the timer is in the list.
DoRemoveTimer(t) ==
    /\ fault' = (t \in pool \ list)
    /\ list' = list \ {t}
    /\ pool' = IF t \in list THEN pool \ {t} ELSE pool

\* mutant: the mailbox is not looked at before the sleep.
TopForgetsMail ==
    /\ At("top", IF list = {} THEN "forever" ELSE "add")
    /\ settled' = gone
    /\ UNCHANGED <<pool, list, add, del, flags, token, fault, grabbed, passed, current,
                   currentID, marked, again, late, client, known, gone, ops>>

\* Without timers and without one to be added the thread sleeps until it is woken.
Top ==
    /\ At("top", IF add = None /\ list = {} THEN "forever" ELSE "add")
    /\ settled' = gone
    /\ UNCHANGED <<pool, list, add, del, flags, token, fault, grabbed, passed, current,
                   currentID, marked, again, late, client, known, gone, ops>>

WakeForever ==
    /\ At("forever", "top")
    /\ token
    /\ token' = FALSE
    /\ UNCHANGED <<pool, list, add, del, flags, fault, grabbed, passed, current,
                   currentID, marked, again, late, others>>

\* mutant: the mailbox is not emptied.
TakeAddTwice ==
    /\ At("add", "del")
    /\ list' = list \cup ({add} \ {None})
    /\ UNCHANGED <<pool, add, del, flags, token, fault, grabbed, passed, current,
                   currentID, marked, again, late, others>>

\* mutant: the mailbox is taken without a look at what is in it.
TakeAddUnchecked ==
    /\ At("add", "del")
    /\ list' = list \cup {add}
    /\ add' = None
    /\ UNCHANGED <<pool, del, flags, token, fault, grabbed, passed, current,
                   currentID, marked, again, late, others>>

\* mutant: a removal waits until no timer is added.
TakeAddFirst ==
    /\ At("add", IF add = None THEN "del" ELSE "dispatch")
    /\ list' = list \cup ({add} \ {None})
    /\ add' = None
    /\ UNCHANGED <<pool, del, flags, token, fault, grabbed, passed, current,
                   currentID, marked, again, late, others>>

\* The mailboxes are emptied into the list, and the list of what is to be removed.
TakeAdd ==
    /\ At("add", "del")
    /\ list' = list \cup ({add} \ {None})
    /\ add' = None
    /\ UNCHANGED <<pool, del, flags, token, fault, grabbed, passed, current,
                   currentID, marked, again, late, others>>

TakeDel ==
    /\ At("del", "dispatch")
    /\ IF del = None THEN UNCHANGED <<fault, list, pool>> ELSE DoRemoveTimer(del)
    /\ del' = None
    /\ passed' = {}
    /\ UNCHANGED <<add, flags, token, grabbed, current, currentID, marked, again, late, others>>

\* GrabTimer: a timer that is due leaves the list.  One that was called is not due again
\* in this pass, unless it was rescheduled.
Grab(t) ==
    /\ At("dispatch", "grabbed")
    /\ t \in list \ passed
    /\ list' = list \ {t}
    /\ grabbed' = t
    /\ passed' = passed \cup {t}
    /\ late' = IF t \in gone THEN [late EXCEPT ![t] = IF @ < 2 THEN @ + 1 ELSE 2] ELSE late
    /\ UNCHANGED <<pool, add, del, flags, token, fault, current, currentID, marked, again, others>>

\* The callback begins.
Call ==
    /\ At("grabbed", "callback")
    /\ current' = grabbed
    /\ again' = again \ {grabbed}
    /\ away' = TRUE
    /\ currentID' = grabbed
    /\ UNCHANGED <<pool, list, add, del, inserting, token, fault, grabbed, passed, marked,
                   late, others>>

\* A timer removes itself, or another one.
CallbackRemove(t) ==
    /\ At("callback", "callback")
    /\ t \in known \cup {current}
    /\ Begin
    /\ IF t = currentID
       THEN marked' = marked \cup {t} /\ UNCHANGED <<pool, list, fault>>
       ELSE DoRemoveTimer(t) /\ UNCHANGED marked
    /\ UNCHANGED <<add, del, flags, token, grabbed, passed, current, currentID, again,
                   client, ghosts>>

\* A callback adds a timer: InsertTimer puts it into the list, and wakes the thread it
\* runs in if the timer is the first.
CallbackAdd(t) ==
    /\ At("callback", "callback")
    /\ t \notin pool \cup known /\ \A d \in Clients : arg[d] # t
    /\ Begin
    /\ pool' = pool \cup {t}
    /\ list' = list \cup {t}
    /\ token' \in {token, TRUE}
    /\ list = {} => token'
    /\ known' = known \cup {t}
    /\ UNCHANGED <<add, del, flags, fault, grabbed, passed, current, currentID,
                   marked, again, client, gone, late, settled>>

\* A callback reschedules its timer, or one of the list.
CallbackReschedule(t) ==
    /\ At("callback", "callback")
    /\ t \in list \cup {current}
    /\ Begin
    /\ GetsRescheduled(t)

CallbackReturn ==
    /\ At("callback", "wait")
    /\ away' = FALSE
    /\ UNCHANGED <<pool, list, add, del, inserting, token, fault, grabbed, passed, current,
                   currentID, marked, again, late, others>>

\* mutant: nobody is waited for.
EndCallAtOnce ==
    /\ At("wait", "after")
    /\ current' = None
    /\ UNCHANGED <<pool, list, add, del, flags, token, fault, grabbed, passed,
                   currentID, marked, again, late, others>>

\* A client that is inserting a timer is waited for.
EndCall ==
    /\ At("wait", "after")
    /\ ~inserting
    /\ current' = None
    /\ UNCHANGED <<pool, list, add, del, flags, token, fault, grabbed, passed,
                   currentID, marked, again, late, others>>

\* The timer is put back, unless it was removed or fires once: later, or where it was
\* rescheduled to.
PutBack ==
    /\ At("after", "dispatch")
    /\ IF grabbed \notin marked /\ grabbed \in Periodic \cup again
       THEN list' = list \cup {grabbed} /\ UNCHANGED <<pool, marked>>
       ELSE pool' = pool \ {grabbed} /\ marked' = marked \ {grabbed} /\ UNCHANGED list
    /\ again' = again \ {grabbed}
    /\ passed' = passed \ (again \cap {grabbed})
    /\ grabbed' = None
    /\ UNCHANGED <<add, del, flags, token, fault, current, currentID, late, others>>

\* Nothing else is due.  The sleep until the first timer is due ends by itself.
EndPass ==
    /\ At("dispatch", IF list = {} THEN "top" ELSE "sleep")
    /\ passed' = {}
    /\ UNCHANGED <<pool, list, add, del, flags, token, fault, grabbed, current,
                   currentID, marked, again, late, others>>

Sleep ==
    /\ At("sleep", "top")
    /\ token' = FALSE
    /\ UNCHANGED <<pool, list, add, del, flags, fault, grabbed, passed, current,
                   currentID, marked, again, late, others>>

ThreadStep ==
    \/ Top \/ WakeForever \/ TakeAdd \/ TakeDel
    \/ \E t \in Timers : Grab(t) \/ CallbackRemove(t) \/ CallbackAdd(t) \/ CallbackReschedule(t)
    \/ Call \/ CallbackReturn \/ EndCall \/ PutBack
    \/ EndPass \/ Sleep

Next ==
    \/ ThreadStep
    \/ \E c \in Clients : ClientStep(c)
    \/ \E c \in Clients, t \in Timers : Add(c, t) \/ Remove(c, t) \/ Reschedule(c, t)

Spec == Init /\ [][Next]_vars

\* A thread that can run does.  Nobody has to begin a call, or to get
\* cs_timer_change before another thread does.
Fairness == WF_vars(ThreadStep) /\ \A c \in Clients : WF_vars(ClientStep(c))

FairSpec == Spec /\ Fairness
-----------------------------------------------------------------------------
\* Timers that clients have allocated and nobody else knows.
Pending(c) ==
    IF cpc[c] \in {"readAway", "recheck", "insert", "enterAdd", "waitAdd"} THEN {arg[c]} ELSE {}

\* A timer is freed once and in no place twice: of the timers of the pool each is in
\* the list, in the mailbox, taken by the thread or still with the client that adds
\* it, and none that was freed is (DoInsertTimer, GrabTimer and DeleteFromSet in
\* client, callback and thread).
OnePlace ==
    LET mail == {add} \ {None}
        taken == {grabbed} \ {None}
    IN  /\ pool = list \cup mail \cup taken \cup UNION {Pending(c) : c \in Clients}
        /\ list \cap mail = {} /\ list \cap taken = {} /\ mail \cap taken = {}
        /\ \A c \in Clients :
               /\ Pending(c) \cap (list \cup mail \cup taken) = {}
               /\ \A d \in Clients \ {c} : Pending(c) \cap Pending(d) = {}

\* "allow timers to be added while away in this timer's callback... so wait for it to
\* finish" (sack.cc, in ProcessTimers): the thread does not sleep without end beside
\* a timer in the list or the mailbox, unless a wake is there or comes.
NoLostInsert ==
    tpc = "forever" /\ (list # {} \/ add # None) =>
        token \/ \E c \in Clients : cpc[c] \in {"enterAdd", "waitAdd", "wakeAdd"}

\* "The next time this timer would run, it will be removed" (sack.cc, at RemoveTimer),
\* as far as the code keeps it: a turn of the thread that begins after a client's
\* RemoveTimer has returned does not call the timer.  The turn that is going on may
\* call it, once, and once more each time it is rescheduled.
RemovalIsFinal == grabbed \notin settled /\ \A t \in Timers : late[t] < 2

\* A call of a client returns, as long as the thread has timers to wake up for.
CallsReturn ==
    \A c \in Clients :
        cpc[c] # "idle" ~> cpc[c] = "idle" \/ fault \/ (tpc = "forever" /\ add = None /\ list = {})

\* The thread empties the mailbox of added timers: every other AddTimer can go on.
AddIsTaken == add # None ~> add = None \/ fault
=============================================================================
