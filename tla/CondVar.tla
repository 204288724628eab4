------------------------------ MODULE CondVar ------------------------------
(***************************************************************************)
(* Condition variables (sdk/lib/rtl/condvar.c) over a keyed event.  The    *)
(* variable is one word: the newest entry of a circular list of sleepers,  *)
(* and a flag that locks the list.  The entry of a sleeper is on its       *)
(* stack, and its address is also the key it sleeps on: both are named by  *)
(* the thread.                                                             *)
(*                                                                         *)
(* An action is what a thread does up to the next access that others can   *)
(* see: to the word, to ListRemovalHandled or to the keyed event.  The     *)
(* links are only touched by the holder of the lock.                       *)
(***************************************************************************)
EXTENDS KeyedEvent, FiniteSets

CONSTANTS NoEntry,      \* a null entry
          SharedMode    \* the caller's lock is an SRW lock, held shared

ASSUME CondVarAssumption ==
    /\ NoEntry \notin Threads /\ SharedMode \in BOOLEAN /\ Keys = Threads

VARIABLES word,         \* ConditionVariable->Ptr: list head and lock flag
          list,         \* the linked entries, newest first
          handled,      \* ListRemovalHandled of each thread's entry
          callerLock,   \* who holds the caller's lock
          pc, loc,      \* what each thread does next, and its locals
          seen          \* history: what the locker found, and whom it woke

condVars == <<word, list>>
vars == <<condVars, handled, callerLock, pc, loc, seen, keyedVars>>

(* ReleaseAll, Entry and NextEntry of InternalWake, and RemoveEntry.  A     *)
(* parameter is chosen where it is first read.                              *)
NoLocals == [all |-> FALSE,
             entry |-> NoEntry, next |-> NoEntry, remove |-> NoEntry]
NotSeen  == [list |-> <<>>, asleep |-> {}, woken |-> {}]

(* RtlInitializeConditionVariable *)
Init ==
    /\ word = [head |-> NoEntry, locked |-> FALSE]
    /\ list = <<>>
    /\ handled = [t \in Threads |-> FALSE]
    /\ callerLock = {}
    /\ pc = [t \in Threads |-> "Idle"]
    /\ loc = [t \in Threads |-> NoLocals]
    /\ seen = NotSeen
    /\ KeyedInit

Goto(t, l) == pc' = [pc EXCEPT ![t] = l]
Set(t, r)  == loc' = [loc EXCEPT ![t] = r]

-----------------------------------------------------------------------------
(* The caller's critical section or SRW lock, outside a call. *)
Acquire(t) ==
    /\ pc[t] = "Idle" /\ t \notin callerLock
    /\ SharedMode \/ callerLock = {}
    /\ callerLock' = callerLock \cup {t}
    /\ UNCHANGED <<condVars, handled, pc, loc, seen, keyedVars>>

Release(t) ==
    /\ pc[t] = "Idle" /\ t \in callerLock
    /\ callerLock' = callerLock \ {t}
    /\ UNCHANGED <<condVars, handled, pc, loc, seen, keyedVars>>

(* RtlSleepConditionVariableCS and -SRW: InternalSleep *)
SleepCall(t) ==
    /\ pc[t] = "Idle" /\ t \in callerLock
    /\ Goto(t, "Insert")
    /\ UNCHANGED <<condVars, handled, callerLock, loc, seen, keyedVars>>

(* RtlWakeConditionVariable and RtlWakeAllConditionVariable: InternalWake *)
WakeCall(t) ==
    /\ pc[t] = "Idle"
    /\ Goto(t, "Wake")
    /\ UNCHANGED <<condVars, handled, callerLock, loc, seen, keyedVars>>

-----------------------------------------------------------------------------
(* InternalLockCondVar with an entry: it becomes the head. *)
Insert(t) ==
    /\ pc[t] = "Insert" /\ ~word.locked
    /\ word' = [head |-> t, locked |-> TRUE]
    /\ list' = Cons(t, list)
    /\ Goto(t, "Inserted")
    /\ UNCHANGED <<handled, callerLock, loc, seen, keyedVars>>

(* InternalUnlockCondVar.  An entry to remove is unlinked and told so; the  *)
(* word keeps the old head until it is unlocked.                            *)
Unlink(t) ==
    /\ pc[t] \in {"SelfUnlock", "WakeUnlock"} /\ loc[t].remove # NoEntry
    /\ list' = RemoveFirst(list, loc[t].remove)
    /\ handled' = [handled EXCEPT ![loc[t].remove] = TRUE]
    /\ Set(t, [loc[t] EXCEPT !.remove = NoEntry])
    /\ UNCHANGED <<word, callerLock, pc, seen, keyedVars>>

Newest == IF list = <<>> THEN NoEntry ELSE Head(list)

(* Where the call that unlocks goes on. *)
AfterUnlock == [Inserted |-> "Drop", SelfUnlock |-> "Reacquire",
                WakeUnlock |-> "Idle"]

Unlock(t) ==
    /\ pc[t] \in DOMAIN AfterUnlock /\ loc[t].remove = NoEntry
    /\ word' = [head |-> Newest, locked |-> FALSE]
    /\ Goto(t, AfterUnlock[pc[t]])
    /\ Set(t, NoLocals)
    /\ seen' = NotSeen
    /\ UNCHANGED <<list, handled, callerLock, keyedVars>>

-----------------------------------------------------------------------------
(* InternalSleep: the caller's lock is dropped, *)
Drop(t) ==
    /\ pc[t] = "Drop"
    /\ callerLock' = callerLock \ {t}
    /\ Goto(t, "Sleep")
    /\ UNCHANGED <<condVars, handled, loc, seen, keyedVars>>

(* and the thread sleeps.  It may meet the thread that holds the lock.  *)
Sleep(t) ==
    /\ pc[t] = "Sleep"
    /\ \E timed \in BOOLEAN : WaitForKeyedEvent(t, t, timed)
    /\ seen' = IF Partner(releaseList, t) = {} THEN seen
               ELSE [seen EXCEPT !.woken = @ \cup {t}]
    /\ Goto(t, "Asleep")
    /\ UNCHANGED <<condVars, handled, callerLock, loc>>

(* Mutant: a sleeper that was woken has been removed from the list. *)
AwakeRemoved(t) ==
    /\ pc[t] = "Asleep" /\ Returned(t)
    /\ keyed' = [keyed EXCEPT ![t] = NoCall]
    /\ Goto(t, IF keyed[t].at = "SUCCESS" \/ handled[t]
               THEN "Reacquire" ELSE "SelfLock")
    /\ UNCHANGED <<condVars, handled, callerLock, loc, seen,
                   waitList, releaseList>>

(* Is the entry still on the list? *)
Awake(t) ==
    /\ pc[t] = "Asleep" /\ Returned(t)
    /\ keyed' = [keyed EXCEPT ![t] = NoCall]
    /\ Goto(t, IF handled[t] THEN "Reacquire" ELSE "SelfLock")
    /\ UNCHANGED <<condVars, handled, callerLock, loc, seen,
                   waitList, releaseList>>

(* InternalLockCondVar without an entry, and with a flag that aborts it.    *)
(* An entry that another thread removes is not removed again.               *)
SelfLock(t) ==
    /\ pc[t] = "SelfLock"
    /\ IF word.locked THEN Goto(t, "Spin") /\ UNCHANGED <<word, loc>>
       ELSE IF word.head = NoEntry
            THEN Goto(t, "Reacquire") /\ UNCHANGED <<word, loc>>
       ELSE /\ word' = [word EXCEPT !.locked = TRUE]
            /\ Set(t, [loc[t] EXCEPT !.remove = IF handled[t] THEN NoEntry ELSE t])
            /\ Goto(t, "SelfUnlock")
    /\ UNCHANGED <<list, handled, callerLock, seen, keyedVars>>

Spin(t) ==
    /\ pc[t] = "Spin"
    /\ Goto(t, IF handled[t] THEN "Reacquire" ELSE "SelfLock")
    /\ UNCHANGED <<condVars, handled, callerLock, loc, seen, keyedVars>>

(* The caller's lock is taken again.  The entry is gone with the call. *)
Reacquire(t) ==
    /\ pc[t] = "Reacquire"
    /\ SharedMode \/ callerLock = {}
    /\ callerLock' = callerLock \cup {t}
    /\ handled' = [handled EXCEPT ![t] = FALSE]
    /\ Goto(t, "Idle")
    /\ UNCHANGED <<condVars, loc, seen, keyedVars>>

-----------------------------------------------------------------------------
(* The entry before e, towards the newest one; none at the head. *)
Before(e) ==
    LET i == CHOOSE i \in DOMAIN list : list[i] = e
    IN  IF i = 1 THEN NoEntry ELSE list[i - 1]

(* Mutant: the loop starts with the newest entry. *)
StartAtHead == Head(list)

(* The oldest entry: the loop goes from there to the head. *)
StartAtLast == Last(list)

(* InternalWake: lock, unless there is nobody to wake. *)
Wake(t, all) ==
    /\ pc[t] = "Wake" /\ ~word.locked
    /\ IF word.head = NoEntry
       THEN Goto(t, "Idle") /\ UNCHANGED <<word, loc, seen>>
       ELSE /\ word' = [word EXCEPT !.locked = TRUE]
            /\ Set(t, [NoLocals EXCEPT !.all = all, !.entry = StartAtLast])
            /\ seen' = [list |-> list, woken |-> {},
                        asleep |-> {u \in Threads : Contains(waitList, u)}]
            /\ Goto(t, "Signal")
    /\ UNCHANGED <<list, handled, callerLock, keyedVars>>

(* Mutant: the release waits for the sleeper to come. *)
SignalUntimed(t) ==
    /\ pc[t] = "Signal"
    /\ Set(t, [loc[t] EXCEPT !.next = Before(loc[t].entry)])
    /\ ReleaseKeyedEvent(t, loc[t].entry, FALSE)
    /\ seen' = IF Partner(waitList, loc[t].entry) = {} THEN seen
               ELSE [seen EXCEPT !.woken = @ \cup {loc[t].entry}]
    /\ Goto(t, "Signalled")
    /\ UNCHANGED <<condVars, handled, callerLock>>

(* NtReleaseKeyedEvent with a timeout of 0 *)
Signal(t) ==
    /\ pc[t] = "Signal"
    /\ Set(t, [loc[t] EXCEPT !.next = Before(loc[t].entry)])
    /\ ReleaseKeyedEvent(t, loc[t].entry, TRUE)
    /\ seen' = IF Partner(waitList, loc[t].entry) = {} THEN seen
               ELSE [seen EXCEPT !.woken = @ \cup {loc[t].entry}]
    /\ Goto(t, "Signalled")
    /\ UNCHANGED <<condVars, handled, callerLock>>

(* The next round of the loop, or its end: on to the unlock. *)
NextRound(t) ==
    /\ Set(t, [loc[t] EXCEPT !.entry = loc[t].next, !.next = NoEntry])
    /\ Goto(t, "Signal")

LoopEnds(t, remove) ==
    /\ Set(t, [loc[t] EXCEPT !.entry = NoEntry, !.next = NoEntry,
                             !.remove = remove])
    /\ Goto(t, "WakeUnlock")

(* Mutant: an entry that is not the head is told, but stays linked. *)
SignalReturnsLinked(t) ==
    LET e == loc[t].entry
        isHead == loc[t].next = NoEntry
    IN  /\ pc[t] = "Signalled" /\ Returned(t)
        /\ keyed' = [keyed EXCEPT ![t] = NoCall]
        /\ handled' = IF isHead THEN handled ELSE [handled EXCEPT ![e] = TRUE]
        /\ IF isHead THEN LoopEnds(t, e)
           ELSE IF ~loc[t].all THEN LoopEnds(t, NoEntry)
           ELSE NextRound(t)
        /\ UNCHANGED <<condVars, callerLock, seen, waitList, releaseList>>

(* STATUS_TIMEOUT is a success to NT_SUCCESS (it is not negative), so the   *)
(* branch of line 312 is not taken: whether or not it has met the sleeper,  *)
(* a release counts as a wake-up.  The entry is removed at once, or by the  *)
(* unlock if it is the head, and a wake of one thread is over.              *)
SignalReturns(t) ==
    LET e == loc[t].entry
        isHead == loc[t].next = NoEntry
    IN  /\ pc[t] = "Signalled" /\ Returned(t)
        /\ keyed' = [keyed EXCEPT ![t] = NoCall]
        /\ IF isHead THEN UNCHANGED <<list, handled>>
           ELSE list' = RemoveFirst(list, e) /\ handled' = [handled EXCEPT ![e] = TRUE]
        /\ IF isHead THEN LoopEnds(t, e)
           ELSE IF ~loc[t].all THEN LoopEnds(t, NoEntry)
           ELSE NextRound(t)
        /\ UNCHANGED <<word, callerLock, seen, waitList, releaseList>>

-----------------------------------------------------------------------------
Keyed(t) ==
    /\ KeyedStep(t)
    /\ UNCHANGED <<condVars, handled, callerLock, pc, loc, seen>>

Caller(t) ==
    Acquire(t) \/ Release(t) \/ SleepCall(t) \/ WakeCall(t)

Step(t) ==
    \/ Insert(t) \/ Unlink(t) \/ Unlock(t)
    \/ Drop(t) \/ Sleep(t) \/ Awake(t) \/ SelfLock(t) \/ Spin(t) \/ Reacquire(t)
    \/ (\E all \in BOOLEAN : Wake(t, all)) \/ Signal(t) \/ SignalReturns(t)
    \/ Keyed(t)

Next == \E t \in Threads : Caller(t) \/ Step(t)

Spec == Init /\ [][Next]_vars

(* A thread in a call goes on, and a timeout expires.  A sleep without one  *)
(* and the calls of the user are not promised.                              *)
FairSpec == Spec /\ \A t \in Threads : WF_vars(Step(t))
-----------------------------------------------------------------------------
(* Where the entry of a thread is in use; who holds the lock; which entries *)
(* a thread will still touch.                                               *)
Sleeping == {"Inserted", "Drop", "Sleep", "Asleep", "SelfLock", "Spin",
             "SelfUnlock"}
Holding  == {"Inserted", "SelfUnlock", "WakeUnlock", "Signal", "Signalled"}

InUse(t) == {loc[t].entry, loc[t].next, loc[t].remove} \ {NoEntry}

TypeOK ==
    /\ word \in [head : Threads \cup {NoEntry}, locked : BOOLEAN]
    /\ list \in Seq(Threads) /\ callerLock \subseteq Threads
    /\ handled \in [Threads -> BOOLEAN]
    /\ pc \in [Threads -> Sleeping \cup Holding
                           \cup {"Idle", "Insert", "Wake", "Reacquire"}]
    /\ loc \in [Threads -> [all : BOOLEAN,
                            entry : Threads \cup {NoEntry},
                            next : Threads \cup {NoEntry},
                            remove : Threads \cup {NoEntry}]]

(* The entries are on the stacks of the sleepers.  Every entry that is      *)
(* linked, named by the word, or that a thread in InternalWake will still   *)
(* touch is that of a thread that has not left InternalSleep and has not    *)
(* been told of its removal; every such thread is linked, once; and one     *)
(* thread at a time has the list (condvar.c, lines 188-348, 415-430).       *)
NoDanglingEntry ==
    /\ TypeOK
    /\ IsInjective(list)
    /\ \A t \in Threads :
         /\ Contains(list, t) <=> pc[t] \in Sleeping /\ ~handled[t]
         /\ \A e \in InUse(t) : Contains(list, e)
    /\ ~word.locked => word.head = Newest
    /\ LET holders == {t \in Threads : pc[t] \in Holding}
       IN  IF word.locked THEN Cardinality(holders) = 1 ELSE holders = {}

(* "Wakeups happen in FIFO order" (condvar.c, line 264): when InternalWake  *)
(* is about to unlock, it has taken the oldest entry it found off the list, *)
(* or all of them, and no other.  Whoever of these was waiting for the      *)
(* keyed event when the list was locked waits no longer, and nobody else    *)
(* has been woken.                                                          *)
WakeTakesOldest ==
    \A t \in Threads : pc[t] = "WakeUnlock" =>
        LET n == Len(seen.list)
            taken == {i \in 1 .. n : \/ seen.list[i] = loc[t].remove
                                     \/ ~Contains(list, seen.list[i])}
        IN  /\ taken = IF loc[t].all THEN 1 .. n ELSE {n}
            /\ \A i \in taken : seen.list[i] \in seen.asleep =>
                                    ~Contains(waitList, seen.list[i])
            /\ \A u \in seen.woken : \E i \in taken : seen.list[i] = u

(* A thread that goes to sleep after it was told that its entry has been    *)
(* removed is found by no wake (lines 287-310, 334): it sleeps until its    *)
(* own timeout.                                                             *)
RemovedNotWoken ==
    [][\A t \in Threads :
         handled[t] /\ Contains(waitList, t) /\ ~Contains(waitList, t)' =>
            keyed[t].at = "TimedOut"]_vars

(* "We've woken a thread and will make sure this thread is removed from the *)
(* list" (condvar.c, lines 319-320): a thread whose entry was removed does  *)
(* not sleep on, with no timeout and nobody left to find it.                *)
RemovedIsAwake ==
    \A t \in Threads : handled[t] /\ Contains(waitList, t) => keyed[t].timeout

(* A thread that still has something to do in a call: not one that sleeps   *)
(* without a timeout, or that has only the caller's lock to wait for.       *)
InCall(t) ==
    /\ pc[t] \notin {"Idle", "Reacquire"}
    /\ Contains(waitList, t) => keyed[t].timeout

(* The list is always unlocked again, whatever happens to the sleepers, and *)
(* unless others lock it over and over (InternalLockCondVar spins, line     *)
(* 106), every call ends: a wake, and a sleep that is woken or has a        *)
(* timeout.                                                                 *)
CallsReturn ==
    /\ []<>(~word.locked)
    /\ []<>word.locked \/ \A t \in Threads : []<>(~InCall(t))
=============================================================================
