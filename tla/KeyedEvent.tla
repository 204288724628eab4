----------------------------- MODULE KeyedEvent -----------------------------
(***************************************************************************)
(* A keyed event (ntoskrnl/ex/keyedevt.c): a wait and a release of the     *)
(* same key meet, and whichever comes first waits for the other.           *)
(*                                                                         *)
(* Init and the steps below are what one call of                           *)
(* ExpReleaseOrWaitForKeyedEvent does for thread t; the callers compose    *)
(* them.  The lists are those of one hash bucket, which all the keys       *)
(* share, and all threads are of one process.  The bucket's push lock      *)
(* makes the search and the insertion one step.                            *)
(***************************************************************************)
EXTENDS Naturals, Sequences, SequencesExt

CONSTANTS Threads, Keys, NoKey

ASSUME KeyedEventAssumption == NoKey \notin Keys

VARIABLES waitList, releaseList,    \* WaitListHead, ReleaseListHead
          keyed     \* keyed[t]: where t is in its call, KeyedWaitValue,
                    \* whether it passed a timeout, KeyedWaitSemaphore

keyedVars == <<waitList, releaseList, keyed>>

NoCall == [at |-> "Out", key |-> NoKey, timeout |-> FALSE, semaphore |-> 0]

(* ExpInitializeKeyedEvent *)
KeyedInit ==
    /\ waitList = <<>> /\ releaseList = <<>>
    /\ keyed = [t \in Threads |-> NoCall]

(* The first thread of a list that has the key, as a set *)
Partner(list, key) ==
    LET i == SelectInSeq(list, LAMBDA u : keyed[u].key = key)
    IN  IF i = 0 THEN {} ELSE {list[i]}

(* t finds u on the other list, and returns: u is taken off and woken. *)
Meet(t, u) ==
    /\ keyed' = [keyed EXCEPT ![t].at = "SUCCESS", ![u].semaphore = @ + 1]
    /\ waitList' = RemoveFirst(waitList, u)
    /\ releaseList' = RemoveFirst(releaseList, u)

(* There is nobody: t waits for its own semaphore. *)
Enlist(t, key, timeout) ==
    keyed' = [keyed EXCEPT ![t] = [at |-> "Waiting", key |-> key,
                                   timeout |-> timeout, semaphore |-> 0]]

(* ExpWaitForKeyedEvent and ExpReleaseKeyedEvent, up to the wait *)
WaitForKeyedEvent(t, key, timeout) ==
    \/ \E u \in Partner(releaseList, key) : Meet(t, u)
    \/ /\ Partner(releaseList, key) = {}
       /\ Enlist(t, key, timeout)
       /\ waitList' = Append(waitList, t)
       /\ UNCHANGED releaseList

ReleaseKeyedEvent(t, key, timeout) ==
    \/ \E u \in Partner(waitList, key) : Meet(t, u)
    \/ /\ Partner(waitList, key) = {}
       /\ Enlist(t, key, timeout)
       /\ releaseList' = Append(releaseList, t)
       /\ UNCHANGED waitList

(* KeWaitForSingleObject, and the return *)
Signalled(t) ==
    /\ keyed[t].at = "Waiting" /\ keyed[t].semaphore > 0
    /\ keyed' = [keyed EXCEPT ![t] = [NoCall EXCEPT !.at = "SUCCESS"]]
    /\ UNCHANGED <<waitList, releaseList>>

(* The wait ends unsuccessfully. *)
TimeOut(t) ==
    /\ keyed[t].at = "Waiting" /\ keyed[t].semaphore = 0 /\ keyed[t].timeout
    /\ keyed' = [keyed EXCEPT ![t].at = "TimedOut"]
    /\ UNCHANGED <<waitList, releaseList>>

(* Mutant: a call that times out stays on its list. *)
UnlistNot(t) ==
    /\ keyed[t].at = "TimedOut"
    /\ keyed' = [keyed EXCEPT ![t] = [NoCall EXCEPT !.at = "TIMEOUT"]]
    /\ UNCHANGED <<waitList, releaseList>>

(* t takes itself off the lists, unless it was found meanwhile: then the    *)
(* semaphore has been released for nothing, and the two calls disagree.     *)
Unlist(t) ==
    /\ keyed[t].at = "TimedOut"
    /\ keyed' = [keyed EXCEPT ![t] = [NoCall EXCEPT !.at = "TIMEOUT"]]
    /\ waitList' = RemoveFirst(waitList, t)
    /\ releaseList' = RemoveFirst(releaseList, t)

Returned(t) == keyed[t].at \in {"SUCCESS", "TIMEOUT"}

(* The steps of a call that need nothing of the caller. *)
KeyedStep(t) == Signalled(t) \/ TimeOut(t) \/ Unlist(t)

-----------------------------------------------------------------------------
KeyedTypeOK ==
    /\ waitList \in Seq(Threads) /\ releaseList \in Seq(Threads)
    /\ keyed \in [Threads ->
         [at : {"Out", "Waiting", "TimedOut", "SUCCESS", "TIMEOUT"},
          key : Keys \cup {NoKey}, timeout : BOOLEAN, semaphore : 0 .. 1]]

(* A wait and a release of one key never both wait; a thread is listed     *)
(* exactly until somebody finds it, and is found once (ex/keyedevt.c,       *)
(* lines 152-225): its semaphore, of limit 1, is released at most once,     *)
(* and then its call ends even when it was about to time out.               *)
RendezvousPaired ==
    /\ KeyedTypeOK
    /\ \A i \in DOMAIN waitList, j \in DOMAIN releaseList :
         keyed[waitList[i]].key # keyed[releaseList[j]].key
    /\ LET all == waitList \o releaseList
       IN  /\ IsInjective(all)
           /\ \A t \in Threads :
                Contains(all, t) <=>
                    /\ keyed[t].at \in {"Waiting", "TimedOut"}
                    /\ keyed[t].semaphore = 0
=============================================================================
