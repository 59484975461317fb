------------------------------- MODULE Words --------------------------------
(***************************************************************************)
(* pwords of src/hw-list: one thread for each file named on the command    *)
(* line counts its words into one list under one mutex (word_count_p.c),   *)
(* and main() joins them, sorts the list and prints it (pwords.c).  A step *)
(* is one access to the list.  A word is a number, ordered as its letters  *)
(* are.  The list is a sequence here: KernelLists shows that               *)
(* list_push_back and list_sort do to the links what they do to it.        *)
(***************************************************************************)
EXTENDS Integers, Sequences, SequencesExt

CONSTANTS
  CommandLine,   \* sequences of files: the words of each, or NOFILE
  Stdin,         \* the words on standard input
  NOFILE,        \* a file that fopen() does not find
  NULL

VARIABLES
  argv,      \* the files of this run
  main,      \* where main() is
  t,         \* main()'s variable of that name
  worker,    \* each thread: where it is, the words it has yet to read, its
             \* position e in the list and the count it has read
  lock,      \* the thread that has wclist->lock
  lst,       \* wclist->lst
  printed    \* what fprint_words() has written

vars == <<argv, main, t, worker, lock, lst, printed>>

\* main() counts the words of standard input itself, as thread 0.
ThreadId == 0 .. Len(argv)
Content(i) == IF i = 0 THEN Stdin ELSE argv[i]
Fresh(pc, todo) == [pc |-> pc, todo |-> todo, e |-> 0, count |-> 0]

\* main() up to its loop, with init_words().
Init ==
  /\ argv \in CommandLine
  /\ main = IF argv = <<>> THEN "count" ELSE "create"
  /\ t = 1
  /\ worker = [i \in 0 .. Len(argv) |->
                 IF i = 0 /\ argv = <<>> THEN Fresh("next", Stdin) ELSE Fresh("none", <<>>)]
  /\ lock = NULL
  /\ lst = <<>>
  /\ printed = NULL

Ended == main \in {"exit", "failed"}

\* One pass of the loop that creates the threads.
pthread_create ==
  /\ main = "create"
  /\ \/ /\ worker' = [worker EXCEPT ![t] = Fresh("open", <<>>)]
        /\ IF t = Len(argv) THEN main' = "join" /\ t' = 1
                            ELSE main' = "create" /\ t' = t + 1
     \/ /\ main' = "failed"   \* exit(-1) ends the threads as well
        /\ UNCHANGED <<t, worker>>
  /\ UNCHANGED <<argv, lock, lst, printed>>

\* count_words_wrapper() up to count_words().
fopen(i) ==
  /\ worker[i].pc = "open"
  /\ worker' = [worker EXCEPT ![i] =
                  IF argv[i] = NOFILE THEN Fresh("ended", <<>>) ELSE Fresh("next", argv[i])]
  /\ UNCHANGED <<argv, main, t, lock, lst, printed>>

\* count_words(): the next word goes to add_word(), which begins by taking the
\* lock; at the end of the file the thread is done.
EndOfFile(i) ==
  /\ worker[i].pc = "next" /\ worker[i].todo = <<>>
  /\ worker' = [worker EXCEPT ![i].pc = "ended"]
  /\ main' = IF i = 0 THEN "join" ELSE main
  /\ UNCHANGED <<argv, t, lock, lst, printed>>

\* Mutant: the list of word_count_l.c, which has no mutex.
WithoutMutex(i) == lock' = i

pthread_mutex_lock(i) == lock = NULL /\ lock' = i

BeginAdd(i) ==
  /\ worker[i].pc = "next" /\ worker[i].todo # <<>>
  /\ pthread_mutex_lock(i)
  /\ worker' = [worker EXCEPT ![i].pc = "find", ![i].e = 1]
  /\ UNCHANGED <<argv, main, t, lst, printed>>

\* One element of the search.
FindStep(i) ==
  /\ worker[i].pc = "find" /\ worker[i].e <= Len(lst)
  /\ IF lst[worker[i].e].word = Head(worker[i].todo)
     THEN worker' = [worker EXCEPT ![i].pc = "store", ![i].count = lst[worker[i].e].count]
     ELSE worker' = [worker EXCEPT ![i].e = @ + 1]
  /\ UNCHANGED <<argv, main, t, lock, lst, printed>>

\* ++wc->count, whose read is in FindStep.
CountAgain(i) ==
  /\ worker[i].pc = "store"
  /\ lst' = [lst EXCEPT ![worker[i].e].count = worker[i].count + 1]
  /\ worker' = [worker EXCEPT ![i].pc = "unlock", ![i].todo = Tail(@)]
  /\ UNCHANGED <<argv, main, t, lock, printed>>

\* The word was not found.
PushBack(i) ==
  /\ worker[i].pc = "find" /\ worker[i].e > Len(lst)
  /\ lst' = Append(lst, [word |-> Head(worker[i].todo), count |-> 1])
  /\ worker' = [worker EXCEPT ![i].pc = "unlock", ![i].todo = Tail(@)]
  /\ UNCHANGED <<argv, main, t, lock, printed>>

EndAdd(i) ==
  /\ worker[i].pc = "unlock"
  /\ lock' = NULL
  /\ worker' = [worker EXCEPT ![i] = Fresh("next", worker[i].todo)]
  /\ UNCHANGED <<argv, main, t, lst, printed>>

\* One pass of the loop that waits for the threads.
pthread_join ==
  /\ main = "join" /\ t <= Len(argv)
  /\ worker[t].pc = "ended"
  /\ t' = t + 1
  /\ UNCHANGED <<argv, main, worker, lock, lst, printed>>

\* Lower counts first, then the alphabet.
less_count(a, b) == a.count < b.count \/ (a.count = b.count /\ a.word < b.word)

wordcount_sort ==
  /\ main = "join" /\ t > Len(argv)
  /\ lock = NULL
  /\ lst' = SortSeq(lst, less_count)
  /\ main' = "print"
  /\ UNCHANGED <<argv, t, worker, lock, printed>>

fprint_words ==
  /\ main = "print"
  /\ lock = NULL
  /\ printed' = lst
  /\ main' = "exit"
  /\ UNCHANGED <<argv, t, worker, lock, lst>>

Terminated == Ended /\ UNCHANGED vars

Next ==
  \/ Terminated
  \/ /\ ~ Ended
     /\ \/ pthread_create \/ pthread_join \/ wordcount_sort \/ fprint_words
        \/ \E i \in ThreadId :
             \/ fopen(i) \/ EndOfFile(i) \/ BeginAdd(i) \/ FindStep(i)
             \/ CountAgain(i) \/ PushBack(i) \/ EndAdd(i)
-----------------------------------------------------------------------------
Occurrences(s, w) == Cardinality({k \in DOMAIN s : s[k] = w})
Counted(l, w) ==
  IF \E k \in DOMAIN l : l[k].word = w
  THEN l[CHOOSE k \in DOMAIN l : l[k].word = w].count ELSE 0

\* The threads that read words, and how often they have added word w so far.
Readers ==
  {i \in ThreadId : /\ worker[i].pc \notin {"none", "open"}
                    /\ Content(i) # NOFILE}
Added(w) ==
  MapThenSumSet(
    LAMBDA i : Occurrences(Content(i), w) - Occurrences(worker[i].todo, w), Readers)
Vocabulary == UNION {Range(Content(i)) : i \in Readers}

\* No word is lost and none counted twice, however the threads take turns: in
\* every state the list has one entry for each word and counts what has been
\* added so far; what main() prints is the count of every file that could be
\* opened, in the order of less_count().
WordsAreCounted ==
  /\ \A j, k \in DOMAIN lst : lst[j].word = lst[k].word => j = k
  /\ \A w \in Vocabulary : Counted(lst, w) = Added(w)
  /\ main = "exit" =>
       /\ \A i \in DOMAIN argv : worker[i].pc = "ended" /\ worker[i].todo = <<>>
       /\ \A w \in Vocabulary : Counted(printed, w) = Added(w)
       /\ \A k \in 1 .. Len(printed) - 1 : less_count(printed[k], printed[k + 1])
=============================================================================
