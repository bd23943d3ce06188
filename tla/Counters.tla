------------------------------ MODULE Counters ------------------------------
(***************************************************************************)
(* Two threads or processes that add to shared counters; an addition reads *)
(* the counter in one step and writes it in another.                       *)
(*  - p1mutex/shrdmem.c: a mutex around the whole loop.                    *)
(*  - practices/shared_buffer.c: a mutex around each addition.             *)
(*  - practice/hello_thread.c (lab_2): no mutex.                           *)
(*  - problem_1/movie_ratings.c: no mutex; each of two children reads a    *)
(*    file of ratings and adds to the count and to the sum of the movie.   *)
(* A counter is named by a pair; the first three programs have only one.   *)
(* `todo' is what an adder has yet to add, `done' what it has added.       *)
(***************************************************************************)
EXTENDS Runtime, Functions

CONSTANTS MAX_COUNT,    \* shrdmem.c:6, shared_buffer.c:7, hello_thread.c:4
          RatingFiles   \* the files: sequences of records [movie, rating]

Threaded == {"shrdmem", "shared_buffer", "hello_thread"}
Programs == Threaded \cup {"movie_ratings"}
Locked == {"shrdmem", "shared_buffer"}

Adders == {"adder1", "adder2"}
Threads == Adders \cup {"main"}
count == <<"count", 0>>

(* What f_count adds, and process_file for the lines of a file. *)
Increments == [k \in 1 .. MAX_COUNT |-> [to |-> count, by |-> 1]]
Additions(file) ==
  [k \in 1 .. 2 * Len(file) |->
     LET line == file[(k + 1) \div 2]
     IN  IF k % 2 = 1 THEN [to |-> <<"counts", line.movie>>, by |-> 1]
                      ELSE [to |-> <<"sums", line.movie>>, by |-> line.rating]]

Memory(todo) ==
  [lock |-> Free, todo |-> todo, done |-> [a \in Adders |-> <<>>],
   val |-> [c \in UNION {{todo[a][k].to : k \in DOMAIN todo[a]} : a \in Adders} |-> 0],
   seen |-> [a \in Adders |-> 0], shown |-> [a \in Adders |-> 0]]

Labels(m, l) == [t \in Threads |-> IF t = "main" THEN m ELSE l]

Init ==
  \/ \E p \in Threaded :
       Start(p, Labels("join", "add"), Memory([a \in Adders |-> Increments]))
  \/ \E files \in [Adders -> RatingFiles] :
       Start("movie_ratings", Labels("fork1", "none"),
             Memory([a \in Adders |-> Additions(files[a])]))

-----------------------------------------------------------------------------
(* The adders *)

Add(a) == Head(mem.todo[a])
Finished(a) == mem.todo[a] = <<>>

(* A file that cannot be opened: the child exits, and nobody asks why. *)
Open(a) == Goto(a, "open", "add") \/ Goto(a, "open", "done")

(* Mutant: the mutex is not taken. *)
EnterUnlocked(a) == ~Finished(a) /\ Goto(a, "add", "read")

Enter(a) == /\ ~Finished(a)
            /\ IF program \in Locked /\ mem.lock # a THEN Lock(a, "add", "read")
                                                     ELSE Goto(a, "add", "read")

Read(a) == Move(a, "read", "write", [mem EXCEPT !.seen[a] = mem.val[Add(a).to]])

(* Whether the adder unlocks after the addition it is about to write. *)
Releases(a) == \/ program = "shared_buffer"
               \/ program = "shrdmem" /\ Len(mem.todo[a]) = 1

Write(a) == Move(a, "write", IF Releases(a) THEN "unlock" ELSE "add",
                 [mem EXCEPT !.val[Add(a).to] = mem.seen[a] + Add(a).by, !.seen[a] = 0,
                             !.todo[a] = Tail(@), !.done[a] = Append(@, Add(a))])

(* f_count prints the counter when its loop is over, without the mutex. *)
End(a) == /\ Finished(a)
          /\ Move(a, "add", "done", IF program = "movie_ratings" THEN mem
                                    ELSE [mem EXCEPT !.shown[a] = mem.val[count]])

AdderStep(a) == Open(a) \/ Enter(a) \/ Read(a) \/ Write(a) \/ Unlock(a, "unlock", "add") \/ End(a)

(* Main of movie_ratings: either fork may fail, the second one with the    *)
(* first child at work and the shared memory left behind.                  *)
Fork(n, to) == \/ /\ pc["main"] = n /\ UNCHANGED <<program, mem>>
                  /\ pc' = [pc EXCEPT !["main"] = to,
                                      ![IF n = "fork1" THEN "adder1" ELSE "adder2"] = "open"]
               \/ Goto("main", n, "failed")

Step(t) ==
  /\ program \in Programs
  /\ \/ t \in Adders /\ AdderStep(t)
     \/ /\ t = "main"
        /\ Fork("fork1", "fork2") \/ Fork("fork2", "join") \/ Join(t, Adders, "join", "exited")

Next == \E t \in Threads : Step(t)

Fairness == \A t \in Threads : WF_vars(Step(t))

-----------------------------------------------------------------------------
(* Properties *)

To(c, a) == {k \in DOMAIN mem.done[a] : mem.done[a][k].to = c}
AddedBy(c, a) == SumFunctionOnSet([k \in DOMAIN mem.done[a] |-> mem.done[a][k].by], To(c, a))
Total(c) == AddedBy(c, "adder1") + AddedBy(c, "adder2")

(* The least that two adders without a mutex leave of n and of m ones. *)
LeastCount(n, m) == IF n = 0 \/ m = 0 THEN n + m ELSE IF n = 1 \/ m = 1 THEN 1 ELSE 2

(* With a mutex, or when one adder alone has touched a counter, no         *)
(* addition is lost, and the thread that is last shows the full count.     *)
(* Without a mutex additions may be lost, but never invented, and two of   *)
(* them survive if each adder has made two: hello_thread.c:11,             *)
(* movie_ratings.c:30-31.                                                  *)
UpdatesBounded ==
  program \in Programs /\ (\A a \in Adders : pc[a] = "done") =>
    /\ \A c \in DOMAIN mem.val :
         /\ mem.val[c] <= Total(c)
         /\ program \in Locked \/ (\E a \in Adders : To(c, a) = {}) => mem.val[c] = Total(c)
         /\ c[1] # "sums" => mem.val[c] >= LeastCount(AddedBy(c, "adder1"), AddedBy(c, "adder2"))
         /\ c[1] = "sums" /\ Total(c) > 0 => mem.val[c] > 0
    /\ program \in Locked => \E a \in Adders : mem.shown[a] = 2 * MAX_COUNT

(* Main returns, or stops at a fork that fails. *)
AtRest == pc["main"] \in {"exited", "failed"}
=============================================================================
