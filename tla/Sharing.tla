------------------------------ MODULE Sharing ------------------------------
(***************************************************************************)
(* Two pairs of programs that share text through memory, started and       *)
(* scheduled independently.                                                *)
(*  - problem_4/mmap_sharing.c: mode w truncates, extends and maps a file  *)
(*    and copies a line into it; mode r maps the file and prints it.       *)
(*  - practice/writer.c and reader.c (lab_2): each creates a System V      *)
(*    segment or gets the existing one; the writer removes it at the end.  *)
(***************************************************************************)
EXTENDS Runtime

Programs == {"mmap_sharing", "shm"}
Threads == {"w", "r"}

(* The file may be there already.  `late' says that the reader opened it   *)
(* after the writer had ended.                                             *)
Init ==
  \/ \E file \in {"none", "full"} :
       Start("mmap_sharing", [t \in Threads |-> "open"],
             [file |-> file, text |-> IF file = "none" THEN "" ELSE "old",
              shown |-> "nothing", late |-> FALSE])
  \/ Start("shm", [t \in Threads |-> "get"],
           [created |-> 0, key |-> 0, used |-> [t \in Threads |-> 0],
            text |-> [k \in 1 .. 2 |-> ""], shown |-> "nothing"])

-----------------------------------------------------------------------------
(* mmap_sharing.c; every system call may fail, and then the program exits. *)

Fail(t, from) == Goto(t, from, "failed")

(* strcpy is not atomic, and at the end of the input it copies an          *)
(* uninitialised array.                                                    *)
WriteText(t) == \/ Move(t, "write", "rest", [mem EXCEPT !.text = "part"])
                \/ \E text \in {"new", "garbage"} : Move(t, "rest", "done", [mem EXCEPT !.text = text])

ModeW(t) == \/ Move(t, "open", "extend", [mem EXCEPT !.file = "empty", !.text = ""])
            \/ Move(t, "extend", "map", [mem EXCEPT !.file = "full"])
            \/ Goto(t, "map", "write")
            \/ WriteText(t)
            \/ \E l \in {"open", "extend", "map"} : Fail(t, l)

(* A page of a mapped file that has no bytes any more, or none yet, cannot *)
(* be read: the reader is killed by SIGBUS.                                *)
ModeR(t) == \/ /\ mem.file # "none"
               /\ Move(t, "open", "map", [mem EXCEPT !.late = pc["w"] = "done"])
            \/ Goto(t, "map", "print")
            \/ mem.file = "full" /\ Move(t, "print", "done", [mem EXCEPT !.shown = mem.text])
            \/ mem.file = "empty" /\ Goto(t, "print", "killed")
            \/ \E l \in {"open", "map"} : Fail(t, l)

-----------------------------------------------------------------------------
(* writer.c and reader.c *)

(* shmget with IPC_CREAT: the segment there is, or a new one. *)
Segment == IF mem.key # 0 THEN mem ELSE [mem EXCEPT !.created = @ + 1, !.key = mem.created + 1]

(* shmget may fail; so may shmat, and then a new segment is there anyway. *)
Get(t) == \/ Move(t, "get", "use", [Segment EXCEPT !.used[t] = Segment.key])
          \/ Move(t, "get", "failed", Segment)
          \/ Fail(t, "get")

(* shmdt and shmctl may fail, and then the segment stays. *)
Writer(t) == \/ Get(t)
             \/ Move(t, "use", "remove", [mem EXCEPT !.text[mem.used[t]] = "hello world"])
             \/ Move(t, "remove", "done", [mem EXCEPT !.key = 0])
             \/ Fail(t, "remove")

(* The reader's shmdt may fail too. *)
Reader(t) == \/ Get(t)
             \/ \E l \in {"done", "failed"} :
                  Move(t, "use", l, [mem EXCEPT !.shown = mem.text[mem.used[t]]])

Step(t) == \/ program = "mmap_sharing" /\ t = "w" /\ ModeW(t)
           \/ program = "mmap_sharing" /\ t = "r" /\ ModeR(t)
           \/ program = "shm" /\ t = "w" /\ Writer(t)
           \/ program = "shm" /\ t = "r" /\ Reader(t)

Next == \E t \in Threads : Step(t)

Fairness == \A t \in Threads : WF_vars(Step(t))

-----------------------------------------------------------------------------
(* Properties *)

(* A reader that comes after the writer shows the new text, and one that   *)
(* is killed came into the truncation (mmap_sharing.c:30); the text of a   *)
(* segment is shown once it was written to the reader's own segment.       *)
TextShown ==
  /\ program = "mmap_sharing" =>
       /\ pc["r"] = "done" /\ mem.late => mem.shown \in {"new", "garbage"}
       /\ pc["r"] = "killed" => pc["w"] # "open"
  /\ program = "shm" =>
       (mem.shown = "hello world" => mem.used["r"] = mem.used["w"])

(* A segment is left after a writer that ended well only if the reader has *)
(* made a second one after the writer removed the first, which both may    *)
(* have used (writer.c:40, reader.c:14).                                   *)
SegmentRemoved ==
  program = "shm" /\ pc["w"] = "done" /\ mem.key # 0 =>
    mem.key = 2 /\ mem.used["w"] = 1 /\ pc["r"] # "get" /\ mem.used["r"] # 1

AtRest == \A t \in Threads : pc[t] \in {"done", "failed", "killed"}
=============================================================================
