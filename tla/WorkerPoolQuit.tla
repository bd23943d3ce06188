--------------------------- MODULE WorkerPoolQuit ---------------------------
(***************************************************************************)
(* WorkerPool with the other signal the workers wait for: sigwait's set    *)
(* holds SIGQUIT too (bkwrk.c:51-52), which the terminal sends to the      *)
(* whole process group, main and workers, on its quit key.                 *)
(***************************************************************************)
EXTENDS WorkerPool

CONSTANT MaxQuits       \* bound: how often the quit key is pressed

VARIABLE quits

(* Main blocks SIGQUIT as well, so the key stops nobody. *)
QuitKey == /\ mpc \notin {"clone", "pause"} /\ quits < MaxQuits
           /\ quits' = quits + 1
           /\ pending' = [w \in Worker |-> pending[w] \cup {"SIGQUIT"}]
           /\ UNCHANGED <<mainVars, taskVars, fifoVars, slotVars, wpc, idx, runs>>

QuitNext == QuitKey \/ (Next /\ UNCHANGED quits)

QuitSpec == Init /\ quits = 0 /\ [][QuitNext]_<<vars, quits>>
=============================================================================
