--------------------------- MODULE MCTaskPolling ---------------------------
(* Instances of TaskPolling for TLC. *)
EXTENDS TaskPolling, TLC

Plain(k) == [kind |-> k, legacy |-> FALSE, odd |-> FALSE, lost |-> FALSE,
             sweeps |-> TRUE, bounded |-> TRUE]

\* A video task of every sort, a Suno task that may lose its channel, one users ask
\* for, and a video task where nothing is swept and where a fetch may hang.
AllTasks ==
    {t \in Task : t.kind = "video" /\ (t.lost => ~t.odd /\ ~t.legacy) /\ t.sweeps /\ t.bounded}
        \cup {[Plain("suno") EXCEPT !.lost = TRUE], [Plain("suno") EXCEPT !.odd = TRUE]}
        \cup {Plain("realtime"), [Plain("video") EXCEPT !.sweeps = FALSE, !.bounded = FALSE]}
=============================================================================
