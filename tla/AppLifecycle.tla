---------------------------- MODULE AppLifecycle ----------------------------
(***************************************************************************)
(* What Executive Services promises the ground about an application, name  *)
(* by name: it is started only when no application of the name exists, a   *)
(* request is taken only while it runs, the last request taken decides     *)
(* what happens to it, it never runs on once it started to stop, and a     *)
(* restart or a reload brings it back from the file that was last named.   *)
(***************************************************************************)
CONSTANTS Names, Files, NoFile

VARIABLES
    status, file, asked,    \* of each name: its state, module file and request
    redo                    \* the file of the restart that is due, or NoFile

vars == <<status, file, asked, redo>>

Init ==
    /\ status \in [Names -> {"absent", "running"}]
    /\ file \in [Names -> Files \cup {NoFile}]
    /\ \A n \in Names : (file[n] = NoFile) <=> (status[n] = "absent")
    /\ asked = [n \in Names |-> "APP_RUN"]
    /\ redo = [n \in Names |-> NoFile]

Becomes(n, s, f, r) ==
    /\ status' = [status EXCEPT ![n] = s]
    /\ file' = [file EXCEPT ![n] = f]
    /\ asked' = [asked EXCEPT ![n] = r]

Start(n, f) ==
    /\ status[n] = "absent"
    /\ Becomes(n, "starting", f, "APP_RUN") /\ UNCHANGED redo

(* Its module or its task could not be created. *)
StartFails(n) ==
    /\ status[n] = "starting"
    /\ Becomes(n, "absent", NoFile, "APP_RUN") /\ UNCHANGED redo

Run(n) ==
    /\ status[n] = "starting"
    /\ Becomes(n, "running", file[n], asked[n]) /\ UNCHANGED redo

Ask(n, r) ==
    /\ status[n] = "running"
    /\ Becomes(n, "running", file[n], r) /\ UNCHANGED redo

Reload(n, f) ==
    /\ status[n] = "running"
    /\ Becomes(n, "running", f, "SYS_RELOAD") /\ UNCHANGED redo

(* ES notices the requests taken so far and gives the applications time to leave. *)
Notice(S) ==
    /\ \A n \in S : status[n] = "running" /\ asked[n] # "APP_RUN"
    /\ status' = [n \in Names |-> IF n \in S THEN "stopping" ELSE status[n]]
    /\ UNCHANGED <<file, asked, redo>>

(* The application leaves by itself: a request already taken stands. *)
Exit(n, r) ==
    /\ status[n] \in {"starting", "running"}
    /\ Becomes(n, "stopping", file[n], IF asked[n] = "APP_RUN" THEN r ELSE asked[n])
    /\ UNCHANGED redo

(* Everything of the application is gone. *)
Remove(n) ==
    /\ status[n] = "stopping"
    /\ Becomes(n, "absent", NoFile, "APP_RUN")
    /\ redo' = [redo EXCEPT ![n] = IF asked[n] \in {"SYS_RESTART", "SYS_RELOAD"}
                                     THEN file[n] ELSE NoFile]

(* The restart begins, or is given up: for want of a slot, or because the  *)
(* ground started an application of that name in between.                  *)
Restart(n) ==
    /\ redo[n] # NoFile
    /\ redo' = [redo EXCEPT ![n] = NoFile]
    /\ \/ status[n] = "absent" /\ Becomes(n, "starting", redo[n], "APP_RUN")
       \/ UNCHANGED <<status, file, asked>>

Next ==
    \/ \E S \in SUBSET Names : Notice(S)
    \/ \E n \in Names :
        \/ StartFails(n) \/ Run(n) \/ Remove(n) \/ Restart(n)
        \/ \E f \in Files : Start(n, f) \/ Reload(n, f)
        \/ \E r \in {"SYS_DELETE", "SYS_RESTART"} : Ask(n, r)
        \/ \E r \in {"APP_EXIT", "APP_ERROR"} : Exit(n, r)

Spec == Init /\ [][Next]_vars
=============================================================================
