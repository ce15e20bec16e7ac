--------------------------- MODULE CommandProcess ---------------------------
(***************************************************************************)
(* What a command promises to the process that runs it, and all that one   *)
(* can see: it decides what to write, writes one file after the other, the *)
(* controllers' results last, and exits; a file that could not be written  *)
(* as a whole makes the exit status other than 0; and it may be killed at  *)
(* any time.  ApplyConfigurationCommand implements it, TestHarness relies  *)
(* on it and on nothing else.                                              *)
(***************************************************************************)
EXTENDS OutputDirectory

VARIABLES out,       \* the files of its output directory
          pending,   \* what it has still to write: [path, content]
          clean,     \* no file was left out or truncated so far
          status     \* "none" before it is started

processVars == <<out, pending, clean, status>>

Running == status \in {"starting", "writing"}
Ended == status \in {"zero", "nonzero", "killed"}

\* Whatever its output directory holds.
ProcessInit ==
    /\ pending = <<>>
    /\ clean = TRUE
    /\ status = "starting"

\* From here on it is clear what will be written.
Decide ==
    /\ status = "starting"
    /\ status' = "writing"
    /\ pending' # <<>> /\ Last(pending').path = ResultsFile
    /\ UNCHANGED <<out, clean>>

\* It exits with an error, or panics, without having written anything.
GiveUp ==
    /\ status = "starting"
    /\ status' = "nonzero"
    /\ UNCHANGED <<out, pending, clean>>

\* The next file is written.
WriteNext ==
    /\ status = "writing"
    /\ pending # <<>>
    /\ pending' = Tail(pending)
    /\ out' = WriteFile(out, Head(pending).path, Head(pending).content)
    /\ UNCHANGED <<clean, status>>

\* Or it is not, or truncated, which is remembered.
WriteFails ==
    /\ status = "writing"
    /\ pending # <<>>
    /\ pending' = Tail(pending)
    /\ out' \in {out, WriteFile(out, Head(pending).path, Truncated)}
    /\ clean' = FALSE
    /\ UNCHANGED status

\* It exits when nothing is left to write; with 0 only if nothing was left out.
ExitWith(code) ==
    /\ status = "writing"
    /\ pending = <<>>
    /\ code = "zero" => clean
    /\ status' = code
    /\ UNCHANGED <<out, pending, clean>>

\* Some of the files that are to come next, but not the last, are left out.
LeaveOut(n) ==
    /\ status = "writing"
    /\ n \in 1..(Len(pending) - 1)
    /\ pending' = SubSeq(pending, n + 1, Len(pending))
    /\ clean' = FALSE
    /\ UNCHANGED <<out, status>>

\* SIGKILL, possibly while a file is being written.
Killed ==
    /\ Running
    /\ status' = "killed"
    /\ out' \in {out} \cup (IF pending = <<>> THEN {} ELSE {WriteFile(out, Head(pending).path, Truncated)})
    /\ UNCHANGED <<pending, clean>>

ProcessNext == \/ Decide \/ GiveUp \/ WriteNext \/ WriteFails \/ Killed
               \/ \E code \in {"zero", "nonzero"} : ExitWith(code)
               \/ \E n \in 1..Len(pending) : LeaveOut(n)

ProcessSpec == ProcessInit /\ [][ProcessNext]_processVars

=============================================================================
