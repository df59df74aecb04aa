------------------------------- MODULE MCMotor402 ------------------------------
(* One motor and its drive; the modes are in the .cfg files. *)
EXTENDS Motor402, TLC

\* The drive has neither faults nor homing, the stack reports errors, nobody switches
\* the mode.
Plain == [homing |-> NoMode, method |-> FALSE, services |-> {},
          inits |-> 2, app |-> FALSE, switches |-> "often", errors |-> TRUE, faults |-> 0]

\* A drive that faults while services are called, an application that switches
\* between modes, once beside a shutdown, and homing that is given up and
\* tried again.
SafetySetups ==
  {[Plain EXCEPT !.services = {"recover", "halt"}, !.faults = 1, !.inits = 1],
   [Plain EXCEPT !.app = TRUE],
   [Plain EXCEPT !.app = TRUE, !.switches = "once", !.services = {"shutdown"}, !.inits = 1,
                 !.errors = FALSE]}
    \cup {[Plain EXCEPT !.homing = m, !.method = TRUE, !.services = {"shutdown"}] : m \in Modes}

\* Two calls of init without a homing method, one with it; halt and recover, of a
\* drive that faults or of a stack that fails; and an application beside a halt.
LiveSetups ==
  {[Plain EXCEPT !.inits = 1, !.app = TRUE, !.services = {"halt"}],
   [Plain EXCEPT !.inits = 1, !.services = {"recover", "halt"}],
   [Plain EXCEPT !.inits = 1, !.services = {"recover", "halt"}, !.faults = 2, !.errors = FALSE]}
    \cup {[Plain EXCEPT !.homing = m, !.services = {"shutdown"}] : m \in Modes}
    \cup {[Plain EXCEPT !.homing = m, !.method = TRUE, !.services = {"shutdown"},
                        !.inits = 1] : m \in Modes}

\* Modes are compared only; the run of safety properties makes no difference
\* between them.
ModesAlike == Permutations(Modes)
===============================================================================
