--------------------------------- MODULE Machine ---------------------------------
(***************************************************************************)
(* A project's life: it is set up (Setup), a doctor may look at it at any  *)
(* time (Doctor), and once its shim is there it is opened and lived in     *)
(* (WorldFiles).  The shim that was written is what ties the two: its      *)
(* --on-broken-world, or the absence of one, is the mode of every hook.    *)
(* Before it is opened the files of WorldFiles rest as they are at first;  *)
(* afterwards the variables of Setup rest at one value, of which none of   *)
(* its properties says anything: what the project owes to its setup is the *)
(* shim.                                                                   *)
(***************************************************************************)
EXTENDS WorldFiles, Doctor

CONSTANT Over   \* what the variables of Setup hold when its part is over

ASSUME OverAssumption == Over # Idle

VARIABLE opened

machine_vars == <<opened, setup_vars, vars>>

MachineInit ==
  /\ opened = FALSE
  /\ SetupInit
  /\ Init /\ mode = "closed"

\* run_with_broken_world_mode: a shim without the flag falls back to the last good world.
parse_broken_world_mode(of) == IF of = "default" THEN "last-good" ELSE of

Open ==
  /\ ~opened /\ setup = Idle
  /\ \E s \in shim["project"] :
       /\ s.text = "init"
       /\ mode' = parse_broken_world_mode(s.mode)
  /\ opened' = TRUE
  /\ setup' = Over /\ promised' = {} /\ touched' = TRUE /\ lost' = Scopes
  /\ at_home' = Over /\ settings' = Over /\ given' = Over /\ shim' = Over /\ manifest' = Over
  /\ last_good' = Over /\ kernel' = Over /\ ignored' = Over /\ switches' = Over /\ env' = Over
  /\ installs' = Over /\ changes' = Over
  /\ UNCHANGED <<files, console, hook, counters, history>>

MachineNext ==
  \/ ~opened /\ SetupNext /\ UNCHANGED <<opened, vars>>
  \/ Open
  \/ opened /\ Next /\ UNCHANGED <<opened, setup_vars>>

MachineSpec == MachineInit /\ [][MachineNext]_machine_vars
=============================================================================
