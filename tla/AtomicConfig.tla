----------------------------- MODULE AtomicConfig -----------------------------
(* What update_runtime_group_config() promises of a configuration several      *)
(* writers share (src/thalovant/control.py 1373-1422): each change is applied  *)
(* to the configuration as it then is, at most once, and a writer is told the  *)
(* truth: a change that went through is there, one that met a conflict is not. *)
CONSTANTS Writers,
          Configs,        \* the configurations
          Changed(_, _)   \* Changed(w, c): what the change of w makes of c

VARIABLES config,   \* the stored configuration
          landed,   \* writers whose change was applied
          told      \* what each writer was told: "none", "ok", "conflict", "failed"

atomicVars == <<config, landed, told>>

AtomicInit ==
  /\ config \in Configs /\ landed = {} /\ told = [w \in Writers |-> "none"]

Apply(w) ==
  /\ w \notin landed /\ told[w] # "conflict"
  /\ landed' = landed \cup {w} /\ config' = Changed(w, config)
  /\ UNCHANGED told

Tell(w, what) ==
  /\ told[w] = "none"
  /\ what = "ok" => w \in landed
  /\ what = "conflict" => w \notin landed
  /\ told' = [told EXCEPT ![w] = what]
  /\ UNCHANGED <<config, landed>>

AtomicNext == \E w \in Writers : Apply(w) \/ \E what \in {"ok", "conflict", "failed"} : Tell(w, what)

AtomicSpec == AtomicInit /\ [][AtomicNext]_atomicVars
=============================================================================
