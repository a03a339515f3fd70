------------------------------ MODULE KernelModule ------------------------------
(***************************************************************************)
(* Loading and unloading the modules of les29 (sys_module), les30 (the     *)
(* firewall) and les31 (ping), while packets and users call their          *)
(* handlers.  The kernel frees the module when its init function fails or  *)
(* its exit function returns.  It waits for running sysfs handlers when an *)
(* attribute goes, and for running hooks when a hook goes.                 *)
(***************************************************************************)
VARIABLES kind,       \* which of the modules
          module,     \* control point of mod_start and mod_exit
          hooked,     \* nf_ops are registered
          attribute,  \* kobjAttr has its file
          inside,     \* handlers that run
          failed,     \* history: mod_start failed
          oops        \* a handler ran that is no longer in memory

vars == <<kind, module, hooked, attribute, inside, failed, oops>>

Handlers == {"capture", "show or store"}

Init == /\ kind = "none" /\ module = "out" /\ hooked = FALSE /\ attribute = FALSE
        /\ inside = {} /\ failed = FALSE /\ oops = FALSE

Insmod == /\ module = "out"
          /\ kind' \in {"sys_module", "firewall", "ping"}
          /\ module' = IF kind' = "sys_module" THEN "create" ELSE "register"
          /\ UNCHANGED <<hooked, attribute, inside, failed, oops>>

Register == /\ module = "register"
            /\ hooked' \in BOOLEAN
            /\ module' = "create"
            /\ UNCHANGED <<kind, attribute, inside, failed, oops>>

(* When sysfs_create_file fails only the kobject is given back.             *)
Create == /\ module = "create"
          /\ attribute' \in BOOLEAN
          /\ module' = IF attribute' THEN "return" ELSE "freed"
          /\ failed' = ~attribute'
          /\ oops' = (failed' /\ inside # {})
          /\ UNCHANGED <<kind, hooked, inside>>

(* The firewall returns what the registration of its hook returned; the     *)
(* ping module returns 0.                                                   *)
Return == /\ module = "return"
          /\ failed' = (kind = "firewall" /\ ~hooked)
          /\ module' = IF failed' THEN "freed" ELSE "live"
          /\ oops' = (failed' /\ inside # {})
          /\ UNCHANGED <<kind, hooked, attribute, inside>>

(* rmmod: attributes hold no reference, so the module may always go.        *)
Put == /\ module = "live"
       /\ attribute' = FALSE
       /\ module' = IF kind = "sys_module" THEN "wait" ELSE "unregister"
       /\ UNCHANGED <<kind, hooked, inside, failed, oops>>

(* Mutant: it waits for the hook before it takes it away.                   *)
UnregisterIdle == /\ module = "unregister" /\ inside = {}
                  /\ hooked' = FALSE
                  /\ module' = "wait"
                  /\ UNCHANGED <<kind, attribute, inside, failed, oops>>

Unregister == /\ module = "unregister" /\ "show or store" \notin inside
              /\ hooked' = FALSE
              /\ module' = "wait"
              /\ UNCHANGED <<kind, attribute, inside, failed, oops>>

(* Mutant: nobody waits for handlers that run.                              *)
FreeAtOnce == /\ module = "wait"
              /\ module' = "freed"
              /\ oops' = (inside # {})
              /\ UNCHANGED <<kind, hooked, attribute, inside, failed>>

Free == /\ module = "wait" /\ inside = {}
        /\ module' = "freed"
        /\ UNCHANGED <<kind, hooked, attribute, inside, failed, oops>>

(* A packet, or a user.  A handler that runs when the module is freed, or   *)
(* is called after it, is not there any more.                               *)
Enter(h) == /\ h \notin inside
            /\ IF h = "capture" THEN hooked ELSE attribute
            /\ inside' = inside \cup {h}
            /\ oops' = (oops \/ module = "freed")
            /\ UNCHANGED <<kind, module, hooked, attribute, failed>>

Leave(h) == /\ h \in inside
            /\ inside' = inside \ {h}
            /\ UNCHANGED <<kind, module, hooked, attribute, failed, oops>>

Next == \/ Insmod \/ Register \/ Create \/ Return \/ Put \/ Unregister \/ Free
        \/ \E h \in Handlers : Enter(h) \/ Leave(h)

Fairness == WF_vars(Unregister \/ Free) /\ \A h \in Handlers : WF_vars(Leave(h))

Spec == Init /\ [][Next]_vars /\ Fairness

-----------------------------------------------------------------------------
(* Properties *)

TypeOK == /\ kind \in {"none", "sys_module", "firewall", "ping"}
          /\ module \in {"out", "register", "create", "return", "live", "unregister", "wait",
                         "freed"}
          /\ {hooked, attribute, failed, oops} \subseteq BOOLEAN
          /\ inside \subseteq Handlers

(* A packet or a user finds freed code only after a load that failed, and   *)
(* then only what that load left behind: the hook when the attribute could  *)
(* not be created, the attribute when the firewall's hook was refused.      *)
FreedCodeOnlyAfterFailure ==
    /\ oops => failed
    /\ module = "freed" /\ ~failed => ~hooked /\ ~attribute
    /\ module = "freed" => ~(hooked /\ attribute)

(* A firewall that is loaded filters and can be configured; a loaded ping   *)
(* module may lack its hook.                                                *)
LoadedWorks == module = "live" => attribute /\ (kind = "firewall" => hooked)

(* However often the handlers are called, an unload that began comes to its *)
(* end.                                                                     *)
UnloadEnds == module \in {"unregister", "wait"} ~> module = "freed"

(* A module works while it is loaded, and its handlers are not called when  *)
(* it is gone, unless its loading failed.                                   *)
LoadedOrGone == FreedCodeOnlyAfterFailure /\ LoadedWorks
=============================================================================
