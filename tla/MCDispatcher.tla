---- MODULE MCDispatcher ----
(***************************************************************************)
(* An instance of Dispatcher for TLC.                                      *)
(***************************************************************************)
EXTENDS Dispatcher

AllHsaFaults ==
    {"agent", "queue_create", "signal_create", "memory_allocate", "memory_free",
     "deserialize", "executable_create", "load_code_object",
     "inactivate", "signal_destroy", "queue_destroy"}
====
