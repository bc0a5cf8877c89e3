---- MODULE Configuration ----
(***************************************************************************)
(* The configuration file (src/src/config): what Config::Config makes of a *)
(* document, and which documents it refuses.                               *)
(*                                                                         *)
(* The TOML parser is external.  A document is of the kind "unset" (there  *)
(* is no INTERCEPT_CONFIG), "unreadable" (no such file, or not TOML), or   *)
(* "toml": then it has sections, which are functions on their keys.  The   *)
(* value of a key may be absent, of another type, or an integer that its   *)
(* C++ type cannot hold.  Of [logs] only agent-log is kept; the rest is in *)
(* the constants of CodeObjectRecorder.                                    *)
(***************************************************************************)
EXTENDS Naturals, Sequences

CONSTANTS
    Absent,         \* the key, or the section, is not there; an empty optional
    Mistyped,       \* the value has another type
    OutOfRange,     \* the integer does not fit the type
    Nothing         \* the empty string

ASSUME ConfigurationAssumption ==
    Absent # Mistyped /\ OutOfRange \notin {Absent, Mistyped, Nothing}
    /\ Nothing \notin {Absent, Mistyped}

\* cpptoml's get_as gives no value for a key that is absent or mistyped: an
\* optional member stays empty, a string becomes empty.
HasValue(v) == v \notin {Absent, Mistyped}
as_optional(v) == IF HasValue(v) THEN v ELSE Absent
value_or_empty(v) == IF HasValue(v) THEN v ELSE Nothing

\* The getters throw for an integer out of range, get_required also for a key
\* without a value.  (The empty string is a value.)
get_required_throws(table, required) ==
    \/ \E key \in DOMAIN table : table[key] = OutOfRange
    \/ \E key \in required : ~HasValue(table[key])

\* A rule none of whose predicates has a value is refused; a mistyped one beside
\* another is left out.
NoPredicates(table, predicates) == \A key \in predicates : ~HasValue(table[key])

ReadTable(table, optionals) ==
    [key \in DOMAIN table |-> IF key \in optionals THEN as_optional(table[key])
                              ELSE value_or_empty(table[key])]
ReadArray(array, optionals) ==
    [i \in DOMAIN array |-> ReadTable(array[i], optionals)]

CoPredicates == {"crc", "id"}
SymbolPredicates == {"crc", "id", "name", "getInfoId"}

get_buffer_throws(table) == get_required_throws(table, {"size"})
get_init_command_throws(table) == get_required_throws(table, {"exec"})
get_trap_handler_throws(table) == get_required_throws(table, {"path", "symbol"})
get_co_substitute_throws(table) ==
    get_required_throws(table, {"path"}) \/ NoPredicates(table, CoPredicates)
get_symbol_substitute_throws(table) ==
    \/ get_required_throws(table, {"replacement", "path"})
    \/ NoPredicates(table, SymbolPredicates)

\* An optional section is what Config starts with: empty strings.
NoCommand == [exec |-> Nothing, retcode |-> Absent]
NoHandler == [path |-> Nothing, symbol |-> Nothing]

\* The constructor throws for the first section it cannot read, and nothing of
\* the document is used.
Config_throws(doc) ==
    doc.kind = "toml" =>
        \/ \E i \in DOMAIN doc.buffers : get_buffer_throws(doc.buffers[i])
        \/ doc.command # Absent /\ get_init_command_throws(doc.command)
        \/ doc.handler # Absent /\ get_trap_handler_throws(doc.handler)
        \/ \E i \in DOMAIN doc.coSubs : get_co_substitute_throws(doc.coSubs[i])
        \/ \E i \in DOMAIN doc.symbolSubs :
              get_symbol_substitute_throws(doc.symbolSubs[i])

Config(doc) ==
    [agentLog |-> value_or_empty(doc.logs.agentLog),
     buffers |-> ReadArray(doc.buffers, {}),
     command |-> IF doc.command = Absent THEN NoCommand
                 ELSE ReadTable(doc.command, {"retcode"}),
     handler |-> IF doc.handler = Absent THEN NoHandler
                 ELSE ReadTable(doc.handler, {}),
     coSubs |-> ReadArray(doc.coSubs, CoPredicates),
     symbolSubs |-> ReadArray(doc.symbolSubs, SymbolPredicates)]
====
