---- MODULE MCAgentInit ----
(***************************************************************************)
(* Instances of AgentInit for TLC: a GPU and a CPU, and three buffers, of  *)
(* which the second is neither exported nor dumped.                        *)
(***************************************************************************)
EXTENDS AgentInit

CONSTANTS gpu, cpu, addr1, size1, addr3, path1, path3, logFile, file, crc, kernel

MCRegionsOf == (gpu :> {"gpu", "host"}) @@ (cpu :> {"host"})
MCBuffers == <<
    [size |-> 1, addrName |-> addr1, sizeName |-> size1, path |-> path1],
    [size |-> 1, addrName |-> Absent, sizeName |-> Absent, path |-> Absent],
    [size |-> 2, addrName |-> addr3, sizeName |-> Absent, path |-> path3]>>

\* A document without anything, one with a little, and one with everything.
Empty == [kind |-> "toml", logs |-> [agentLog |-> Absent], buffers |-> << >>,
          command |-> Absent, handler |-> Absent, coSubs |-> << >>,
          symbolSubs |-> << >>]
Small == [Empty EXCEPT
    !.logs.agentLog = "-",
    !.buffers = SubSeq(MCBuffers, 1, 1),
    !.command = [exec |-> file, retcode |-> Absent],
    !.handler = [path |-> file, symbol |-> kernel],
    !.coSubs = <<[path |-> file, crc |-> crc, id |-> Absent]>>,
    !.symbolSubs = <<[replacement |-> kernel, path |-> file, crc |-> Absent,
                      id |-> 1, name |-> kernel, getInfoId |-> Absent]>>]
Full == [Small EXCEPT
    !.logs.agentLog = logFile,
    !.buffers = MCBuffers,
    !.command.retcode = 0]
SharedFile == [Full EXCEPT !.buffers[3].path = path1]

\* The small document with one value or section that is not there, of the wrong
\* type, empty or too large.
Bad == {Absent, Mistyped, Nothing}
BadInt == {Absent, Mistyped, OutOfRange}
Spoilt ==
    UNION {{[Small EXCEPT !.logs.agentLog = v], [Small EXCEPT !.buffers[1].path = v],
            [Small EXCEPT !.buffers[1].addrName = v], [Small EXCEPT !.command.exec = v],
            [Small EXCEPT !.handler.path = v], [Small EXCEPT !.handler.symbol = v],
            [Small EXCEPT !.coSubs[1].path = v], [Small EXCEPT !.symbolSubs[1].path = v],
            [Small EXCEPT !.symbolSubs[1].replacement = v],
            [Small EXCEPT !.symbolSubs[1].id = Absent, !.symbolSubs[1].name = v]} :
              v \in Bad}
    \cup
    UNION {{[Small EXCEPT !.buffers[1].size = v], [Small EXCEPT !.command.retcode = v],
            [Small EXCEPT !.coSubs[1].crc = v], [Small EXCEPT !.coSubs[1].id = v],
            [Small EXCEPT !.symbolSubs[1].id = v],
            [Small EXCEPT !.symbolSubs[1].getInfoId = v]} : v \in BadInt}
    \cup {[Small EXCEPT !.command = Absent], [Small EXCEPT !.handler = Absent]}

MCDocs == {[kind |-> "unset"], [kind |-> "unreadable"], Empty, Full, SharedFile}
          \cup Spoilt

\* The command must return 1.
MCDocsReturn1 ==
    {[Empty EXCEPT !.command = [exec |-> file, retcode |-> 1]]}
====
