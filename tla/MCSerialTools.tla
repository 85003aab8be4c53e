--------------------------- MODULE MCSerialTools ----------------------------
(*****************************************************************************)
(* The host tools that talk to a board over a serial port, each on a line of *)
(* its own: the MinCore driver called again and again ("exchange") and from  *)
(* main() ("main"), the packet tool run several times over one line, and the *)
(* ULX3S tool. They do not interact; Init picks the one that runs and the    *)
(* others rest in their initial state. The ULX3S request is longer than its  *)
(* reply, so that the error bytes of a torn request can make up a whole      *)
(* answer.                                                                   *)
(*****************************************************************************)
EXTENDS MinCoreUart

CONSTANTS OperandValues, PacketRuns, PacketLate, PacketDamage,
          Ulx3sOperands, Ulx3sReply, DrainMax, Ulx3sRuns, Ulx3sDamage

VARIABLE machine   \* the one that runs; the others are at rest
VARIABLES p_run, p_args, p_stage, p_phase, p_exit, p_rxbuf, p_air, p_line, p_partial,
          p_staged, p_retired, p_last, p_damage
VARIABLES u_run, u_args, u_pc, u_sent, u_got, u_exit, u_rx, u_air, u_line, u_held,
          u_answer, u_harmed, u_damage

MCRequestLength == [o \in Operations |-> IF o = "set" THEN 2 ELSE 1]
MCResponseLength ==
    [o \in Operations |-> IF o = "set" THEN 2 ELSE IF o = "status" THEN 1 ELSE 0]

\* The arguments and the checkout while main() does not run.
NoArgs == [mode |-> "dry", evidence |-> FALSE, vector |-> FALSE]
NoGit == [known |-> FALSE, place |-> Outside, changed |-> {}]

Packet == INSTANCE PacketRun WITH
      Values <- OperandValues, MaxRuns <- PacketRuns, MaxLate <- PacketLate,
      MaxDamage <- PacketDamage, run <- p_run, args <- p_args,
      stage <- p_stage, phase <- p_phase, exit <- p_exit, rxbuf <- p_rxbuf, air <- p_air,
      line <- p_line, partial <- p_partial, staged <- p_staged, retired <- p_retired,
      last <- p_last, damage <- p_damage
packetVars == <<p_run, p_args, p_stage, p_phase, p_exit, p_rxbuf, p_air, p_line, p_partial,
          p_staged, p_retired, p_last, p_damage>>
ASSUME PacketAssumption == Packet!RunAssumption

Ulx3s == INSTANCE Ulx3sUart WITH
      Values <- OperandValues, Operands <- Ulx3sOperands, Reply <- Ulx3sReply,
      MaxRuns <- Ulx3sRuns, MaxDamage <- Ulx3sDamage, run <- u_run, args <- u_args,
      pc <- u_pc, sent <- u_sent, got <- u_got, exit <- u_exit, rx <- u_rx, air <- u_air,
      line <- u_line, held <- u_held, answer <- u_answer, harmed <- u_harmed,
      damage <- u_damage
ulx3sVars == <<u_run, u_args, u_pc, u_sent, u_got, u_exit, u_rx, u_air, u_line, u_held,
          u_answer, u_harmed, u_damage>>
ASSUME Ulx3sAssumption == Ulx3s!UartAssumption

MCVars == <<machine, vars, mainVars, packetVars, ulx3sVars>>

-----------------------------------------------------------------------------
Machines == {"exchange", "main", "packet", "ulx3s"}

MCInit ==
    /\ machine \in Machines
    /\ MainInit
    /\ machine = "main" \/ (args = NoArgs /\ git = NoGit)
    /\ machine = "exchange" \/ rxbuf = <<>>
    /\ Packet!Init
    /\ Ulx3s!Init

MCNext ==
    \/ /\ machine = "exchange" /\ Next
       /\ UNCHANGED <<machine, mainVars, packetVars, ulx3sVars>>
    \/ /\ machine = "main" /\ MainNext
       /\ UNCHANGED <<machine, packetVars, ulx3sVars>>
    \/ /\ machine = "packet" /\ Packet!Next
       /\ UNCHANGED <<machine, vars, mainVars, ulx3sVars>>
    \/ /\ machine = "ulx3s" /\ Ulx3s!Next
       /\ UNCHANGED <<machine, vars, mainVars, packetVars>>

MCSpec == /\ MCInit /\ [][MCNext]_MCVars
          /\ WF_vars(machine \in {"exchange", "main"} /\ Expire)
          /\ WF_vars(machine \in {"exchange", "main"} /\ NoBudget)
          /\ WF_vars(machine \in {"exchange", "main"} /\ AbandonCall)
          /\ WF_packetVars(machine = "packet" /\ Packet!CallRaises)
          /\ WF_packetVars(machine = "packet" /\ (Packet!Break \/ Packet!Settled))
          /\ WF_packetVars(machine = "packet" /\ (Packet!Drain \/ Packet!Conclude))
          /\ WF_ulx3sVars(machine = "ulx3s" /\ Ulx3s!Process)
          /\ WF_ulx3sVars(machine = "ulx3s" /\ Ulx3s!Board)
-----------------------------------------------------------------------------
(* Properties of the instances, by the names of their modules *)

\* A success of the packet tool is its own, however late replies are, as long as no
\* more than PacketLate of them are outstanding when a port is opened.
SuccessIsOwn == Packet!SuccessIsOwn

\* Both verdicts of the ULX3S tool are about its own run and its own board.
VerdictIsTrue == Ulx3s!VerdictIsTrue

\* No tool waits for ever: an exchange of the MinCore driver, a run of the
\* packet tool and a run of the ULX3S tool end whatever the port does.
EveryRunEnds == ExchangeTerminates /\ Packet!RunEnds /\ Ulx3s!RunEnds
=============================================================================
