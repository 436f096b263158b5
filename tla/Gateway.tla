------------------------------ MODULE Gateway -------------------------------
(***************************************************************************)
(* The gateway process (cmd/millibee/cmd_gateway.go): how it starts and    *)
(* stops its parts, and the channel manager (pkg/channels/manager.go),     *)
(* whose dispatcher hands the bus's outbound messages to the channels.     *)
(* The manager's lock is held by StartAll and StopAll for all of their     *)
(* work, and taken by the dispatcher for each look-up.                     *)
(*                                                                         *)
(* The bus is its outbound channel here; MessageBus has the whole of it.   *)
(* A message is its publisher, its number and the channel it is for.       *)
(***************************************************************************)
EXTENDS Naturals, Sequences, FiniteSets

CONSTANTS Known,        \* the channels the configuration may enable
          Internal,     \* constants.IsInternalChannel
          Targets,      \* the channels messages are for
          OutboundCap,  \* capacity of the outbound channel (100 in the code)
          MaxMessages   \* bound: messages per publisher

VARIABLES main,        \* where gatewayCmd is
          live,        \* ctx has not been cancelled
          services,    \* the services that run: cron, heartbeat, devices, agent
          channels,    \* m.channels
          running,     \* the channels with `running` set
          toStart,     \* those the loop of StartAll or StopAll has still to see
          locked,      \* m.mu is held by StartAll or StopAll
          dispatcher,  \* "none", "select", "lookup", "send" or "gone"
          inHand,      \* the message it holds
          outbound,    \* the bus's outbound channel
          waiting,     \* publishers parked on it, with their messages
          published,   \* number of messages of each publisher
          health,      \* the health server: its flag, and whether it listens
          fate         \* history: what became of each message

gatewayVars == <<main, live, services, channels, running, toStart, locked, dispatcher,
                 inHand, outbound, waiting, published, health, fate>>
managerVars == <<channels, running, toStart, locked, dispatcher, inHand>>
flowVars == <<outbound, waiting, published, fate>>

Publishers == {"cron", "devices", "agent"}
Nothing == <<>>

GatewayInit ==
  /\ main = "cron" /\ live = TRUE /\ services = {}
  /\ channels \in SUBSET Known           \* enabled, and constructed without an error
  /\ running = {} /\ toStart = {} /\ locked = FALSE
  /\ dispatcher = "none" /\ inHand = Nothing
  /\ outbound = <<>> /\ waiting = <<>>
  /\ published = [p \in Publishers |-> 0]
  /\ health = [ready |-> FALSE, listens |-> FALSE]
  /\ fate = {}

-----------------------------------------------------------------------------
(* gatewayCmd: the services in their order.  The heartbeat's answers are   *)
(* silent: it publishes through the agent's tools.  A service that is      *)
(* disabled, or fails to start, is passed over.                            *)
Order == <<"cron", "heartbeat", "devices", "StartAll", "channels", "health", "agent", "up">>
After(s) == Order[1 + CHOOSE i \in DOMAIN Order : Order[i] = s]

StartService ==
  /\ main \in {"cron", "heartbeat", "devices", "agent"}
  /\ services' \in IF main = "agent" THEN {services \cup {main}}
                   ELSE {services, services \cup {main}}
  /\ main' = After(main)
  /\ UNCHANGED <<live, managerVars, flowVars, health>>

StartHealth ==
  /\ main = "health" /\ main' = "agent"
  /\ health' \in {[ready |-> TRUE, listens |-> b] : b \in BOOLEAN}
  /\ UNCHANGED <<live, services, managerVars, flowVars>>

(* StartAll.  (Faulty form: the lock is not kept while channels start.)    *)
StartUnlocked ==
  /\ main = "StartAll" /\ main' = "channels"
  /\ IF channels = {} THEN UNCHANGED <<dispatcher, locked, toStart>>
     ELSE dispatcher' = "select" /\ toStart' = channels /\ UNCHANGED locked
  /\ UNCHANGED <<live, services, channels, running, inHand, flowVars, health>>
StartAll ==
  /\ main = "StartAll" /\ main' = "channels"
  /\ IF channels = {} THEN UNCHANGED <<dispatcher, locked, toStart>>
     ELSE dispatcher' = "select" /\ toStart' = channels /\ locked' = TRUE
  /\ UNCHANGED <<live, services, channels, running, inHand, flowVars, health>>

StartChannel(c) ==
  /\ main = "channels" /\ c \in toStart
  /\ toStart' = toStart \ {c}
  /\ running' \in {running, running \cup {c}}
  /\ UNCHANGED <<main, live, services, channels, locked, dispatcher, inHand, flowVars, health>>

AllStarted ==
  /\ main = "channels" /\ toStart = {}
  /\ main' = "health" /\ locked' = FALSE
  /\ UNCHANGED <<live, services, channels, running, toStart, dispatcher, inHand,
                 flowVars, health>>

(* The interrupt: the context first, then the services, the channels last. *)
Interrupt ==
  /\ main = "up" /\ main' = "stopping"
  /\ live' = FALSE
  /\ health' = [ready |-> FALSE, listens |-> FALSE]
  /\ UNCHANGED <<services, managerVars, flowVars>>

StopOrder == <<"devices", "heartbeat", "cron", "agent">>
StopService ==
  /\ main = "stopping" /\ services # {}
  /\ LET next == CHOOSE i \in DOMAIN StopOrder :
                   /\ StopOrder[i] \in services
                   /\ \A j \in 1 .. i - 1 : StopOrder[j] \notin services
     IN  services' = services \ {StopOrder[next]}
  /\ UNCHANGED <<main, live, managerVars, flowVars, health>>

StopAll ==
  /\ main = "stopping" /\ services = {} /\ main' = "StopAll"
  /\ locked' = TRUE /\ toStart' = channels
  /\ UNCHANGED <<live, services, channels, running, dispatcher, inHand, flowVars, health>>

StopChannel(c) ==
  /\ main = "StopAll" /\ c \in toStart
  /\ toStart' = toStart \ {c} /\ running' = running \ {c}
  /\ UNCHANGED <<main, live, services, channels, locked, dispatcher, inHand, flowVars, health>>

Exit ==
  /\ main = "StopAll" /\ toStart = {} /\ main' = "exited"
  /\ locked' = FALSE
  /\ UNCHANGED <<live, services, channels, running, toStart, dispatcher, inHand,
                 flowVars, health>>

-----------------------------------------------------------------------------
(* PublishOutbound by a goroutine of a service.  A round that is under way *)
(* goes on after its service has been told to stop.                        *)
Parked(p) == \E i \in DOMAIN waiting : waiting[i][1] = p
Started(p) == p \in services \/ published[p] > 0

Publish(p, c) ==
  /\ main # "exited" /\ Started(p) /\ ~Parked(p)
  /\ published[p] < MaxMessages
  /\ published' = [published EXCEPT ![p] = @ + 1]
  /\ LET m == <<p, published[p] + 1, c>> IN
     IF Len(outbound) < OutboundCap
     THEN outbound' = Append(outbound, m) /\ UNCHANGED waiting
     ELSE waiting' = Append(waiting, m) /\ UNCHANGED outbound
  /\ UNCHANGED <<main, live, services, managerVars, health, fate>>

-----------------------------------------------------------------------------
(* dispatchOutbound. *)
Take ==
  /\ dispatcher = "select" /\ outbound # <<>> /\ main # "exited"
  /\ inHand' = Head(outbound)
  /\ dispatcher' = "lookup"
  /\ IF waiting = <<>> THEN outbound' = Tail(outbound) /\ UNCHANGED waiting
     ELSE outbound' = Append(Tail(outbound), Head(waiting)) /\ waiting' = Tail(waiting)
  /\ UNCHANGED <<main, live, services, channels, running, toStart, locked, published,
                 health, fate>>

Leave ==
  /\ dispatcher = "select" /\ ~live
  /\ dispatcher' = "gone"
  /\ UNCHANGED <<main, live, services, channels, running, toStart, locked, inHand,
                 flowVars, health>>

(* The loop goes on, whatever becomes of a message.  (Faulty form: an      *)
(* unknown channel ends it.)                                               *)
DropOrEnd(why) == /\ fate' = fate \cup {<<inHand, why>>} /\ inHand' = Nothing
                  /\ dispatcher' = IF why = "unknown" THEN "gone" ELSE "select"
Drop(why) == fate' = fate \cup {<<inHand, why>>} /\ dispatcher' = "select" /\ inHand' = Nothing

SkipInternal ==
  /\ dispatcher = "lookup" /\ inHand[3] \in Internal /\ main # "exited"
  /\ Drop("internal")
  /\ UNCHANGED <<main, live, services, channels, running, toStart, locked, outbound,
                 waiting, published, health>>

Lookup ==
  /\ dispatcher = "lookup" /\ inHand[3] \notin Internal /\ main # "exited"
  /\ ~locked
  /\ IF inHand[3] \in channels
     THEN dispatcher' = "send" /\ UNCHANGED <<inHand, fate>>
     ELSE Drop("unknown")
  /\ UNCHANGED <<main, live, services, channels, running, toStart, locked, outbound,
                 waiting, published, health>>

(* channel.Send: a channel that does not run refuses. *)
Send ==
  /\ dispatcher = "send" /\ main # "exited"
  /\ Drop(IF inHand[3] \in running THEN "sent" ELSE "refused")
  /\ UNCHANGED <<main, live, services, channels, running, toStart, locked, outbound,
                 waiting, published, health>>

MainStep ==
  \/ StartService \/ StartHealth \/ StartAll \/ AllStarted
  \/ StopService \/ StopAll \/ Exit
  \/ \E c \in Known : StartChannel(c) \/ StopChannel(c)
Dispatch == Take \/ Leave \/ SkipInternal \/ Lookup \/ Send

GatewayNext ==
  \/ MainStep \/ Interrupt \/ Dispatch
  \/ \E p \in Publishers, c \in Targets : Publish(p, c)

GatewaySpec == GatewayInit /\ [][GatewayNext]_gatewayVars

-----------------------------------------------------------------------------
Failed(c) == main \notin {"StartAll", "channels"} /\ c \notin running
RefusesOnlyTheDead ==
  \A m \in Publishers \X (1..MaxMessages) \X Targets :
    <<m, "refused">> \in fate' \ fate => Failed(m[3])

(* A message for an enabled channel is refused only if that channel failed *)
(* to start or the gateway is stopping, never because it was still being   *)
(* started, though the dispatcher runs before the channels do              *)
(* (manager.go:95-126, 172-180).                                           *)
RefusedOnlyByTheDead == [][RefusesOnlyTheDead]_gatewayVars
=============================================================================
