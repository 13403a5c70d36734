------------------------------ MODULE MCConsole -----------------------------
(***************************************************************************)
(* The console, for TLC: its keyboard, its screen, what the hub pushes to  *)
(* it, and how a connection becomes one, a behaviour being one of these.   *)
(***************************************************************************)
EXTENDS ConsoleUi, ConsoleKeys, ConsoleFeed, ConsoleGate

StatusOnly == <<"status">>

(* One slot for whole logins, or two for three connections that only       *)
(* connect, stall and are replaced.                                        *)
OneSlot  == [preauth |-> 1, preauthip |-> 1, sessions |-> 1]
TwoSlots == [preauth |-> 2, preauthip |-> 2, sessions |-> 1]
OneOrTwo == {OneSlot, TwoSlots}
LoginBound ==
    IF lim = OneSlot THEN ssh[3].at = "none" /\ ssh[1].ip = ssh[3].ip
    ELSE edits = 0 /\ \A i \in Conns : ssh[i].user = NoName

VARIABLE part
consoleVars == <<part, uiVars, keyVars, feedVars, gateVars>>

ConsoleInit ==
    /\ part \in {"ui", "keys", "feed", "gate"} /\ UiInit /\ KeysInit /\ FeedInit /\ GateInit
    /\ records["n1"] = "k1" /\ (part # "gate" \/ records["n2"] = NoKey => lim = OneSlot)
    /\ (part # "gate" => records["n2"] = NoKey) /\ (part # "ui" => ui.line)
    /\ (part # "keys" => terminal.nl = <<"cr">> /\ ref.line)
ConsoleNext ==
    \/ part = "ui" /\ UiNext /\ UNCHANGED <<part, keyVars, feedVars, gateVars>>
    \/ part = "keys" /\ KeysNext /\ UNCHANGED <<part, uiVars, feedVars, gateVars>>
    \/ part = "feed" /\ FeedNext /\ UNCHANGED <<part, uiVars, keyVars, gateVars>>
    \/ part = "gate" /\ GateNext /\ LoginBound' /\ UNCHANGED <<part, uiVars, keyVars, feedVars>>

ConsoleSpec == ConsoleInit /\ [][ConsoleNext]_consoleVars
=============================================================================
