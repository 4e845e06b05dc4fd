-------------------------------- MODULE TradeLife --------------------------------
(***************************************************************************)
(* What the paper executor promises (backend/paper.py:3-4): each symbol is *)
(* taken through "idle -> quoted -> filled -> manage -> closed", one trade *)
(* at a time, and the account changes by the trades that close.  A fill is *)
(* managed in the step that makes it, and a closed symbol is idle again.   *)
(*                                                                         *)
(* The executor's tasks, awaits, books, prices and stops are not seen      *)
(* here; PaperExecutor implements this under ImplementsTradeLife.          *)
(***************************************************************************)
EXTENDS Integers

CONSTANTS
    Symbols,
    Margin      \* largest loss of a trade

VARIABLES
    life,       \* "idle", "quoted" or "managed", per symbol
    balance,    \* of the simulated account, 0 at its start
    trades,     \* trades ever closed
    killed      \* the kill switch

vars == <<life, balance, trades, killed>>

Init ==
    /\ life = [s \in Symbols |-> "idle"]
    /\ balance = 0 /\ trades = 0 /\ killed = FALSE

Becomes(s, from, to) == life[s] = from /\ life' = [life EXCEPT ![s] = to]

\* Nothing is quoted once the switch is set; what is quoted may still fill.
Quote(s) ==
    /\ ~killed /\ Becomes(s, "idle", "quoted")
    /\ UNCHANGED <<balance, trades, killed>>

Cancel(s) == Becomes(s, "quoted", "idle") /\ UNCHANGED <<balance, trades, killed>>

Fill(s) == Becomes(s, "quoted", "managed") /\ UNCHANGED <<balance, trades, killed>>

\* A trade is booked once, when its symbol is freed, and loses its margin at most.
Close(s) ==
    /\ Becomes(s, "managed", "idle")
    /\ balance' >= balance - Margin /\ trades' = trades + 1
    /\ UNCHANGED killed

\* A session starts with a new account, whatever is open.
Fund == balance' = 0 /\ UNCHANGED <<life, trades, killed>>

\* KILL ALL or a kill check sets the switch, run takes it back.
Switch(on) == killed' = on /\ UNCHANGED <<life, balance, trades>>

Next ==
    \/ \E s \in Symbols : Quote(s) \/ Cancel(s) \/ Fill(s) \/ Close(s)
    \/ Fund
    \/ \E on \in BOOLEAN : Switch(on)

Spec == Init /\ [][Next]_vars
=================================================================================
