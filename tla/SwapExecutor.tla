---------------------------- MODULE SwapExecutor ----------------------------
(***************************************************************************)
(* The operator's swap command (executor.py SwapExecutor): a quote under   *)
(* caps, the chain gates, an approval when the allowance is short, and the *)
(* swap, each a Safe transaction signed for a nonce and delivered by the   *)
(* relaying account.  Runs take no lock: they run beside one another and   *)
(* beside whatever else spends the two nonces.                             *)
(*                                                                         *)
(* Amounts are small numbers of USDC, a price is the stock one USDC buys,  *)
(* and gas is left to a choice.                                            *)
(***************************************************************************)
EXTENDS Integers, FiniteSets

CONSTANTS
    Run,          \* runs of the command
    Amounts,      \* amounts asked for
    MaxSwap,      \* per-swap cap
    StandingCap,  \* the allowance an approval sets
    Prices,       \* stock per USDC
    Slip,         \* stock per USDC the minimum gives away
    Purse,        \* USDC in the Safe at first
    MaxOthers     \* deliveries of others

(* Amounts of the command line may be negative; Purse, prices and the      *)
(* minimum's margin are not; there is a price to start from.               *)
ASSUME PolicyAssumption ==
    /\ {MaxSwap, StandingCap, Purse, Slip, MaxOthers} \subseteq Nat
    /\ 0 < MaxSwap /\ MaxSwap <= StandingCap
    /\ Amounts \subseteq Int /\ Prices \subseteq Nat
    /\ \E x \in Prices : \A y \in Prices : y <= x

VARIABLES
    ledger,   \* the chain: both nonces, allowance, USDC, stock per USDC, deliveries
    mempool,     \* deliveries a node has and no block has
    swapRun   \* every run

swapVars == <<ledger, mempool, swapRun>>

Absent == [command |-> "none", at |-> "new", amount |-> 0, least |-> 0, allowance |-> 0,
           nonce |-> 0, relayer |-> 0, expired |-> FALSE, rows |-> {}, outcome |-> "none"]

SwapInit ==
    /\ ledger = [safe |-> 0, relayer |-> 0, allowance |-> 0, usdc |-> Purse,
                 price |-> CHOOSE x \in Prices : \A y \in Prices : y <= x,
                 mined |-> {}, others |-> 0]
    /\ mempool = {}
    /\ swapRun = [r \in Run |-> Absent]

Own(r, role) == {d \in ledger.mined : d.run = r /\ d.role = role}
Sent(r, role) == {d \in mempool \cup ledger.mined : d.run = r /\ d.role = role}

Set(r, new) == swapRun' = [swapRun EXCEPT ![r] = new] /\ UNCHANGED <<ledger, mempool>>
End(r, outcome) == Set(r, [swapRun[r] EXCEPT !.at = "ended", !.outcome = outcome])

-----------------------------------------------------------------------------
(* The command, its quote and its gates.                                   *)

(* Registry, listing, discovery and reserve, as the sources tell them.     *)
Sources == {"verified", "unverified", "unlisted", "no pool", "shallow"}

Quoted_Uncapped(amount, sources, age) == 0 < amount /\ sources = "verified" /\ age = "fresh"

Quoted(amount, sources, age) ==
    /\ 0 < amount /\ amount <= MaxSwap
    /\ sources = "verified" /\ age = "fresh"

Quote(r) ==
    /\ swapRun[r].at = "new"
    /\ \E command \in {"quote", "dry-run", "execute", "unconfirmed"}, amount \in Amounts,
          sources \in Sources, age \in {"fresh", "stale"} :
           Set(r, IF command = "unconfirmed" \/ ~Quoted(amount, sources, age)
                  THEN [swapRun[r] EXCEPT !.command = command, !.at = "ended", !.outcome = "refused"]
                  ELSE [swapRun[r] EXCEPT !.command = command, !.amount = amount,
                            !.least = amount * (ledger.price - Slip),
                            !.at = IF command = "quote" THEN "ended" ELSE "preflight",
                            !.outcome = IF command = "quote" THEN "reported" ELSE "none"])

(* Gas price and the Safe's gas money, then allowance and Safe nonce.      *)
Preflight(r) ==
    /\ swapRun[r].at = "preflight"
    /\ \/ End(r, "refused")
       \/ Set(r, [swapRun[r] EXCEPT
              !.at = IF swapRun[r].command = "dry-run" THEN "report" ELSE "relayer",
              !.allowance = ledger.allowance, !.nonce = ledger.safe])

(* The pending count of the relayer, as far as the node sees its pool.     *)
RelayerViews ==
    {n \in ledger.relayer..(ledger.relayer + Cardinality(mempool)) :
        \A k \in ledger.relayer..(n - 1) : \E d \in mempool : d.relayer = k}

ReadRelayer(r) ==
    /\ swapRun[r].at = "relayer"
    /\ \E n \in RelayerViews :
           Set(r, [swapRun[r] EXCEPT
               !.at = IF swapRun[r].allowance < swapRun[r].amount THEN "approve" ELSE "swap", !.relayer = n])

(* A dry run builds and estimates, and broadcasts nothing.                 *)
Report(r) == swapRun[r].at = "report" /\ End(r, "reported")

(* A read that cannot complete, and the deadline going by.                 *)
Unavailable(r) ==
    /\ swapRun[r].at \in {"preflight", "relayer", "report", "approve", "renonce", "swap"}
    /\ End(r, "failed")

Expire(r) ==
    /\ swapRun[r].at \in {"approve", "await approval", "renonce", "swap", "await swap"}
    /\ ~swapRun[r].expired
    /\ Set(r, [swapRun[r] EXCEPT !.expired = TRUE])

-----------------------------------------------------------------------------
(* The two deliveries.                                                     *)

SignedFor(r, role) ==
    [run |-> r, role |-> role, nonce |-> swapRun[r].nonce, relayer |-> swapRun[r].relayer]

(* The acknowledgement may be lost with or without the delivery.           *)
Broadcast(r, role, waiting) ==
    \/ /\ swapRun[r].relayer >= ledger.relayer
       /\ mempool' = mempool \cup {SignedFor(r, role)}
       /\ swapRun' = [swapRun EXCEPT ![r].at = waiting, ![r].rows = @ \cup {role}]
       /\ UNCHANGED ledger
    \/ \E arrived \in BOOLEAN :
           /\ arrived => swapRun[r].relayer >= ledger.relayer
           /\ mempool' = IF arrived THEN mempool \cup {SignedFor(r, role)} ELSE mempool
           /\ swapRun' = [swapRun EXCEPT ![r].at = "ended", ![r].outcome = "failed"]
           /\ UNCHANGED ledger

Usable(nonce) == nonce >= ledger.safe

(* Nonce read again, built, proven, estimated; any of them may refuse.     *)
Deliver(r, role, waiting) ==
    \/ End(r, "refused")
    \/ Usable(swapRun[r].nonce) /\ Broadcast(r, role, waiting)

Approve(r) == swapRun[r].at = "approve" /\ Deliver(r, "approval", "await approval")

Swap(r) == swapRun[r].at = "swap" /\ Deliver(r, "swap", "await swap")

AfterApproval_Any(r, d) ==
    Set(r, [swapRun[r] EXCEPT !.at = "renonce", !.relayer = @ + 1])
(* The swap is never sent after a failed setup.                            *)
AfterApproval(r, d) ==
    IF d.executed THEN Set(r, [swapRun[r] EXCEPT !.at = "renonce", !.relayer = @ + 1])
    ELSE End(r, "reverted")

(* The receipt of the delivery waited for.                                 *)
Receipt(r) ==
    \/ /\ swapRun[r].at = "await approval"
       /\ \E d \in Own(r, "approval") : AfterApproval(r, d)
    \/ /\ swapRun[r].at = "await swap"
       /\ \E d \in Own(r, "swap") : End(r, IF d.executed THEN "done" ELSE "reverted")

(* No receipt in time, or the endpoint stays unreadable.                   *)
GiveUp(r) == swapRun[r].at \in {"await approval", "await swap"} /\ End(r, "failed")

(* The confirmed approval advanced the Safe nonce: read it.                *)
Renonce(r) ==
    /\ swapRun[r].at = "renonce"
    /\ Set(r, [swapRun[r] EXCEPT !.at = "swap", !.nonce = ledger.safe])

-----------------------------------------------------------------------------
(* The chain and the others.                                               *)

(* execTransaction does all or nothing.                                    *)
Executes(d) ==
    /\ d.nonce = ledger.safe
    /\ d.role = "swap" =>
           LET run == swapRun[d.run]
           IN  /\ ledger.allowance >= run.amount /\ ledger.usdc >= run.amount
               /\ run.amount * ledger.price >= run.least
               /\ ~run.expired

MineSwap(d) ==
    /\ d.relayer = ledger.relayer
    /\ mempool' = {e \in mempool : e.relayer > d.relayer}
    /\ LET done == Executes(d)
           paid == IF done /\ d.role = "swap" THEN swapRun[d.run].amount ELSE 0
       IN  ledger' = [ledger EXCEPT
               !.relayer = @ + 1, !.safe = IF done THEN @ + 1 ELSE @,
               !.usdc = @ - paid,
               !.allowance = IF done /\ d.role = "approval" THEN StandingCap ELSE @ - paid,
               !.mined = @ \cup {[run |-> d.run, role |-> d.role, executed |-> done,
                                  paid |-> paid, got |-> paid * ledger.price]}]
    /\ UNCHANGED swapRun

(* The cycle delivers through the same relayer, another owner through his. *)
Other ==
    /\ ledger.others < MaxOthers
    /\ \E mine \in BOOLEAN :
           /\ ledger' = [ledger EXCEPT !.others = @ + 1, !.safe = @ + 1,
                                       !.relayer = IF mine THEN @ + 1 ELSE @]
           /\ mempool' = IF mine THEN {e \in mempool : e.relayer > ledger.relayer} ELSE mempool
    /\ UNCHANGED swapRun

Trade ==
    /\ \E x \in Prices \ {ledger.price} : ledger' = [ledger EXCEPT !.price = x]
    /\ UNCHANGED <<mempool, swapRun>>

SwapNext ==
    \/ \E r \in Run :
           \/ Quote(r) \/ Preflight(r) \/ ReadRelayer(r) \/ Report(r) \/ Unavailable(r) \/ Expire(r)
           \/ Approve(r) \/ Swap(r) \/ Receipt(r) \/ GiveUp(r) \/ Renonce(r)
    \/ \E d \in mempool : MineSwap(d)
    \/ Other \/ Trade

SwapSpec == SwapInit /\ [][SwapNext]_swapVars

-----------------------------------------------------------------------------
(* Properties.                                                             *)

SwapTypeOK ==
    /\ ledger.usdc \in 0..Purse /\ ledger.allowance \in 0..StandingCap
    /\ \A r \in Run :
           /\ swapRun[r].outcome \in {"none", "reported", "refused", "failed", "reverted", "done"}
           /\ swapRun[r].amount \in 0..MaxSwap
           /\ swapRun[r].at = "ended" <=> swapRun[r].outcome # "none"
           /\ swapRun[r].rows \subseteq {"approval", "swap"}

(* What a run tells its operator: done is a swap of the amount at no less  *)
(* than the quoted minimum; reverted, that no swap of it was made; a dry   *)
(* run leaves nothing behind; and no swap is ever sent behind an approval  *)
(* it needed that was not executed (executor.py:1986).  "Nothing was       *)
(* broadcast" (executor.py:2015, :2310) is so of a refusal unless the run  *)
(* had its approval confirmed: then that is on the chain, and only the     *)
(* swap was never sent.                                                    *)
RunsTellTruth ==
    \A r \in Run :
        LET run == swapRun[r]
        IN  /\ run.outcome = "done" =>
                   \E d \in Own(r, "swap") :
                       d.executed /\ d.paid = run.amount /\ d.got >= run.least
            /\ run.outcome = "reverted" =>
                   \A d \in Sent(r, "swap") : d \in ledger.mined /\ ~d.executed
            /\ run.outcome = "refused" =>
                   /\ Sent(r, "swap") = {}
                   /\ \A d \in Sent(r, "approval") : d \in ledger.mined /\ d.executed
            /\ run.command \in {"quote", "dry-run", "unconfirmed"} =>
                   Sent(r, "swap") \cup Sent(r, "approval") = {}
            /\ run.allowance < run.amount /\ Sent(r, "swap") # {} =>
                   \E d \in Own(r, "approval") : d.executed
=============================================================================
