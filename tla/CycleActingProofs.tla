-------------------------- MODULE CycleActingProofs --------------------------
(* Theorems about CycleActing, for any board, any number of positions and  *)
(* any room for dust.                                                      *)
EXTENDS CycleActing, TLAPS

\* Steps that command an NFT of the book, and stages that carry a step out.
Commanding == Exits \cup {"recenter", "move"}
Working == {"preflight", "unstake", "withdraw", "swap", "mint", "stake", "sell"}

\* A pool is tracked only after something was minted in it.
Minted == \A p \in disk.tracked \cup book.tracked : custody[p] # "none"

\* What is being done is a step of the plan that is not ahead any more, and a
\* replacement names its pool.
Placed == /\ \A s \in steps : s.kind = "move" => s.to \in Board
          /\ stage \in Working => doing \in steps /\ doing \notin ahead

\* Nothing is ahead outside the acting.
Quiet == stage \in {"idle", "decide", "restake", "last"} => ahead = {}

\* The pools whose exits the plan under way cools down.
Cooling == {s.of : s \in {t \in steps : t.kind \in Cooled}}

\* The saved book holds every cooldown that is due, save those of the plan
\* under way, and the working book the same ones; only a plan that was decided
\* on cools anything.
Cool == /\ due \subseteq disk.cooling \cup Cooling
        /\ stage # "idle" => book.cooling = disk.cooling
        /\ stage \in {"idle", "decide"} => steps = {}

\* Nothing that is entered is cooling, or about to.
Entered == \A s \in steps :
               /\ s.kind = "enter" => s.of \notin disk.cooling \cup Cooling
               /\ s.kind = "move" => s.to \notin disk.cooling \cup Cooling

\* No two steps of a plan command the same NFT.
Apart == \A s, t \in steps : s.kind \in Commanding /\ t.kind \in Commanding /\ s # t => s.of # t.of

\* What is still to be commanded lives, and so does what is commanded now.
AheadLive == \A s \in ahead : s.kind \in Commanding => custody[s.of] \in Live
Commanded == stage \in {"preflight", "unstake", "withdraw"} =>
                 doing.kind \in Commanding /\ custody[doing.of] \in Live

ActInv == /\ ActTypeOK /\ Minted /\ Placed /\ Quiet /\ Cool /\ Apart /\ AheadLive /\ Commanded
          /\ Entered

USE ActingAssumption

\* The initial state satisfies the inductive invariant.
LEMMA ActInvInit == ActInit => ActInv
  <1> SUFFICES ASSUME ActInit PROVE ActInv
    OBVIOUS
  <1>1. Fresh \in ActBook /\ Fresh.tracked = {}
    BY DEF Fresh, ActBook
  <1>2. ActTypeOK
    BY <1>1 DEF ActInit, ActTypeOK, Custody, Balance, Stages
  <1>3. Minted
    BY <1>1 DEF ActInit, Minted
  <1>4. Cool
    BY DEF ActInit, Cool, Cooling
  <1> QED
    BY <1>2, <1>3, <1>4 DEF ActInit, ActInv, Placed, Quiet, Apart, AheadLive, Commanded,
                            Working, Entered

-----------------------------------------------------------------------------
(* Books and plans.                                                        *)

\* What the steps do to a book keeps it a book and its cooldowns.
LEMMA BookUpdates ==
  ASSUME NEW b \in ActBook, NEW p \in Board
  PROVE  /\ Untracked(b, p) \in ActBook /\ Untracked(b, p).tracked \subseteq b.tracked
         /\ Untracked(b, p).cooling = b.cooling
         /\ WithPosition(b, p) \in ActBook /\ WithPosition(b, p).tracked = b.tracked \cup {p}
         /\ WithPosition(b, p).cooling = b.cooling
         /\ \A h \in Board \cup {Nothing} : /\ [b EXCEPT !.held = h] \in ActBook
                                            /\ [b EXCEPT !.held = h].tracked = b.tracked
                                            /\ [b EXCEPT !.held = h].cooling = b.cooling
  <1>1. Untracked(b, p) \in ActBook /\ Untracked(b, p).tracked \subseteq b.tracked
        /\ Untracked(b, p).cooling = b.cooling
    BY DEF Untracked, ActBook
  <1>2. /\ WithPosition(b, p) \in ActBook /\ WithPosition(b, p).tracked = b.tracked \cup {p}
        /\ WithPosition(b, p).cooling = b.cooling
    <2> DEFINE c == [b EXCEPT !.tracked = b.tracked \cup {p}]
    <2>1. c \in ActBook /\ c.tracked = b.tracked \cup {p} /\ c.cooling = b.cooling
      BY DEF ActBook
    <2>2. WithPosition(b, p) = [c EXCEPT !.held = Nothing]
      BY DEF WithPosition
    <2> HIDE DEF c
    <2> QED
      BY <2>1, <2>2 DEF ActBook
  <1>3. ASSUME NEW h \in Board \cup {Nothing}
        PROVE  /\ [b EXCEPT !.held = h] \in ActBook /\ [b EXCEPT !.held = h].tracked = b.tracked
               /\ [b EXCEPT !.held = h].cooling = b.cooling
    BY DEF ActBook
  <1> QED
    BY <1>1, <1>2, <1>3

\* Recording held stock keeps the tracked positions and the cooldowns.
LEMMA HeldUpdate ==
  ASSUME NEW b \in ActBook, NEW p \in Board
  PROVE  /\ HeldAfter(b, p) \in ActBook /\ HeldAfter(b, p).tracked = b.tracked
         /\ HeldAfter(b, p).cooling = b.cooling
  BY BookUpdates DEF HeldAfter

\* A reconciled book tracks what lives and keeps its cooldowns.
LEMMA ReconciledBook ==
  ASSUME NEW b \in ActBook, custody \in [Board -> Custody], \A p \in b.tracked : custody[p] # "none"
  PROVE  /\ Reconciled(b) \in ActBook /\ Reconciled(b).cooling = b.cooling
         /\ \A p \in Reconciled(b).tracked : custody[p] \in Live
  <1> DEFINE t == Present(b) \cup Recovered(b) \cup AdoptedNFT(b)
             h == AdoptedStock(b)
             c == [b EXCEPT !.tracked = t]
  <1>1. t \subseteq Board /\ \A p \in t : custody[p] \in Live
    BY DEF Present, Recovered, AdoptedNFT, Bare, Custody, Live, ActBook
  <1>2. h \in Board \cup {Nothing}
    BY DEF AdoptedStock, Strays, Swept, ActBook
  <1>3. Reconciled(b) = [c EXCEPT !.held = h]
    BY DEF Reconciled
  <1> HIDE DEF t, h
  <1>4. c \in ActBook /\ c.tracked = t /\ c.cooling = b.cooling
    BY <1>1 DEF ActBook
  <1> HIDE DEF c
  <1>5. [c EXCEPT !.held = h] \in ActBook /\ [c EXCEPT !.held = h].tracked = t
        /\ [c EXCEPT !.held = h].cooling = b.cooling
    BY <1>2, <1>4 DEF ActBook
  <1> QED
    BY <1>1, <1>3, <1>5

\* What any plan for a book consists of.
LEMMA PlanShape ==
  ASSUME NEW b \in ActBook, NEW plan \in Plans(b), Planned(b, plan)
  PROVE  /\ plan \subseteq Step
         /\ \A s \in plan : s.kind = "move" => s.to \in Board \ (b.cooling \cup b.tracked)
         /\ \A s \in plan : s.kind = "enter" => s.of \notin b.cooling \cup b.tracked
         /\ \A s \in plan : s.kind \in Commanding => s.of \in b.tracked
         /\ \A s, t \in plan : s.kind \in Commanding /\ t.kind \in Commanding /\ s # t => s.of # t.of
  <1>0. b.tracked \subseteq Board /\ b.held \in Board \cup {Nothing}
    BY DEF ActBook
  <1>1. \A s \in plan :
           \/ \E p \in b.tracked, k \in Exits \cup {"recenter"} : s = [kind |-> k, of |-> p, to |-> Nothing]
           \/ \E p \in b.tracked, q \in Qualified(b) : s = [kind |-> "move", of |-> p, to |-> q]
           \/ \E q \in Qualified(b) : s = [kind |-> "enter", of |-> q, to |-> Nothing]
           \/ b.held # Nothing /\ s = [kind |-> "inventory", of |-> b.held, to |-> Nothing]
    <2> DEFINE V == [b.tracked -> Exits \cup {"recenter", "hold"}]
               M == {{}} \cup {{[kind |-> "move", of |-> p, to |-> q]} :
                                  p \in b.tracked, q \in Qualified(b)}
               N == IF b.held = Nothing
                    THEN {{[kind |-> "enter", of |-> q, to |-> Nothing] : q \in E} :
                             E \in SUBSET Qualified(b)}
                    ELSE {{}}
               I == IF b.held = Nothing THEN {{}}
                    ELSE {{}, {[kind |-> "inventory", of |-> b.held, to |-> Nothing]}}
    <2>0. Plans(b) = {PositionSteps(b, v) \cup m \cup e \cup i : v \in V, m \in M, e \in N, i \in I}
      BY DEF Plans
    <2> HIDE DEF V, M, N, I
    <2>1. PICK v \in V, m \in M, e \in N, i \in I : plan = PositionSteps(b, v) \cup m \cup e \cup i
      BY <2>0
    <2>2. \A s \in PositionSteps(b, v) :
             \E p \in b.tracked, k \in Exits \cup {"recenter"} : s = [kind |-> k, of |-> p, to |-> Nothing]
      BY <2>1 DEF PositionSteps, V
    <2>3. \A s \in m : \E p \in b.tracked, q \in Qualified(b) : s = [kind |-> "move", of |-> p, to |-> q]
      BY <2>1 DEF M
    <2>4. \A s \in e : \E q \in Qualified(b) : s = [kind |-> "enter", of |-> q, to |-> Nothing]
      BY <2>1 DEF N
    <2>5. \A s \in i : b.held # Nothing /\ s = [kind |-> "inventory", of |-> b.held, to |-> Nothing]
      BY <2>1 DEF I
    <2> QED
      BY <2>1, <2>2, <2>3, <2>4, <2>5
  <1>2. Qualified(b) \subseteq Board /\ Qualified(b) \cap (b.cooling \cup b.tracked) = {}
    BY DEF Qualified
  <1>3. \A s \in plan : s \in Step
    <2> SUFFICES ASSUME NEW s \in plan PROVE s \in Step
      OBVIOUS
    <2> QED
      BY <1>0, <1>1, <1>2 DEF Step
  <1>4. \A s \in plan : /\ s.kind = "move" => s.to \in Board \ (b.cooling \cup b.tracked)
                        /\ s.kind = "enter" => s.of \notin b.cooling \cup b.tracked
                        /\ s.kind \in Commanding => s.of \in b.tracked
    <2> SUFFICES ASSUME NEW s \in plan
                 PROVE  /\ s.kind = "move" => s.to \in Board \ (b.cooling \cup b.tracked)
                        /\ s.kind = "enter" => s.of \notin b.cooling \cup b.tracked
                        /\ s.kind \in Commanding => s.of \in b.tracked
      OBVIOUS
    <2> QED
      BY <1>0, <1>1, <1>2 DEF Commanding, Exits, SwapExits, BurnExits
  <1>5. \A s, t \in plan : s.kind \in Commanding /\ t.kind \in Commanding /\ s # t => s.of # t.of
    BY DEF Planned, Commanding, Exits, SwapExits, BurnExits
  <1> QED
    BY <1>3, <1>4, <1>5

-----------------------------------------------------------------------------
(* Steps of the cycle.                                                     *)

\* Reading the book, deciding and taking the next step.
LEMMA Deciding ==
  ASSUME ActInv, Start \/ Decide \/ (\E s \in ahead : Take(s)) \/ Preflight \/ ActingDone
  PROVE  ActInv'
  <1>1. CASE Start
    BY <1>1 DEF Start, ActInv, ActTypeOK, Stages, Minted, Placed, Quiet, Cool, Apart, AheadLive,
                Commanded, Entered, Cooling, Working
  <1>2. CASE Decide
    <2>1. /\ book' = Reconciled(book) /\ steps' \in Plans(book') /\ Planned(book', steps')
          /\ ahead' = steps' /\ stage = "decide" /\ stage' \in {"restake", "step"}
          /\ (stage' = "restake" => steps' = {})
          /\ UNCHANGED <<custody, newest, orphan, loose, disk, doing, due>>
      BY <1>2 DEF Decide
    <2>2. /\ book' \in ActBook /\ book'.cooling = book.cooling
          /\ \A p \in book'.tracked : custody[p] \in Live
      BY <2>1, ReconciledBook DEF ActInv, ActTypeOK, Minted
    <2>3. /\ steps' \subseteq Step
          /\ \A s \in steps' : s.kind = "move" => s.to \in Board \ (book'.cooling \cup book'.tracked)
          /\ \A s \in steps' : s.kind = "enter" => s.of \notin book'.cooling \cup book'.tracked
          /\ \A s \in steps' : s.kind \in Commanding => s.of \in book'.tracked
          /\ \A s, t \in steps' : s.kind \in Commanding /\ t.kind \in Commanding /\ s # t => s.of # t.of
      BY <2>1, <2>2, PlanShape
    <2>4. due \subseteq disk.cooling /\ book'.cooling = disk.cooling
      BY <2>1, <2>2 DEF ActInv, Cool, Cooling
    <2>8. Cooling' \subseteq book'.tracked
      BY <2>3 DEF Cooling, Commanding, Cooled, Exits, SwapExits, BurnExits
    <2>5. ActTypeOK'
      BY <2>1, <2>2, <2>3 DEF ActInv, ActTypeOK, Stages
    <2>6. Minted'
      BY <2>1, <2>2 DEF ActInv, Minted, Live
    <2>7. Placed' /\ Quiet' /\ Apart' /\ AheadLive' /\ Commanded'
      BY <2>1, <2>2, <2>3 DEF Placed, Quiet, Apart, AheadLive, Commanded, Working
    <2>9. Cool' /\ Entered'
      BY <2>1, <2>3, <2>4, <2>8 DEF Cool, Entered
    <2> QED
      BY <2>5, <2>6, <2>7, <2>9 DEF ActInv
  <1>3. ASSUME NEW s \in ahead, Take(s) PROVE ActInv'
    <2>1. /\ stage = "step" /\ doing' = s /\ ahead' = ahead \ {s} /\ stage' = Opening(s)
          /\ UNCHANGED <<custody, newest, orphan, loose, disk, book, steps, due>>
      BY <1>3 DEF Take
    <2>2. s \in steps /\ s \in Step /\ ahead' \subseteq ahead /\ doing' \notin ahead'
      BY <2>1 DEF ActInv, ActTypeOK
    <2>3. stage' \in Working /\ stage' \in Stages
      BY <2>1 DEF Opening, Working, Stages
    <2>4. stage' \in {"preflight", "unstake", "withdraw"} => s.kind \in Commanding
      BY <2>1, <2>2 DEF Opening, Step, Commanding
    <2>5. ActTypeOK'
      BY <2>1, <2>2, <2>3 DEF ActInv, ActTypeOK
    <2>6. Minted' /\ Placed' /\ Apart' /\ AheadLive' /\ Entered'
      BY <2>1, <2>2 DEF ActInv, Minted, Placed, Apart, AheadLive, Entered, Cooling
    <2>7. Quiet'
      BY <2>3 DEF Quiet, Working
    <2>8. Cool'
      BY <2>1, <2>3 DEF ActInv, Cool, Cooling, Working
    <2>9. Commanded'
      BY <2>1, <2>4 DEF ActInv, Commanded, AheadLive
    <2> QED
      BY <2>5, <2>6, <2>7, <2>8, <2>9 DEF ActInv
  <1>4. CASE Preflight
    <2>1. /\ stage = "preflight" /\ UNCHANGED <<custody, newest, orphan, loose, disk, book, steps, due>>
          /\ \/ stage' = "last" /\ ahead' = {} /\ doing' = Pause
             \/ stage' \in {"unstake", "withdraw"} /\ ahead' = ahead /\ doing' = doing
      BY <1>4 DEF Preflight, Halt, Onward
    <2> QED
      BY <2>1 DEF ActInv, ActTypeOK, Stages, Minted, Placed, Quiet, Cool, Apart, AheadLive, Commanded,
                  Entered, Cooling, Working
  <1>5. CASE ActingDone
    BY <1>5 DEF ActingDone, ActInv, ActTypeOK, Stages, Minted, Placed, Quiet, Cool, Apart, AheadLive,
                Commanded, Entered, Cooling, Working
  <1> QED
    BY <1>1, <1>2, <1>3, <1>4, <1>5

\* What carrying out one step may change: the commanded NFT may be emptied,
\* any other only comes or stays alive; the book loses positions or gains one
\* that lives, and keeps its cooldowns; one that the plan sets falls due; the
\* acting goes on or halts.
LEMMA Carried ==
  ASSUME ActInv, stage \in Working \cup {"restake"}, ActTypeOK',
         \A p \in Board : \/ custody'[p] \in Live \cup {custody[p]}
                          \/ p = doing.of /\ stage = "withdraw" /\ custody'[p] = "empty",
         \A p \in book'.tracked \cup disk'.tracked :
             p \in book.tracked \cup disk.tracked \/ custody'[p] \in Live,
         book'.cooling = book.cooling, disk'.cooling = disk.cooling,
         UNCHANGED steps, due' \subseteq due \cup Cooling,
         \/ stage' = "last" /\ ahead' = {} /\ doing' = Pause
         \/ stage' = "step" /\ stage # "restake" /\ ahead' = ahead
         \/ /\ stage' \in Working /\ ahead' = ahead /\ doing' = doing /\ stage # "restake"
            /\ (stage' \in {"preflight", "unstake", "withdraw"} =>
                   stage = "unstake" /\ custody'[doing.of] \in Live)
         \/ stage' = stage /\ stage = "restake" /\ ahead' = ahead /\ doing' = doing
  PROVE  ActInv'
  <1>0. /\ custody \in [Board -> Custody] /\ book.tracked \subseteq Board /\ disk.tracked \subseteq Board
        /\ ahead \subseteq steps /\ steps \subseteq Step
    BY DEF ActInv, ActTypeOK, ActBook
  <1>1. Minted'
    <2> SUFFICES ASSUME NEW p \in disk'.tracked \cup book'.tracked PROVE custody'[p] # "none"
      BY DEF Minted
    <2>1. CASE p \in book.tracked \cup disk.tracked
      <3>1. p \in Board /\ custody[p] # "none"
        BY <1>0, <2>1 DEF ActInv, Minted
      <3> QED
        BY <3>1 DEF Live
    <2>2. CASE custody'[p] \in Live
      BY <2>2 DEF Live
    <2> QED
      BY <2>1, <2>2
  <1>2. Placed' /\ Apart'
    BY DEF ActInv, Placed, Apart, Working
  <1>3. Quiet' /\ Cool'
    BY DEF ActInv, Quiet, Cool, Cooling, Working
  <1>4. AheadLive'
    <2> SUFFICES ASSUME NEW s \in ahead', s.kind \in Commanding PROVE custody'[s.of] \in Live
      BY DEF AheadLive
    <2>1. s \in ahead /\ s \in steps /\ s.of \in Board /\ custody[s.of] \in Live
      BY <1>0 DEF ActInv, AheadLive, Step
    <2>2. CASE s.of = doing.of /\ stage = "withdraw"
      <3>1. doing \in steps /\ doing # s /\ doing.kind \in Commanding
        BY <2>1, <2>2 DEF ActInv, Placed, Commanded, Working
      <3> QED
        BY <2>1, <2>2, <3>1 DEF ActInv, Apart
    <2>3. CASE ~(s.of = doing.of /\ stage = "withdraw")
      BY <2>1, <2>3
    <2> QED
      BY <2>2, <2>3
  <1>5. Commanded'
    BY DEF ActInv, Commanded, Working
  <1>6. Entered'
    BY DEF ActInv, Entered, Cooling
  <1> QED
    BY <1>1, <1>2, <1>3, <1>4, <1>5, <1>6 DEF ActInv

\* What is being carried out is a step, and its pools are on the board.
LEMMA Doing ==
  ASSUME ActInv, stage \in Working
  PROVE  doing \in Step /\ doing.of \in Board /\ MintPool(doing) \in Board
  BY DEF ActInv, ActTypeOK, Placed, Step, MintPool

LEMMA Unstaking == ASSUME ActInv, Unstake PROVE ActInv'
  <1>1. /\ stage = "unstake" /\ doing.of \in Board
        /\ custody' = custody \/ custody' = [custody EXCEPT ![doing.of] = "safe"]
        /\ UNCHANGED <<newest, orphan, loose, disk, book, steps, due>>
    BY Doing DEF Unstake, Working
  <1>2. custody \in [Board -> Custody] /\ custody[doing.of] \in Live
    BY <1>1 DEF ActInv, ActTypeOK, Commanded
  <1>3. /\ custody' \in [Board -> Custody] /\ custody'[doing.of] \in Live
        /\ \A p \in Board : custody'[p] \in Live \cup {custody[p]}
    BY <1>1, <1>2 DEF Custody, Live
  <1>4. \/ stage' = "last" /\ ahead' = {} /\ doing' = Pause
        \/ stage' = "withdraw" /\ ahead' = ahead /\ doing' = doing
    BY DEF Unstake, Halt, Onward
  <1>5. ActTypeOK'
    BY <1>1, <1>3, <1>4 DEF ActInv, ActTypeOK, Stages
  <1> QED
    BY <1>1, <1>3, <1>4, <1>5, Carried DEF Working

LEMMA Withdrawing == ASSUME ActInv, Withdraw PROVE ActInv'
  <1> DEFINE p == doing.of
  <1>1. /\ stage = "withdraw" /\ p \in Board /\ doing \in Step
        /\ UNCHANGED <<newest, orphan, disk, steps>>
    BY Doing DEF Withdraw, Working
  <1>2. custody \in [Board -> Custody] /\ loose \in [Board -> Balance] /\ book \in ActBook
    BY DEF ActInv, ActTypeOK
  <1>3. Empties(p) \/ UNCHANGED <<custody, loose>>
    BY DEF Withdraw
  <1>4. loose' \in [Board -> Balance]
    BY <1>2, <1>3 DEF Empties, Balance
  <1>5. /\ custody' \in [Board -> Custody]
        /\ \A q \in Board : custody'[q] = custody[q] \/ (q = p /\ custody'[q] = "empty")
    BY <1>1, <1>2, <1>3 DEF Empties, Custody
  <1>6. book' = book \/ book' = WithdrawnBook(doing)
    BY DEF Withdraw
  <1>7. book' \in ActBook /\ book'.tracked \subseteq book.tracked /\ book'.cooling = book.cooling
    <2>1. CASE book' = book
      BY <1>2, <2>1
    <2>2. CASE book' = WithdrawnBook(doing)
      <3>1. Untracked(book, p) \in ActBook /\ Untracked(book, p).tracked \subseteq book.tracked
            /\ Untracked(book, p).cooling = book.cooling
        BY <1>1, <1>2, BookUpdates
      <3>2. /\ HeldAfter(Untracked(book, p), p) \in ActBook
            /\ HeldAfter(Untracked(book, p), p).tracked \subseteq book.tracked
            /\ HeldAfter(Untracked(book, p), p).cooling = book.cooling
        BY <1>1, <3>1, HeldUpdate
      <3> QED
        BY <1>2, <2>2, <3>1, <3>2 DEF WithdrawnBook
    <2> QED
      BY <1>6, <2>1, <2>2
  <1>8. \/ stage' = "last" /\ ahead' = {} /\ doing' = Pause
        \/ stage' = "step" /\ ahead' = ahead /\ doing' = Pause
        \/ stage' \in {"mint", "swap"} /\ ahead' = ahead /\ doing' = doing
    BY DEF Withdraw, Halt, StepDone, Onward
  <1>10. due' \subseteq due \cup Cooling /\ due' \subseteq due \cup {p}
    <2>1. due' = due \/ (doing.kind \in Cooled /\ due' = due \cup {p})
      BY DEF Withdraw
    <2>2. doing \in steps
      BY <1>1 DEF ActInv, Placed, Working
    <2> QED
      BY <2>1, <2>2 DEF Cooling
  <1>9. ActTypeOK'
    BY <1>1, <1>4, <1>5, <1>7, <1>8, <1>10 DEF ActInv, ActTypeOK, Stages
  <1> QED
    BY <1>1, <1>5, <1>7, <1>8, <1>9, <1>10, Carried DEF Working

LEMMA Selling == ASSUME ActInv, Swap \/ Sell PROVE ActInv'
  <1> DEFINE p == doing.of
  <1>1. /\ stage \in {"swap", "sell"} /\ p \in Board
        /\ UNCHANGED <<custody, newest, orphan, disk, steps, due>>
    BY Doing DEF Swap, Sell, Working
  <1>2. loose \in [Board -> Balance] /\ book \in ActBook
    BY DEF ActInv, ActTypeOK
  <1>3. Sold(p) \/ UNCHANGED loose
    BY DEF Swap, Sell
  <1>4. loose' \in [Board -> Balance]
    BY <1>2, <1>3 DEF Sold, Balance
  <1>5. book' = book \/ book' = Untracked(book, p) \/ book' = [book EXCEPT !.held = Nothing]
    BY DEF Swap, Sell
  <1>6. book' \in ActBook /\ book'.tracked \subseteq book.tracked /\ book'.cooling = book.cooling
    <2> HIDE DEF p
    <2>1. /\ Untracked(book, p) \in ActBook /\ Untracked(book, p).tracked \subseteq book.tracked
          /\ Untracked(book, p).cooling = book.cooling
      BY <1>1, <1>2, BookUpdates
    <2>2. /\ [book EXCEPT !.held = Nothing] \in ActBook
          /\ [book EXCEPT !.held = Nothing].tracked = book.tracked
          /\ [book EXCEPT !.held = Nothing].cooling = book.cooling
      BY <1>1, <1>2, BookUpdates
    <2> QED
      BY <1>2, <1>5, <2>1, <2>2
  <1>7. \/ stage' = "last" /\ ahead' = {} /\ doing' = Pause
        \/ stage' = "step" /\ ahead' = ahead /\ doing' = Pause
        \/ stage' = "mint" /\ ahead' = ahead /\ doing' = doing
    BY DEF Swap, Sell, Halt, StepDone, Onward
  <1>8. ActTypeOK'
    BY <1>1, <1>4, <1>6, <1>7 DEF ActInv, ActTypeOK, Stages
  <1> QED
    BY <1>1, <1>6, <1>7, <1>8, Carried DEF Working

LEMMA Minting == ASSUME ActInv, Mint PROVE ActInv'
  <1> DEFINE q == MintPool(doing)
  <1>1. stage = "mint" /\ q \in Board /\ UNCHANGED <<disk, steps, due>>
    BY Doing DEF Mint, Working
  <1>2. /\ custody \in [Board -> Custody] /\ loose \in [Board -> Balance] /\ book \in ActBook
        /\ orphan \subseteq Board /\ newest \in Board \cup {Nothing}
    BY DEF ActInv, ActTypeOK
  <1> HIDE DEF q
  <1>3. \/ MintLands(q)
        \/ loose' \in {loose, [loose EXCEPT ![q] = "lot"]} /\ UNCHANGED <<custody, newest, orphan>>
    BY DEF Mint, q
  <1>4. loose' \in [Board -> Balance]
    BY <1>2, <1>3 DEF MintLands, Balance
  <1>5. /\ custody' \in [Board -> Custody] /\ \A p \in Board : custody'[p] \in Live \cup {custody[p]}
        /\ orphan' \subseteq Board /\ newest' \in Board \cup {Nothing}
    BY <1>1, <1>2, <1>3 DEF MintLands, Custody, Live
  <1>6. book' = book \/ book' = HeldAfter(book, q)
    BY DEF Mint, q
  <1>7. book' \in ActBook /\ book'.tracked = book.tracked /\ book'.cooling = book.cooling
    BY <1>1, <1>2, <1>6, HeldUpdate
  <1>8. \/ stage' = "last" /\ ahead' = {} /\ doing' = Pause
        \/ stage' = "stake" /\ ahead' = ahead /\ doing' = doing
    BY DEF Mint, Halt, Onward
  <1>9. ActTypeOK'
    BY <1>1, <1>4, <1>5, <1>7, <1>8 DEF ActInv, ActTypeOK, Stages
  <1> QED
    BY <1>1, <1>5, <1>7, <1>8, <1>9, Carried DEF Working

LEMMA Staking == ASSUME ActInv, Stake PROVE ActInv'
  <1> DEFINE q == MintPool(doing)
  <1>1. stage = "stake" /\ q \in Board /\ UNCHANGED <<newest, orphan, loose, steps, due>>
    BY Doing DEF Stake, Working
  <1>2. custody \in [Board -> Custody] /\ book \in ActBook /\ disk \in ActBook
        /\ book.cooling = disk.cooling
    BY <1>1 DEF ActInv, ActTypeOK, Cool
  <1> HIDE DEF q
  <1>3. PICK c \in Live : custody' = [custody EXCEPT ![q] = c]
    BY DEF Stake, q, Live
  <1>4. /\ custody' \in [Board -> Custody] /\ custody'[q] \in Live
        /\ \A p \in Board : custody'[p] \in Live \cup {custody[p]}
    BY <1>1, <1>2, <1>3 DEF Custody, Live
  <1>5. \/ book' = book /\ disk' = disk
        \/ book' = WithPosition(book, q) /\ disk' = WithPosition(book, q)
    BY DEF Stake, q
  <1>6. /\ book' \in ActBook /\ disk' \in ActBook
        /\ book'.cooling = book.cooling /\ disk'.cooling = disk.cooling
        /\ book'.tracked \subseteq book.tracked \cup {q}
        /\ disk'.tracked \subseteq book.tracked \cup disk.tracked \cup {q}
    BY <1>1, <1>2, <1>5, BookUpdates
  <1>7. \/ stage' = "last" /\ ahead' = {} /\ doing' = Pause
        \/ stage' = "step" /\ ahead' = ahead /\ doing' = Pause
    BY DEF Stake, Halt, StepDone
  <1>8. ActTypeOK'
    BY <1>1, <1>4, <1>6, <1>7 DEF ActInv, ActTypeOK, Stages
  <1> QED
    BY <1>1, <1>4, <1>6, <1>7, <1>8, Carried DEF Working

LEMMA Restaking == ASSUME ActInv, NEW p \in Board, Restake(p) PROVE ActInv'
  <1>1. stage = "restake" /\ custody[p] \in {"bare", "safe"}
        /\ UNCHANGED <<newest, orphan, loose, disk, book, steps, due>>
    BY DEF Restake, Unstaked
  <1>2. custody \in [Board -> Custody]
    BY DEF ActInv, ActTypeOK
  <1>3. PICK c \in Live : custody' = [custody EXCEPT ![p] = c]
    BY <1>1 DEF Restake, Live
  <1>4. custody' \in [Board -> Custody] /\ \A x \in Board : custody'[x] \in Live \cup {custody[x]}
    BY <1>2, <1>3 DEF Custody, Live
  <1>5. \/ stage' = "last" /\ ahead' = {} /\ doing' = Pause
        \/ stage' = stage /\ ahead' = ahead /\ doing' = doing
    BY DEF Restake, Halt
  <1>6. ActTypeOK'
    BY <1>1, <1>4, <1>5 DEF ActInv, ActTypeOK, Stages
  <1> QED
    BY <1>1, <1>4, <1>5, <1>6, Carried

-----------------------------------------------------------------------------
(* The end of the cycle.                                                   *)

\* A rebuilt book has the cooldowns of the plan's exits.
LEMMA RebuiltBook ==
  ASSUME NEW b \in ActBook, steps \subseteq Step, NEW lag
  PROVE  /\ Rebuilt(b, lag) \in ActBook /\ Rebuilt(b, lag).tracked = b.tracked
         /\ b.cooling \subseteq Rebuilt(b, lag).cooling
         /\ \A s \in steps : s.kind \in Cooled => s.of \in Rebuilt(b, lag).cooling
  <1> DEFINE cool == b.cooling \cup {s.of : s \in {t \in steps : t.kind \in Cooled}}
             h == ClearedIfGone(b, lag)
             c == [b EXCEPT !.cooling = cool]
  <1>1. cool \subseteq Board /\ h \in Board \cup {Nothing}
    BY DEF ActBook, Step, ClearedIfGone
  <1>2. Rebuilt(b, lag) = [c EXCEPT !.held = h]
    BY DEF Rebuilt
  <1>3. b.cooling \subseteq cool /\ \A s \in steps : s.kind \in Cooled => s.of \in cool
    OBVIOUS
  <1> HIDE DEF cool, h
  <1>4. c \in ActBook /\ c.tracked = b.tracked /\ c.cooling = cool
    BY <1>1 DEF ActBook
  <1> HIDE DEF c
  <1>5. [c EXCEPT !.held = h] \in ActBook /\ [c EXCEPT !.held = h].tracked = b.tracked
        /\ [c EXCEPT !.held = h].cooling = cool
    BY <1>1, <1>4 DEF ActBook
  <1> QED
    BY <1>2, <1>3, <1>5

LEMMA Ending == ASSUME ActInv, Save \/ Crash \/ (\E p \in Board : CoolOff(p)) PROVE ActInv'
  <1>0. Fresh \in ActBook /\ Fresh.tracked = {}
    BY DEF Fresh, ActBook
  <1>1. CASE Save
    <2>1. /\ stage = "last" /\ book' = Fresh /\ stage' = "idle" /\ steps' = {} /\ ahead' = ahead /\ ahead = {}
          /\ UNCHANGED <<custody, newest, orphan, loose, doing>>
      BY <1>1 DEF Save, ActInv, Quiet
    <2>2. /\ book \in ActBook /\ steps \subseteq Step /\ book.cooling = disk.cooling
          /\ due \subseteq disk.cooling \cup Cooling
      BY <2>1 DEF ActInv, ActTypeOK, Cool
    <2>3. disk' \in ActBook /\ disk'.tracked = book.tracked /\ due' \subseteq disk'.cooling
      <3>1. CASE disk' = book /\ Forgets(book)
        BY <2>2, <3>1 DEF Forgets
      <3>2. ASSUME NEW lag \in Lagging, disk' = Rebuilt(book, lag), UNCHANGED due
            PROVE  disk' \in ActBook /\ disk'.tracked = book.tracked /\ due' \subseteq disk'.cooling
        <4>1. /\ disk' \in ActBook /\ disk'.tracked = book.tracked
              /\ book.cooling \subseteq disk'.cooling
              /\ \A s \in steps : s.kind \in Cooled => s.of \in disk'.cooling
          BY <2>2, <3>2, RebuiltBook
        <4> QED
          BY <2>2, <3>2, <4>1 DEF Cooling
      <3> QED
        BY <1>1, <3>1, <3>2 DEF Save
    <2>4. due' \subseteq Board
      BY <2>3 DEF ActBook
    <2>5. ActTypeOK'
      BY <1>0, <2>1, <2>3, <2>4 DEF ActInv, ActTypeOK, Stages
    <2>6. Minted'
      BY <1>0, <2>1, <2>3 DEF ActInv, Minted
    <2> QED
      BY <2>1, <2>3, <2>5, <2>6 DEF ActInv, Placed, Quiet, Cool, Apart, AheadLive, Commanded, Entered,
                                    Cooling, Working
  <1>2. CASE Crash
    <2>1. /\ book' = Fresh /\ stage' = "idle" /\ steps' = {} /\ ahead' = {} /\ doing' = Pause
          /\ UNCHANGED <<custody, newest, orphan, loose, disk>>
          /\ due' = due \cap disk.cooling
      BY <1>2 DEF Crash, Forgets
    <2>2. ActTypeOK'
      BY <1>0, <2>1 DEF ActInv, ActTypeOK, Stages
    <2>3. Minted'
      BY <1>0, <2>1 DEF ActInv, Minted
    <2> QED
      BY <2>1, <2>2, <2>3 DEF ActInv, Placed, Quiet, Cool, Apart, AheadLive, Commanded, Entered,
                              Cooling, Working
  <1>3. ASSUME NEW p \in Board, CoolOff(p) PROVE ActInv'
    <2>1. /\ stage = "idle" /\ disk' = [disk EXCEPT !.cooling = disk.cooling \ {p}] /\ due' = due \ {p}
          /\ UNCHANGED <<custody, newest, orphan, loose, book, stage, steps, ahead, doing>>
      BY <1>3 DEF CoolOff
    <2>2. disk' \in ActBook /\ disk'.tracked = disk.tracked /\ disk'.cooling = disk.cooling \ {p}
      BY <2>1 DEF ActInv, ActTypeOK, ActBook
    <2>3. ActTypeOK' /\ Minted'
      BY <2>1, <2>2 DEF ActInv, ActTypeOK, Minted
    <2> QED
      BY <2>1, <2>2, <2>3 DEF ActInv, Placed, Quiet, Cool, Apart, AheadLive, Commanded, Entered, Cooling, Working
  <1> QED
    BY <1>1, <1>2, <1>3

\* Every step preserves the inductive invariant.
LEMMA ActInvNext == ActInv /\ [ActNext]_actVars => ActInv'
  <1> SUFFICES ASSUME ActInv, [ActNext]_actVars PROVE ActInv'
    OBVIOUS
  <1>1. CASE UNCHANGED actVars
    BY <1>1 DEF actVars, ActInv, ActTypeOK, Minted, Placed, Quiet, Cool, Apart, AheadLive, Commanded,
                Entered, Cooling
  <1>2. CASE ActNext
    BY <1>2, Deciding, Unstaking, Withdrawing, Selling, Minting, Staking, Restaking, Ending DEF ActNext
  <1> QED
    BY <1>1, <1>2

LEMMA ActInvariant == ActSpec => []ActInv
  BY ActInvInit, ActInvNext, PTL DEF ActSpec

\* Chain, books and plans keep their types, for any board.
THEOREM ActingTyped == ActSpec => []ActTypeOK
  <1>1. ActInv => ActTypeOK
    BY DEF ActInv
  <1> QED
    BY ActInvariant, <1>1, PTL

\* Whatever failed or died before, and however many positions a plan touches,
\* no step is begun or continued for an NFT that is already empty.
THEOREM DeadIsNeverCommanded == ActSpec => []DeadNeverCommanded
  <1>1. ActInv => DeadNeverCommanded
    BY DEF ActInv, Commanded, DeadNeverCommanded
  <1> QED
    BY ActInvariant, <1>1, PTL

\* No plan of any cycle enters a pool inside the cooldown of an exit that
\* emptied its position, completed or failed in its sale, unless the cycle of
\* that exit left no book that says so.
THEOREM ExitsDoCoolDown == ActSpec => []ExitsCoolDown
  <1>1. ActInv => ExitsCoolDown
    BY DEF ActInv, ActTypeOK, Cool, Entered, ExitsCoolDown
  <1> QED
    BY ActInvariant, <1>1, PTL
=============================================================================
