--------------------------- MODULE PokerServerProofs ---------------------------
(***************************************************************************)
(* Theorems about PokerServer for every number of players, every seating,  *)
(* every size of the deck and every value of the bounds.                   *)
(***************************************************************************)
EXTENDS PokerServer, SequenceTheorems, TLAPS

(***************************************************************************)
(* m_activePlayersId always has one entry per player: nothing shortens it. *)
(***************************************************************************)
LEMMA ActiveLength == TypeOK => NumActive = NumPlayers
  <1> SUFFICES ASSUME TypeOK PROVE NumActive = NumPlayers
      OBVIOUS
  <1>1. activePlayersId \in Seq(Players) /\ NumPlayers \in Nat
      BY NumPlayersAssumption, IsASeq DEF TypeOK, TableTypeOK
  <1>2. DOMAIN activePlayersId = 1 .. NumPlayers
      BY DEF TypeOK, TableTypeOK
  <1> QED BY <1>1, <1>2, LenProperties, NumPlayersAssumption DEF NumActive

LEMMA RemainderBound == \A a \in Nat, b \in Nat \ {0} : a % b \in 0 .. b - 1
  OBVIOUS

LEMMA SeatIsPlayer ==
  TypeOK => \A i \in 0 .. NumPlayers - 1 : Seat(i) \in Players
  BY NumPlayersAssumption DEF TypeOK, TableTypeOK, Seat

-----------------------------------------------------------------------------
(***************************************************************************)
(* Type correctness.                                                       *)
(***************************************************************************)
LEMMA PopTypes ==
  ASSUME inbox \in Seq(Messages), inbox # <<>>
  PROVE  Front(inbox) \in Seq(Messages) /\ Last(inbox) \in Messages
  <1>1. Len(inbox) \in Nat /\ Len(inbox) >= 1
    BY EmptySeq, LenProperties
  <1>2. Last(inbox) \in Messages
    BY <1>1, ElementOfSeq DEF Last
  <1>3. Front(inbox) \in Seq(Messages)
    BY <1>1, SubSeqProperties DEF Front
  <1> QED BY <1>2, <1>3

LEMMA ServerTypes ==
  ASSUME TypeOK, ServerStep
  PROVE  ServerTypeOK'
  <1> USE DEF TypeOK, ServerTypeOK
  <1>1. CASE Pop
    BY <1>1, PopTypes DEF Pop
  <1>2. CASE SetPlayerFold
    BY <1>2 DEF SetPlayerFold
  <1>3. CASE DoubleBet
    BY <1>3 DEF DoubleBet
  <1>4. CASE PotRead
    BY <1>4 DEF PotRead, TableTypeOK
  <1>5. CASE PotWrite
    BY <1>5 DEF PotWrite
  <1>6. CASE PayRead
    BY <1>6 DEF PayRead, TableTypeOK, Owed, Messages
  <1>7. CASE PayWrite
    BY <1>7 DEF PayWrite
  <1>8. CASE UpdatePlayerBet
    BY <1>8 DEF UpdatePlayerBet
  <1>9. CASE ToggleRead
    BY <1>9 DEF ToggleRead, Toggled, TableTypeOK
  <1>10. CASE ToggleWrite
    BY <1>10 DEF ToggleWrite
  <1>11. CASE Notify
    <2>1. sFlip' = FALSE
      BY <1>11 DEF Notify
    <2>2. (sFlip \in BOOLEAN)'
      BY ONLY <2>1, Zenon
    <2> QED BY <1>11, <2>2 DEF Notify
  <1> QED BY <1>1, <1>2, <1>3, <1>4, <1>5, <1>6, <1>7, <1>8, <1>9, <1>10, <1>11 DEF ServerStep

LEMMA TableTypesByServer ==
  ASSUME TypeOK, ServerStep
  PROVE  TableTypeOK'
  <1> USE DEF TypeOK, TableTypeOK, ServerTypeOK, Messages, tableVars, moneyVars, syncVars
  <1>1. CASE Pop
    BY <1>1 DEF Pop
  <1>2. CASE SetPlayerFold
    BY <1>2 DEF SetPlayerFold
  <1>3. CASE DoubleBet
    BY <1>3 DEF DoubleBet
  <1>4. CASE PotRead
    BY <1>4 DEF PotRead
  <1>5. CASE PotWrite
    BY <1>5 DEF PotWrite
  <1>6. CASE PayRead
    BY <1>6 DEF PayRead
  <1>7. CASE PayWrite
    BY <1>7 DEF PayWrite
  <1>8. CASE UpdatePlayerBet
    BY <1>8 DEF UpdatePlayerBet
  <1>9. CASE ToggleRead
    BY <1>9 DEF ToggleRead
  <1>10. CASE ToggleWrite
    BY <1>10 DEF ToggleWrite
  <1>11. CASE Notify
    BY <1>11 DEF Notify
  <1> QED BY <1>1, <1>2, <1>3, <1>4, <1>5, <1>6, <1>7, <1>8, <1>9, <1>10, <1>11 DEF ServerStep

LEMMA GameTypes ==
  ASSUME TypeOK, QuietStep
  PROVE  GameTypeOK'
  <1>a. NumActive = NumPlayers
    BY ActiveLength
  <1>b. \A i \in 0 .. NumPlayers - 1 : Seat(i) \in Players
    BY SeatIsPlayer
  <1> USE NumPlayersAssumption
      DEF TypeOK, GameTypeOK, handVars, roundVars
  <1>1. CASE StartGame
    BY <1>1 DEF StartGame
  <1>2. CASE Deal
    BY <1>2 DEF Deal, Drawable
  <1>3. CASE BlindRead
    <2>1. BlindPlayer \in Players
      BY <1>3, <1>b DEF BlindRead, BlindPlayer
    <2>2. BlindAmount \in Int
      BY DEF BlindAmount, TableTypeOK
    <2>3. gReg' \in Int
      BY <1>3, <2>1, <2>2 DEF BlindRead, TableTypeOK
    <2> QED BY <1>3, <2>3 DEF BlindRead
  <1>4. CASE BlindPay
    BY <1>4 DEF BlindPay
  <1>5. CASE BlindBet
    BY <1>5 DEF BlindBet, BettingStages
  <1>6. CASE EnterStage
    BY <1>6, <1>b, UInt8Assumption DEF EnterStage, FirstIndex, BettingStages, BoardCards
  <1>7. CASE DrawBoard
    BY <1>7 DEF DrawBoard, BoardCards, BettingStages, Drawable
  <1>8. CASE LoopTest
    BY <1>8, <1>a DEF LoopTest, NextStage, FollowingStage, BettingStages
  <1>9. CASE BetsDiffer
    BY <1>9 DEF BetsDiffer
  <1>10. CASE BetsEqual
    BY <1>10, <1>a DEF BetsEqual, MoreBets, NextStage, FollowingStage, BettingStages
  <1>11. CASE SkipFolded
    BY <1>11, <1>a, <1>b DEF SkipFolded, AdvanceSeat, NextIndex
  <1>12. CASE TestFlag
    BY <1>12 DEF TestFlag
  <1>13. CASE Sleep
    BY <1>13 DEF Sleep
  <1>14. CASE Wake
    BY <1>14 DEF Wake
  <1>15. CASE Consume
    <2>1. actionsThisRound' \in 0 .. UInt8 - 1
      BY <1>15, UInt8Assumption, RemainderBound DEF Consume
    <2>2. currentIndex' \in 0 .. NumPlayers - 1 /\ currentId' \in Players
      BY <1>15, <1>a, <1>b DEF Consume, AdvanceSeat, NextIndex
    <2> QED BY <1>15, <2>1, <2>2 DEF Consume, AdvanceSeat
  <1>16. CASE CardChecking
    BY <1>16, <1>a, <1>b DEF CardChecking, Players
  <1>17. CASE ClearPot
    <2>1. ASSUME NEW b \in 1 .. 2
          PROVE  (blinds[b] + 1) % NumActive \in 0 .. NumPlayers - 1
      <3>1. blinds[b] + 1 \in Nat /\ NumPlayers \in Nat \ {0}
        OBVIOUS
      <3>2. (blinds[b] + 1) % NumPlayers \in 0 .. NumPlayers - 1
        BY <3>1, RemainderBound
      <3> QED BY <3>2, <1>a
    <2>2. blinds' \in [1 .. 2 -> 0 .. NumPlayers - 1]
      BY <1>17, <2>1 DEF ClearPot, Rotated
    <2> QED BY <1>17, <2>2 DEF ClearPot
  <1>18. CASE ResetPlayer
    BY <1>18 DEF ResetPlayer
  <1> QED BY <1>1, <1>2, <1>3, <1>4, <1>5, <1>6, <1>7, <1>8, <1>9, <1>10, <1>11, <1>12, <1>13, <1>14, <1>15, <1>16, <1>17, <1>18 DEF QuietStep

LEMMA TableTypesByGame ==
  ASSUME TypeOK, QuietStep
  PROVE  TableTypeOK'
  <1>a. NumActive = NumPlayers
    BY ActiveLength
  <1>b. \A i \in 0 .. NumPlayers - 1 : Seat(i) \in Players
    BY SeatIsPlayer
  <1> USE DEF TypeOK, TableTypeOK, tableVars, moneyVars, syncVars
  <1>1. CASE StartGame
    BY <1>1 DEF StartGame
  <1>2. CASE Deal
    <2>1. PICK c1 \in Cards, c2 \in Cards :
             hand' = [hand EXCEPT ![MapOrder[cursor]] = {c1, c2}]
      BY <1>2 DEF Deal, GameTypeOK, Drawable
    <2>2. hand' \in [Players -> SUBSET Cards]
      BY <2>1, MapOrderAssumption DEF GameTypeOK
    <2> QED BY <1>2, <2>2 DEF Deal
  <1>3. CASE BlindRead
    BY <1>3 DEF BlindRead
  <1>4. CASE BlindPay
    BY <1>4, <1>b DEF BlindPay, GameTypeOK, BlindPlayer
  <1>5. CASE BlindBet
    BY <1>5, <1>b DEF BlindBet, GameTypeOK, BlindPlayer, BlindAmount
  <1>6. CASE EnterStage
    BY <1>6 DEF EnterStage
  <1>7. CASE DrawBoard
    BY <1>7 DEF DrawBoard
  <1>8. CASE LoopTest
    BY <1>8 DEF LoopTest
  <1>9. CASE BetsDiffer
    BY <1>9 DEF BetsDiffer
  <1>10. CASE BetsEqual
    BY <1>10 DEF BetsEqual
  <1>11. CASE SkipFolded
    BY <1>11 DEF SkipFolded
  <1>12. CASE TestFlag
    BY <1>12 DEF TestFlag
  <1>13. CASE Sleep
    BY <1>13 DEF Sleep
  <1>14. CASE Wake
    BY <1>14 DEF Wake
  <1>15. CASE Consume
    BY <1>15 DEF Consume
  <1>16. CASE CardChecking
    BY <1>16, <1>b, NumPlayersAssumption DEF CardChecking
  <1>17. CASE ClearPot
    BY <1>17 DEF ClearPot
  <1>18. CASE ResetPlayer
    BY <1>18, MapOrderAssumption DEF ResetPlayer, GameTypeOK
  <1> QED BY <1>1, <1>2, <1>3, <1>4, <1>5, <1>6, <1>7, <1>8, <1>9, <1>10, <1>11, <1>12, <1>13, <1>14, <1>15, <1>16, <1>17, <1>18 DEF QuietStep

LEMMA SendTypes ==
  ASSUME TypeOK, NEW p \in Players, NEW k \in Kinds, Send(p, k)
  PROVE  TableTypeOK' /\ ServerTypeOK' /\ GameTypeOK'
  <1>1. [player |-> p, kind |-> k] \in Messages
    BY DEF Messages
  <1>2. inbox' \in Seq(Messages)
    BY <1>1, AppendProperties DEF Send, TypeOK, ServerTypeOK
  <1>3. ServerTypeOK'
    BY <1>2 DEF Send, TypeOK, ServerTypeOK, serverLocals
  <1>4. TableTypeOK'
    BY DEF Send, TypeOK, TableTypeOK, tableVars
  <1>5. GameTypeOK'
    BY DEF Send, TypeOK, GameTypeOK, gameVars
  <1> QED BY <1>3, <1>4, <1>5

(***************************************************************************)
(* Every variable keeps its type; in particular the indexes into the       *)
(* seating stay inside it and the byte counting the actions stays a byte.  *)
(***************************************************************************)
THEOREM TypeCorrect == Spec => []TypeOK
  <1>1. Init => TypeOK
    <2> SUFFICES ASSUME Init PROVE TypeOK
      OBVIOUS
    <2>1. TableTypeOK
      <3>1. /\ money \in [Players -> Int] /\ bet \in [Players -> Nat]
            /\ hand \in [Players -> SUBSET Cards]
            /\ currentBet \in Nat /\ pot \in Int
        BY MoneyAssumption DEF Init, TableInit
      <3>2. activePlayersId \in [1 .. NumPlayers -> Players]
        BY NumPlayersAssumption DEF Init, TableInit, JoinOrder, Players
      <3>3. folded \in [Players -> BOOLEAN]
        BY DEF Init, TableInit
      <3>4. playerAction \in BOOLEAN /\ locked \in BOOLEAN /\ condWaiting \in BOOLEAN
        BY Zenon DEF Init, TableInit
      <3> QED BY <3>1, <3>2, <3>3, <3>4 DEF TableTypeOK
    <2>2. ServerTypeOK
      <3>1. sFlip \in BOOLEAN
        BY Zenon DEF Init, ServerInit
      <3> QED BY <3>1, EmptySeq DEF Init, ServerInit, ServerTypeOK
    <2>3. GameTypeOK
      BY NumPlayersAssumption, UInt8Assumption
      DEF Init, GameInit, GameTypeOK, BettingStages, Players
    <2> QED BY <2>1, <2>2, <2>3 DEF Init, TypeOK
  <1>2. TypeOK /\ [Next]_vars => TypeOK'
    <2> SUFFICES ASSUME TypeOK, [Next]_vars PROVE TypeOK'
      OBVIOUS
    <2>1. CASE MainStep
      <3>1. TableTypeOK' /\ ServerTypeOK'
        BY <2>1, ServerTypes, TableTypesByServer DEF MainStep
      <3>2. GameTypeOK'
        BY <2>1 DEF MainStep, gameVars, TypeOK, GameTypeOK
      <3> QED BY <2>1, <3>1, <3>2 DEF MainStep, clientVars, TypeOK
    <2>2. CASE QuietStep /\ UNCHANGED <<inbox, serverLocals, clientVars>>
      <3>1. TableTypeOK' /\ GameTypeOK'
        BY <2>2, GameTypes, TableTypesByGame
      <3>2. ServerTypeOK'
        BY <2>2 DEF serverLocals, TypeOK, ServerTypeOK
      <3> QED BY <2>2, <3>1, <3>2 DEF clientVars, TypeOK
    <2>3. CASE /\ SendSync /\ prompted' = prompted \cup {currentId}
               /\ UNCHANGED <<inbox, serverLocals, stray>>
      <3>1. TableTypeOK'
        BY <2>3 DEF SendSync, tableVars, TypeOK, TableTypeOK
      <3>2. ServerTypeOK'
        BY <2>3 DEF serverLocals, TypeOK, ServerTypeOK
      <3>3. GameTypeOK'
        BY <2>3 DEF SendSync, handVars, roundVars, TypeOK, GameTypeOK
      <3> QED BY <2>3, <3>1, <3>2, <3>3 DEF TypeOK, GameTypeOK
    <2>4. CASE SpuriousWakeup /\ UNCHANGED <<inbox, serverLocals, clientVars>>
      <3>1. TableTypeOK'
        BY <2>4 DEF SpuriousWakeup, moneyVars, TypeOK, TableTypeOK
      <3>2. ServerTypeOK'
        BY <2>4 DEF serverLocals, TypeOK, ServerTypeOK
      <3>3. GameTypeOK'
        BY <2>4 DEF SpuriousWakeup, gameVars, TypeOK, GameTypeOK
      <3> QED BY <2>4, <3>1, <3>2, <3>3 DEF clientVars, TypeOK
    <2>5. CASE \E p \in Players : Answer(p)
      <3>1. PICK p \in Players, k \in Kinds : Send(p, k) /\ Answer(p)
        BY <2>5 DEF Answer
      <3>2. TableTypeOK' /\ ServerTypeOK' /\ GameTypeOK'
        BY <3>1, SendTypes
      <3> QED BY <3>1, <3>2 DEF Answer, TypeOK
    <2>6. CASE \E p \in Players : StrayKey(p)
      <3>1. PICK p \in Players, k \in Kinds : Send(p, k) /\ StrayKey(p)
        BY <2>6 DEF StrayKey
      <3>2. TableTypeOK' /\ ServerTypeOK' /\ GameTypeOK'
        BY <3>1, SendTypes
      <3> QED BY <3>1, <3>2 DEF StrayKey, TypeOK
    <2>7. CASE UNCHANGED vars
      BY <2>7 DEF vars, tableVars, serverLocals, gameVars, clientVars,
         TypeOK, TableTypeOK, ServerTypeOK, GameTypeOK
    <2> QED BY <2>1, <2>2, <2>3, <2>4, <2>5, <2>6, <2>7 DEF Next, GameStep
  <1> QED BY <1>1, <1>2, PTL DEF Spec

-----------------------------------------------------------------------------
(***************************************************************************)
(* The handoff between the threads, when no player is impatient.           *)
(***************************************************************************)
LEMMA SingletonQueue ==
  ASSUME inbox \in Seq(Messages), Len(inbox) = 1
  PROVE  Front(inbox) = <<>> /\ Last(inbox) = inbox[1] /\ inbox # <<>>
  <1>1. Front(inbox) = <<>>
    BY SubSeqEmpty DEF Front
  <1>2. inbox # <<>>
    BY EmptySeq
  <1> QED BY <1>1, <1>2 DEF Last

LEMMA HandoffByServer ==
  ASSUME TypeOK, Handoff, MainStep
  PROVE  Handoff'
  <1>1. gPc' = gPc /\ currentId' = currentId /\ prompted' = prompted
    BY DEF MainStep, gameVars, clientVars
  <1>2. CASE Pop
    <2>1. Waiting /\ gPc # "consume" /\ Answered
      BY <1>2 DEF Pop, Handoff, Quiet, Asked, Handled, Flagged, Acting
    <2>2. inbox' = <<>> /\ Last(inbox) = inbox[1]
      BY <1>2, <2>1, SingletonQueue DEF Pop, Answered, TypeOK, ServerTypeOK
    <2>3. Acting' /\ sPc' # "toggleWrite" /\ sMsg' = inbox[1]
      BY <1>2, <2>1, <2>2 DEF Pop, Answered, Acting
    <2>4. playerAction' = playerAction
      BY <1>2 DEF Pop, tableVars
    <2> QED BY <1>1, <2>1, <2>2, <2>3, <2>4 DEF Handoff, Waiting, Handled, Answered
  <1>3. ASSUME Acting
        PROVE  Waiting /\ gPc # "consume" /\ Handled
    BY <1>3 DEF Handoff, Quiet, Asked, Answered, Flagged
  <1>4. CASE \/ SetPlayerFold \/ DoubleBet \/ PotRead \/ PotWrite \/ PayRead
             \/ PayWrite \/ UpdatePlayerBet
    <2>1. Acting /\ Acting' /\ sPc' # "toggleWrite"
      BY <1>4 DEF Acting, SetPlayerFold, DoubleBet, PotRead, PotWrite, PayRead,
                  PayWrite, UpdatePlayerBet
    <2>2. inbox' = inbox /\ sMsg' = sMsg /\ playerAction' = playerAction
      BY <1>4 DEF SetPlayerFold, DoubleBet, PotRead, PotWrite, PayRead,
                  PayWrite, UpdatePlayerBet, syncVars
    <2> QED BY <1>1, <1>3, <2>1, <2>2 DEF Handoff, Waiting, Handled
  <1>5. CASE ToggleRead
    <2>1. Waiting /\ gPc # "consume" /\ Handled
      BY <1>3, <1>5 DEF ToggleRead, Acting
    <2>2. sFlip'
      BY <1>5, <2>1 DEF ToggleRead, Toggled, Handled
    <2> QED BY <1>1, <1>5, <2>1, <2>2
        DEF ToggleRead, Handoff, Waiting, Handled, Acting
  <1>6. CASE ToggleWrite
    <2>1. Waiting /\ Handled
      BY <1>3, <1>6 DEF ToggleWrite, Acting
    <2>2. playerAction'
      BY <1>6, <2>1 DEF ToggleWrite, Handled
    <2> QED BY <1>1, <1>6, <2>1, <2>2
        DEF ToggleWrite, Handoff, Waiting, Handled, Flagged, Quiet, Acting
  <1>7. CASE Notify
    BY <1>1, <1>7 DEF Notify, Handoff, Waiting, Quiet, Asked, Answered, Handled,
                      Flagged, Acting
  <1> QED BY <1>2, <1>4, <1>5, <1>6, <1>7 DEF MainStep, ServerStep

LEMMA HandoffByGame ==
  ASSUME TypeOK, Handoff, GameStep
  PROVE  Handoff'
  <1>1. CASE QuietStep /\ UNCHANGED <<inbox, serverLocals, clientVars>>
    <2>1. Acting' = Acting
      BY <1>1 DEF serverLocals, Acting
    <2>2. ASSUME ~Waiting, ~Waiting', playerAction' = playerAction
          PROVE  Handoff'
      BY <1>1, <2>1, <2>2 DEF serverLocals, clientVars, Handoff, Quiet
    <2>3. CASE \/ StartGame  \/ Deal      \/ BlindRead \/ BlindPay   \/ BlindBet
               \/ EnterStage \/ DrawBoard \/ LoopTest  \/ BetsDiffer \/ BetsEqual
               \/ SkipFolded \/ CardChecking \/ ClearPot \/ ResetPlayer
      <3>1. ~Waiting /\ ~Waiting'
        BY <2>3 DEF Waiting, StartGame, Deal, BlindRead, BlindPay, BlindBet,
           EnterStage, DrawBoard, LoopTest, BetsDiffer, BetsEqual, SkipFolded,
           AdvanceSeat, CardChecking, ClearPot, ResetPlayer
      <3>2. playerAction' = playerAction
        BY <2>3 DEF StartGame, Deal, BlindRead, BlindPay, BlindBet,
           EnterStage, DrawBoard, LoopTest, BetsDiffer, BetsEqual, SkipFolded,
           CardChecking, ClearPot, ResetPlayer, tableVars, syncVars
      <3> QED BY <2>2, <3>1, <3>2
    <2>4. CASE TestFlag
      BY <1>1, <2>1, <2>4 DEF TestFlag, tableVars, roundVars, serverLocals,
         clientVars, Handoff, Waiting, Quiet, Asked, Answered, Handled, Flagged
    <2>5. CASE Sleep \/ Wake
      BY <1>1, <2>1, <2>5 DEF Sleep, Wake, tableVars, roundVars, serverLocals,
         clientVars, Handoff, Waiting, Quiet, Asked, Answered, Handled, Flagged
    <2>6. CASE Consume
      <3>1. Flagged
        BY <2>6 DEF Consume, Handoff, Waiting
      <3>2. ~Waiting' /\ ~playerAction'
        BY <2>6 DEF Consume, AdvanceSeat, Waiting
      <3> QED BY <1>1, <2>1, <3>1, <3>2
          DEF serverLocals, clientVars, Handoff, Flagged, Quiet
    <2> QED BY <1>1, <2>3, <2>4, <2>5, <2>6 DEF QuietStep
  <1>2. CASE /\ SendSync /\ prompted' = prompted \cup {currentId}
             /\ UNCHANGED <<inbox, serverLocals, stray>>
    <2>1. Quiet /\ ~playerAction
      BY <1>2 DEF SendSync, Handoff, Waiting
    <2>2. Asked' /\ Waiting' /\ gPc' # "consume"
      BY <1>2, <2>1 DEF SendSync, Asked, Quiet, Acting, Waiting, tableVars,
         roundVars, serverLocals
    <2> QED BY <2>2 DEF Handoff
  <1> QED BY <1>1, <1>2 DEF GameStep

LEMMA HandoffByAnswer ==
  ASSUME TypeOK, Handoff, NEW p \in Players, Answer(p)
  PROVE  Handoff'
  <1>1. Waiting /\ gPc # "consume" /\ Asked /\ p = currentId
    BY DEF Answer, Handoff, Quiet, Asked, Answered, Handled, Flagged
  <1>2. PICK k \in Kinds \ {"Ping"} : Send(p, k)
    BY DEF Answer
  <1>3. inbox' = Append(<<>>, [player |-> p, kind |-> k])
    BY <1>1, <1>2 DEF Send, Asked
  <1>4. Len(inbox') = 1 /\ inbox'[1].player = p /\ inbox'[1].kind # "Ping"
    BY <1>3
  <1>5. prompted' = {}
    BY <1>1 DEF Answer, Asked
  <1>6. /\ gPc' = gPc /\ currentId' = currentId
        /\ sPc' = sPc /\ playerAction' = playerAction
    BY <1>2 DEF Send, gameVars, serverLocals, tableVars
  <1> QED BY <1>1, <1>4, <1>5, <1>6 DEF Handoff, Waiting, Asked, Answered, Acting

(***************************************************************************)
(* If no player is impatient, the turn of the player asked is in exactly   *)
(* one place and the threads alternate.                                    *)
(***************************************************************************)
THEOREM HandoffHolds == Impatient = {} => (Spec => []Handoff)
  <1> SUFFICES ASSUME Impatient = {} PROVE Spec => []Handoff
      OBVIOUS
  <1>1. Init => Handoff
    BY DEF Init, TableInit, ServerInit, GameInit, Handoff, Waiting, Quiet, Acting
  <1>2. TypeOK /\ Handoff /\ [Next]_vars => Handoff'
    <2> SUFFICES ASSUME TypeOK, Handoff, [Next]_vars PROVE Handoff'
      OBVIOUS
    <2>1. CASE MainStep
      BY <2>1, HandoffByServer
    <2>2. CASE GameStep
      BY <2>2, HandoffByGame
    <2>3. CASE SpuriousWakeup /\ UNCHANGED <<inbox, serverLocals, clientVars>>
      BY <2>3 DEF SpuriousWakeup, gameVars, serverLocals, clientVars, Handoff,
         Waiting, Quiet, Acting, Asked, Answered, Handled, Flagged
    <2>4. CASE \E p \in Players : Answer(p)
      BY <2>4, HandoffByAnswer
    <2>5. CASE \E p \in Players : StrayKey(p)
      BY <2>5 DEF StrayKey
    <2>6. CASE UNCHANGED vars
      BY <2>6 DEF vars, tableVars, gameVars, serverLocals, clientVars, Handoff,
         Waiting, Quiet, Acting, Asked, Answered, Handled, Flagged
    <2> QED BY <2>1, <2>2, <2>3, <2>4, <2>5, <2>6 DEF Next
  <1> QED BY <1>1, <1>2, TypeCorrect, PTL DEF Spec

(***************************************************************************)
(* So no handler runs while the game thread is at work, ...                *)
(***************************************************************************)
THEOREM ThreadsAlternate == Impatient = {} => (Spec => []NoConcurrentHandler)
  <1>1. Handoff => NoConcurrentHandler
    BY DEF Handoff, NoConcurrentHandler, Waiting, Quiet, Asked, Answered,
           Handled, Flagged
  <1> QED BY <1>1, HandoffHolds, PTL

(***************************************************************************)
(* ... and every action handled is the one of the player in turn.          *)
(***************************************************************************)
THEOREM ActionsInTurn == Impatient = {} => (Spec => []ActsInTurn)
  <1>1. Handoff => ActsInTurn
    BY DEF Handoff, ActsInTurn, Waiting, Quiet, Asked, Answered, Handled, Flagged
  <1> QED BY <1>1, HandoffHolds, PTL

-----------------------------------------------------------------------------
(***************************************************************************)
(* The bets.  This one needs no assumption on the players.                 *)
(***************************************************************************)
LEMMA BetBoundStep ==
  ASSUME TypeOK, BetNeverExceedsCurrent, [Next]_vars
  PROVE  BetNeverExceedsCurrent'
  <1> USE DEF BetNeverExceedsCurrent
  <1>a. bet \in [Players -> Nat] /\ currentBet \in Nat
    BY DEF TypeOK, TableTypeOK
  <1>1. ASSUME bet' = bet, currentBet' = currentBet
        PROVE  BetNeverExceedsCurrent'
    BY <1>1
  <1>2. CASE MainStep
    <2>1. CASE DoubleBet
      BY <1>a, <2>1 DEF DoubleBet
    <2>2. CASE UpdatePlayerBet
      BY <1>a, <2>2 DEF UpdatePlayerBet, syncVars
    <2>3. CASE \/ Pop \/ SetPlayerFold \/ PotRead \/ PotWrite \/ PayRead
               \/ PayWrite \/ ToggleRead \/ ToggleWrite \/ Notify
      BY <1>1, <2>3 DEF Pop, SetPlayerFold, PotRead, PotWrite, PayRead,
         PayWrite, ToggleRead, ToggleWrite, Notify, tableVars, moneyVars
    <2> QED BY <1>2, <2>1, <2>2, <2>3 DEF MainStep, ServerStep
  <1>3. CASE QuietStep
    <2>1. CASE BlindBet
      <3>1. BlindAmount \in Nat /\ BlindAmount <= currentBet
        BY <1>a DEF BlindAmount
      <3> QED BY <1>a, <2>1, <3>1 DEF BlindBet, syncVars
    <2>2. CASE ResetPlayer
      BY <1>a, <2>2 DEF ResetPlayer, syncVars
    <2>3. CASE \/ StartGame  \/ Deal       \/ BlindRead \/ BlindPay
               \/ EnterStage \/ DrawBoard  \/ LoopTest  \/ BetsDiffer
               \/ BetsEqual  \/ SkipFolded \/ TestFlag  \/ Sleep
               \/ Wake       \/ Consume    \/ CardChecking \/ ClearPot
      BY <1>1, <2>3 DEF StartGame, Deal, BlindRead, BlindPay, EnterStage,
         DrawBoard, LoopTest, BetsDiffer, BetsEqual, SkipFolded, TestFlag,
         Sleep, Wake, Consume, CardChecking, ClearPot, tableVars, moneyVars
    <2> QED BY <1>3, <2>1, <2>2, <2>3 DEF QuietStep
  <1>4. CASE SendSync
    BY <1>1, <1>4 DEF SendSync, tableVars
  <1>5. CASE SpuriousWakeup
    BY <1>1, <1>5 DEF SpuriousWakeup, moneyVars
  <1>6. CASE \E p \in Players : Answer(p) \/ StrayKey(p)
    BY <1>1, <1>6 DEF Answer, StrayKey, Send, tableVars
  <1>7. CASE UNCHANGED vars
    BY <1>1, <1>7 DEF vars, tableVars
  <1> QED BY <1>2, <1>3, <1>4, <1>5, <1>6, <1>7 DEF Next, GameStep

(***************************************************************************)
(* No player's bet is ever above the current bet, whatever keys are        *)
(* pressed and however the threads interleave.                             *)
(***************************************************************************)
THEOREM BetsBounded == Spec => []BetNeverExceedsCurrent
  <1>1. Init => BetNeverExceedsCurrent
    BY MoneyAssumption DEF Init, TableInit, BetNeverExceedsCurrent
  <1>2. TypeOK /\ BetNeverExceedsCurrent /\ [Next]_vars => BetNeverExceedsCurrent'
    BY BetBoundStep
  <1> QED BY <1>1, <1>2, TypeCorrect, PTL DEF Spec

(***************************************************************************)
(* While a handler is under way the game thread is in its wait and changes *)
(* nothing but the flag; the blinds are collected while none is.           *)
(***************************************************************************)
LEMMA GameWaits ==
  ASSUME Handoff, Acting, GameStep
  PROVE  UNCHANGED <<money, bet, pot, currentBet>>
  <1>1. gPc \in {"test", "presleep", "asleep"}
    BY DEF Handoff, Waiting, Quiet, Asked, Answered, Handled, Flagged
  <1>2. TestFlag \/ Sleep \/ Wake
    BY <1>1 DEF GameStep, QuietStep, SendSync, StartGame, Deal, BlindRead,
       BlindPay, BlindBet, EnterStage, DrawBoard, LoopTest, BetsDiffer,
       BetsEqual, SkipFolded, Consume, CardChecking, ClearPot, ResetPlayer
  <1> QED BY <1>2 DEF TestFlag, Sleep, Wake, tableVars, moneyVars

LEMMA ServerRests ==
  ASSUME Handoff, ~Waiting, MainStep
  PROVE  Notify
  BY DEF MainStep, ServerStep, Handoff, Quiet, Acting, Pop, SetPlayerFold,
     DoubleBet, PotRead, PotWrite, PayRead, PayWrite, UpdatePlayerBet,
     ToggleRead, ToggleWrite

(***************************************************************************)
(* No update is lost.                                                      *)
(***************************************************************************)
LEMMA NoLossStep ==
  ASSUME TypeOK, Handoff, UpdatesAreNotLost, Impatient = {}, [Next]_vars
  PROVE  UpdatesAreNotLost'
  <1> USE DEF UpdatesAreNotLost
  <1>1. CASE MainStep
    <2>1. gPc' = gPc /\ gReg' = gReg /\ cursor' = cursor /\ blinds' = blinds
      BY <1>1 DEF MainStep, gameVars
    <2>2. (gPc = "blindPay" => gReg = money[BlindPlayer] - BlindAmount)'
      <3> SUFFICES ASSUME gPc = "blindPay"
                   PROVE  gReg' = (money[BlindPlayer] - BlindAmount)'
          BY <2>1
      <3>1. Notify
        BY <1>1, ServerRests DEF Waiting
      <3> QED BY <2>1, <3>1
          DEF Notify, moneyVars, BlindPlayer, BlindAmount, Seat
    <2>3. CASE PotRead
      BY <2>2, <2>3 DEF PotRead, moneyVars
    <2>4. CASE PayRead
      BY <2>2, <2>4 DEF PayRead, moneyVars, Owed
    <2>5. CASE \/ Pop \/ SetPlayerFold \/ DoubleBet \/ PotWrite
               \/ PayWrite \/ UpdatePlayerBet \/ ToggleRead \/ ToggleWrite
               \/ Notify
      <3>1. sPc' # "potWrite" /\ sPc' # "payWrite"
        BY <2>5 DEF Pop, SetPlayerFold, DoubleBet, PotWrite, PayWrite,
           UpdatePlayerBet, ToggleRead, ToggleWrite, Notify
      <3> QED BY <2>2, <3>1
    <2> QED BY <1>1, <2>3, <2>4, <2>5 DEF MainStep, ServerStep
  <1>2. CASE GameStep
    <2>1. sPc' = sPc /\ sReg' = sReg /\ sMsg' = sMsg
      BY <1>2 DEF GameStep, serverLocals
    <2>2. /\ (sPc = "potWrite" => sReg = pot + currentBet)'
          /\ (sPc = "payWrite" => sReg = money[sMsg.player] - Owed)'
      BY <1>2, <2>1, GameWaits DEF Acting, Owed
    <2>3. (gPc = "blindPay" => gReg = money[BlindPlayer] - BlindAmount)'
      <3>1. CASE BlindRead
        BY <3>1 DEF BlindRead, tableVars, handVars, BlindPlayer, BlindAmount, Seat
      <3>2. ASSUME ~BlindRead PROVE gPc' # "blindPay"
        BY <1>2, <3>2 DEF GameStep, QuietStep, SendSync, StartGame, Deal,
           BlindPay, BlindBet, EnterStage, DrawBoard, LoopTest, BetsDiffer,
           BetsEqual, SkipFolded, TestFlag, Sleep, Wake, Consume, AdvanceSeat,
           CardChecking, ClearPot, ResetPlayer
      <3> QED BY <3>1, <3>2
    <2> QED BY <2>2, <2>3
  <1>3. CASE UNCHANGED <<moneyVars, activePlayersId, serverLocals, gameVars>>
    BY <1>3 DEF moneyVars, serverLocals, gameVars, Owed, BlindPlayer,
       BlindAmount, Seat
  <1>4. CASE SpuriousWakeup /\ UNCHANGED <<inbox, serverLocals, clientVars>>
    BY <1>3, <1>4 DEF SpuriousWakeup
  <1>5. CASE \E p \in Players : Answer(p)
    BY <1>3, <1>5 DEF Answer, Send, tableVars, moneyVars
  <1>6. CASE UNCHANGED vars
    BY <1>3, <1>6 DEF vars, tableVars, moneyVars
  <1> QED BY <1>1, <1>2, <1>4, <1>5, <1>6 DEF Next, StrayKey

(***************************************************************************)
(* When no player presses a key out of turn, no update of the pot or of a  *)
(* player's money overwrites another, although GameState does nothing to   *)
(* prevent it.                                                             *)
(***************************************************************************)
THEOREM NoUpdateLost == Impatient = {} => (Spec => []UpdatesAreNotLost)
  <1> SUFFICES ASSUME Impatient = {} PROVE Spec => []UpdatesAreNotLost
      OBVIOUS
  <1>1. Init => UpdatesAreNotLost
    BY DEF Init, ServerInit, GameInit, UpdatesAreNotLost
  <1>2. TypeOK /\ Handoff /\ UpdatesAreNotLost /\ [Next]_vars => UpdatesAreNotLost'
    BY NoLossStep
  <1>3. Spec => []Handoff
    BY HandoffHolds
  <1> QED BY <1>1, <1>2, <1>3, TypeCorrect, PTL DEF Spec

-----------------------------------------------------------------------------
(***************************************************************************)
(* Bets are covered by money spent.  Money is paid before the bet is       *)
(* recorded, so in between the payment must cover the bet to come.         *)
(***************************************************************************)
Spent(p) == InitialMoney - money[p]

Backing ==
    /\ BetsAreBacked
    /\ sPc = "setBet" => currentBet <= Spent(sMsg.player)
    /\ gPc = "blindBet" => BlindAmount <= Spent(BlindPlayer)

LEMMA BackingByServer ==
  ASSUME TypeOK, Handoff, BetNeverExceedsCurrent, UpdatesAreNotLost, Backing,
         MainStep
  PROVE  Backing'
  <1>a. /\ money \in [Players -> Int] /\ bet \in [Players -> Nat]
        /\ currentBet \in Nat /\ InitialMoney \in Nat
        /\ sPc # "idle" => sMsg.player \in Players /\ sMsg.kind \in Kinds
    BY MoneyAssumption DEF TypeOK, TableTypeOK, ServerTypeOK, Messages
  <1>b. gPc' = gPc /\ cursor' = cursor /\ blinds' = blinds
    BY DEF MainStep, gameVars
  <1>1. (gPc = "blindBet" => BlindAmount <= Spent(BlindPlayer))'
    <2> SUFFICES ASSUME gPc = "blindBet"
                 PROVE  (BlindAmount <= Spent(BlindPlayer))'
        BY <1>b
    <2>1. Notify
      BY ServerRests DEF Waiting
    <2> QED BY <1>b, <2>1
        DEF Notify, moneyVars, BlindPlayer, BlindAmount, Seat, Spent, Backing
  <1>2. CASE PayWrite
    <2> DEFINE p == sMsg.player
    <2>1. /\ p \in Players /\ money' = [money EXCEPT ![p] = sReg]
          /\ bet' = bet /\ currentBet' = currentBet
          /\ sMsg' = sMsg /\ sPc' = "setBet"
      BY <1>2, <1>a DEF PayWrite
    <2>2. sReg = money[p] - Owed
      BY <1>2 DEF PayWrite, UpdatesAreNotLost
    <2>3. Owed \in Int /\ Owed >= 0 /\ Owed + bet[p] >= currentBet
      BY <1>a, <2>1 DEF Owed, BetNeverExceedsCurrent
    <2>4. bet[p] <= InitialMoney - money[p]
      BY <2>1 DEF Backing, BetsAreBacked
    <2>5. money'[p] = money[p] - Owed
      BY <1>a, <2>1, <2>2
    <2>6. currentBet <= InitialMoney - money'[p] /\ bet[p] <= InitialMoney - money'[p]
      BY <1>a, <2>1, <2>3, <2>4, <2>5
    <2>7. \A q \in Players : bet[q] <= InitialMoney - money'[q]
      BY <1>a, <2>1, <2>6 DEF Backing, BetsAreBacked
    <2> QED BY <1>1, <2>1, <2>6, <2>7 DEF Backing, BetsAreBacked, Spent
  <1>3. CASE UpdatePlayerBet
    <2>1. /\ bet' = [bet EXCEPT ![sMsg.player] = currentBet]
          /\ money' = money /\ sPc' = "toggleRead"
      BY <1>3 DEF UpdatePlayerBet
    <2>2. currentBet <= InitialMoney - money[sMsg.player]
      BY <1>3 DEF UpdatePlayerBet, Backing, Spent
    <2>3. \A q \in Players : bet'[q] <= InitialMoney - money[q]
      BY <1>a, <2>1, <2>2 DEF Backing, BetsAreBacked
    <2> QED BY <1>1, <2>1, <2>3 DEF Backing, BetsAreBacked
  <1>4. CASE \/ Pop \/ SetPlayerFold \/ DoubleBet \/ PotRead \/ PotWrite
             \/ PayRead \/ ToggleRead \/ ToggleWrite \/ Notify
    <2>1. money' = money /\ bet' = bet /\ sPc' # "setBet"
      BY <1>4 DEF Pop, SetPlayerFold, DoubleBet, PotRead, PotWrite, PayRead,
         ToggleRead, ToggleWrite, Notify, tableVars, moneyVars
    <2> QED BY <1>1, <2>1 DEF Backing, BetsAreBacked
  <1> QED BY <1>2, <1>3, <1>4 DEF MainStep, ServerStep

LEMMA BackingByGame ==
  ASSUME TypeOK, Handoff, UpdatesAreNotLost, Backing, GameStep
  PROVE  Backing'
  <1>a. /\ money \in [Players -> Int] /\ bet \in [Players -> Nat]
        /\ currentBet \in Nat /\ InitialMoney \in Nat
    BY MoneyAssumption DEF TypeOK, TableTypeOK
  <1>b. sPc' = sPc /\ sMsg' = sMsg
    BY DEF GameStep, serverLocals
  <1>c. (sPc = "setBet" => currentBet <= Spent(sMsg.player))'
    BY <1>b, GameWaits DEF Acting, Backing, Spent
  <1>d. BlindPlayer \in Players \/ gPc \notin {"blindPay", "blindBet"}
    BY SeatIsPlayer DEF BlindPlayer, TypeOK, GameTypeOK
  <1>1. CASE BlindPay
    <2> DEFINE p == BlindPlayer
    <2>1. /\ p \in Players /\ money' = [money EXCEPT ![p] = gReg]
          /\ bet' = bet /\ currentBet' = currentBet /\ cursor' = cursor
          /\ blinds' = blinds /\ activePlayersId' = activePlayersId
      BY <1>1, <1>d DEF BlindPay, handVars
    <2>2. gReg = money[p] - BlindAmount /\ BlindAmount \in Nat
      BY <1>1, <1>a DEF BlindPay, UpdatesAreNotLost, BlindAmount
    <2>3. bet[p] <= InitialMoney - money[p]
      BY <2>1 DEF Backing, BetsAreBacked
    <2>4. money'[p] = money[p] - BlindAmount
      BY <1>a, <2>1, <2>2
    <2>5. BlindAmount <= InitialMoney - money'[p] /\ bet[p] <= InitialMoney - money'[p]
      BY <1>a, <2>1, <2>2, <2>3, <2>4
    <2>6. \A q \in Players : bet[q] <= InitialMoney - money'[q]
      BY <1>a, <2>1, <2>5 DEF Backing, BetsAreBacked
    <2>7. BlindPlayer' = BlindPlayer /\ BlindAmount' = BlindAmount
      BY <2>1 DEF BlindPlayer, BlindAmount, Seat
    <2> QED BY <1>c, <2>1, <2>5, <2>6, <2>7 DEF Backing, BetsAreBacked, Spent
  <1>2. CASE BlindBet
    <2>1. /\ bet' = [bet EXCEPT ![BlindPlayer] = BlindAmount]
          /\ money' = money /\ gPc' # "blindBet"
      BY <1>2 DEF BlindBet
    <2>2. BlindAmount <= InitialMoney - money[BlindPlayer]
      BY <1>2 DEF BlindBet, Backing, Spent
    <2>3. \A q \in Players : bet'[q] <= InitialMoney - money[q]
      BY <1>a, <2>1, <2>2 DEF Backing, BetsAreBacked
    <2> QED BY <1>c, <2>1, <2>3 DEF Backing, BetsAreBacked
  <1>3. CASE ResetPlayer
    <2>1. /\ bet' = [bet EXCEPT ![MapOrder[cursor]] = 0]
          /\ money' = money /\ gPc' # "blindBet"
      BY <1>3 DEF ResetPlayer
    <2>2. \A q \in Players : bet'[q] <= bet[q]
      BY <1>a, <2>1
    <2>3. \A q \in Players : bet'[q] <= InitialMoney - money[q]
      BY <1>a, <2>1, <2>2 DEF Backing, BetsAreBacked
    <2> QED BY <1>c, <2>1, <2>3 DEF Backing, BetsAreBacked
  <1>4. CASE CardChecking
    <2>1. NumActive # 1
      BY ActiveLength, NumPlayersAssumption
    <2>2. money' = money /\ bet' = bet /\ gPc' # "blindBet"
      BY <1>4, <2>1 DEF CardChecking
    <2> QED BY <1>c, <2>2 DEF Backing, BetsAreBacked
  <1>5. CASE \/ StartGame  \/ Deal       \/ BlindRead \/ EnterStage
             \/ DrawBoard  \/ LoopTest   \/ BetsDiffer \/ BetsEqual
             \/ SkipFolded \/ SendSync   \/ TestFlag  \/ Sleep
             \/ Wake       \/ Consume    \/ ClearPot
    <2>1. money' = money /\ bet' = bet /\ gPc' # "blindBet"
      BY <1>5 DEF StartGame, Deal, BlindRead, EnterStage, DrawBoard, LoopTest,
         BetsDiffer, BetsEqual, SkipFolded, SendSync, TestFlag, Sleep, Wake,
         Consume, AdvanceSeat, ClearPot, tableVars, moneyVars
    <2> QED BY <1>c, <2>1 DEF Backing, BetsAreBacked
  <1> QED BY <1>1, <1>2, <1>3, <1>4, <1>5 DEF GameStep, QuietStep

(***************************************************************************)
(* When no player presses a key out of turn, every bet on the table is     *)
(* covered by money its player has really spent.                           *)
(***************************************************************************)
THEOREM BetsBacked == Impatient = {} => (Spec => []BetsAreBacked)
  <1> SUFFICES ASSUME Impatient = {} PROVE Spec => []BetsAreBacked
      OBVIOUS
  <1>1. Init => Backing
    BY MoneyAssumption DEF Init, TableInit, ServerInit, GameInit, Backing,
       BetsAreBacked
  <1>2. TypeOK /\ Handoff /\ BetNeverExceedsCurrent /\ UpdatesAreNotLost
        /\ Backing /\ [Next]_vars => Backing'
    <2> SUFFICES ASSUME TypeOK, Handoff, BetNeverExceedsCurrent,
                        UpdatesAreNotLost, Backing, [Next]_vars
                 PROVE  Backing'
        OBVIOUS
    <2>1. CASE MainStep
      BY <2>1, BackingByServer
    <2>2. CASE GameStep
      BY <2>2, BackingByGame
    <2>3. CASE UNCHANGED <<moneyVars, activePlayersId, serverLocals, gameVars>>
      BY <2>3 DEF moneyVars, serverLocals, gameVars, Backing, BetsAreBacked,
         Spent, BlindAmount, BlindPlayer, Seat
    <2>4. CASE SpuriousWakeup /\ UNCHANGED <<inbox, serverLocals, clientVars>>
      BY <2>3, <2>4 DEF SpuriousWakeup
    <2>5. CASE \E p \in Players : Answer(p)
      BY <2>3, <2>5 DEF Answer, Send, tableVars, moneyVars
    <2>6. CASE UNCHANGED vars
      BY <2>3, <2>6 DEF vars, tableVars, moneyVars
    <2> QED BY <2>1, <2>2, <2>4, <2>5, <2>6 DEF Next, StrayKey
  <1>3. Backing => BetsAreBacked
    BY DEF Backing
  <1>4. Spec => []Handoff
    BY HandoffHolds
  <1>5. Spec => []UpdatesAreNotLost
    BY NoUpdateLost
  <1> QED BY <1>1, <1>2, <1>3, <1>4, <1>5, TypeCorrect, BetsBounded, PTL DEF Spec

-----------------------------------------------------------------------------
(***************************************************************************)
(* That PokerServer implements AtomicTable, and how its betting rounds     *)
(* end, for players who answer only when asked.                            *)
(***************************************************************************)

(***************************************************************************)
(* What links the server to the table besides the handoff and the updates  *)
(* that are not lost: which actions pay, that a raise doubled the current  *)
(* bet, and how far the reset of the players got.                          *)
(***************************************************************************)
PaysForAction ==
    /\ Paying => sMsg.kind \in {"Call", "Raise"}
    /\ sPc = "double" => sMsg.kind = "Raise"
    /\ Paying /\ sMsg.kind = "Raise" => currentBet = 2 * (currentBet \div 2)

ResetSoFar ==
    gPc = "reset" => \A i \in 1 .. cursor - 1 :
        bet[MapOrder[i]] = 0 /\ ~folded[MapOrder[i]]

Linked == PaysForAction /\ ResetSoFar

LEMMA PaysByServer ==
  ASSUME TypeOK, PaysForAction, MainStep
  PROVE  PaysForAction'
  <1> USE DEF PaysForAction, Paying
  <1>1. CASE Pop
    BY <1>1 DEF Pop
  <1>2. CASE DoubleBet
    <2>1. currentBet' = 2 * currentBet /\ currentBet \in Nat
      BY <1>2 DEF DoubleBet, TypeOK, TableTypeOK
    <2>2. currentBet' = 2 * (currentBet' \div 2)
      BY <2>1
    <2> QED BY <1>2, <2>2 DEF DoubleBet
  <1>3. CASE PotRead \/ PotWrite \/ PayRead \/ PayWrite
    BY <1>3 DEF PotRead, PotWrite, PayRead, PayWrite, moneyVars
  <1>4. CASE SetPlayerFold \/ UpdatePlayerBet \/ ToggleRead \/ ToggleWrite \/ Notify
    BY <1>4 DEF SetPlayerFold, UpdatePlayerBet, ToggleRead, ToggleWrite, Notify
  <1> QED BY <1>1, <1>2, <1>3, <1>4 DEF MainStep, ServerStep

LEMMA LinkedByServer ==
  ASSUME TypeOK, Handoff, Linked, MainStep
  PROVE  Linked'
  <1>1. PaysForAction'
    BY PaysByServer DEF Linked
  <1>2. ASSUME gPc = "reset" PROVE ResetSoFar'
    <2>1. Notify
      BY <1>2, ServerRests DEF Waiting
    <2> QED BY <2>1 DEF Linked, ResetSoFar, MainStep, gameVars, Notify, moneyVars
  <1>3. ASSUME gPc # "reset" PROVE ResetSoFar'
    BY <1>3 DEF ResetSoFar, MainStep, gameVars
  <1> QED BY <1>1, <1>2, <1>3 DEF Linked

LEMMA LinkedByGame ==
  ASSUME TypeOK, Handoff, Linked, GameStep
  PROVE  Linked'
  <1>1. PaysForAction'
    <2>1. sPc' = sPc /\ sMsg' = sMsg
      BY DEF GameStep, serverLocals
    <2>2. Paying => currentBet' = currentBet
      BY GameWaits DEF Paying, Acting
    <2> QED BY <2>1, <2>2 DEF Linked, PaysForAction, Paying
  <1>2. CASE ResetPlayer
    <2>1. /\ bet' = [bet EXCEPT ![MapOrder[cursor]] = 0]
          /\ folded' = [folded EXCEPT ![MapOrder[cursor]] = FALSE]
          /\ gPc' = "reset" => cursor' = cursor + 1
      BY <1>2 DEF ResetPlayer
    <2>2. cursor \in 1 .. NumPlayers /\ MapOrder \in [1 .. NumPlayers -> Players]
      BY MapOrderAssumption DEF TypeOK, GameTypeOK
    <2>3. bet \in [Players -> Nat] /\ folded \in [Players -> BOOLEAN]
      BY DEF TypeOK, TableTypeOK
    <2>4. ASSUME NEW i \in 1 .. cursor, gPc' = "reset"
          PROVE  bet'[MapOrder[i]] = 0 /\ ~folded'[MapOrder[i]]
      <3>1. i \in 1 .. NumPlayers /\ MapOrder[i] \in Players
        BY <2>2, NumPlayersAssumption
      <3>2. CASE MapOrder[i] = MapOrder[cursor]
        BY <2>1, <2>3, <3>1, <3>2
      <3>3. CASE MapOrder[i] # MapOrder[cursor]
        <4>1. i \in 1 .. cursor - 1
          BY <2>2, <3>3
        <4>2. bet[MapOrder[i]] = 0 /\ ~folded[MapOrder[i]]
          BY <1>2, <4>1 DEF ResetPlayer, Linked, ResetSoFar
        <4>3. /\ bet'[MapOrder[i]] = bet[MapOrder[i]]
              /\ folded'[MapOrder[i]] = folded[MapOrder[i]]
          BY <2>1, <2>3, <3>1, <3>3
        <4> QED BY <4>2, <4>3
      <3> QED BY <3>2, <3>3
    <2>5. gPc' = "reset" => 1 .. cursor' - 1 = 1 .. cursor
      BY <2>1, <2>2
    <2>6. MapOrder' = MapOrder
      OBVIOUS
    <2>7. ResetSoFar'
      BY <2>4, <2>5 DEF ResetSoFar
    <2> QED BY <1>1, <2>7 DEF Linked
  <1>3. CASE ClearPot
    BY <1>1, <1>3 DEF ClearPot, Linked, ResetSoFar
  <1>4. CASE \/ StartGame  \/ Deal       \/ BlindRead \/ BlindPay \/ BlindBet
             \/ EnterStage \/ DrawBoard  \/ LoopTest  \/ BetsDiffer
             \/ BetsEqual  \/ SkipFolded \/ TestFlag  \/ Sleep    \/ Wake
             \/ Consume    \/ CardChecking \/ SendSync
    <2>1. gPc' # "reset"
      BY <1>4 DEF StartGame, Deal, BlindRead, BlindPay, BlindBet, EnterStage,
         DrawBoard, LoopTest, BetsDiffer, BetsEqual, SkipFolded, TestFlag,
         Sleep, Wake, Consume, AdvanceSeat, CardChecking, SendSync
    <2> QED BY <1>1, <2>1 DEF Linked, ResetSoFar
  <1> QED BY <1>2, <1>3, <1>4 DEF GameStep, QuietStep

LEMMA LinkedStep ==
  ASSUME TypeOK, Handoff, Linked, Impatient = {}, [Next]_vars
  PROVE  Linked'
  <1>1. CASE MainStep
    BY <1>1, LinkedByServer
  <1>2. CASE GameStep
    BY <1>2, LinkedByGame
  <1>3. CASE UNCHANGED <<moneyVars, serverLocals, gameVars>>
    BY <1>3 DEF moneyVars, serverLocals, gameVars, Linked, PaysForAction,
       Paying, ResetSoFar
  <1>4. CASE SpuriousWakeup /\ UNCHANGED <<inbox, serverLocals, clientVars>>
    BY <1>3, <1>4 DEF SpuriousWakeup
  <1>5. CASE \E p \in Players : Answer(p)
    BY <1>3, <1>5 DEF Answer, Send, tableVars, moneyVars
  <1>6. CASE UNCHANGED vars
    BY <1>3, <1>6 DEF vars, tableVars, moneyVars
  <1> QED BY <1>1, <1>2, <1>4, <1>5, <1>6 DEF Next, StrayKey

(***************************************************************************)
(* All of it holds when no player is impatient.                            *)
(***************************************************************************)
THEOREM LinkHolds == Impatient = {} => (Spec => []Linked)
  <1> SUFFICES ASSUME Impatient = {} PROVE Spec => []Linked
      OBVIOUS
  <1>1. Init => Linked
    BY DEF Init, ServerInit, GameInit, Linked, PaysForAction, Paying, ResetSoFar
  <1>2. TypeOK /\ Handoff /\ Linked /\ [Next]_vars => Linked'
    BY LinkedStep
  <1>3. Spec => []Handoff
    BY HandoffHolds
  <1> QED BY <1>1, <1>2, <1>3, TypeCorrect, PTL DEF Spec

-----------------------------------------------------------------------------
(***************************************************************************)
(* The refinement.                                                         *)
(***************************************************************************)
LEMMA Stutter ==
  ASSUME UNCHANGED <<SeenMoney, SeenBet, SeenFolded, SeenCurrentBet, SeenPot, SeenToAct>>
  PROVE  [Table!Next]_(Table!tableState)
  BY DEF Table!tableState

\* What the players see is what is in memory while the main thread is not in
\* the middle of a payment and the game thread neither takes a blind nor
\* resets the players.
LEMMA PlainView ==
  /\ sPc # "setBet" /\ gPc # "blindBet" => SeenMoney = money
  /\ gPc # "reset" => SeenBet = bet /\ SeenFolded = folded
  /\ ~Paying => SeenCurrentBet = currentBet
  /\ ~PotAdded => SeenPot = pot
  /\ ~Waiting => SeenToAct = NoPlayer
  BY DEF SeenMoney, SeenBet, SeenFolded, SeenCurrentBet, SeenPot, SeenToAct

\* The money of a player given back what was taken.
LEMMA UndoneTaken ==
  ASSUME NEW m \in [Players -> Int], NEW p \in Players, NEW amount \in Int
  PROVE  Undone([m EXCEPT ![p] = m[p] - amount], p, amount) = m
  <1> DEFINE taken == [m EXCEPT ![p] = m[p] - amount]
  <1>1. taken \in [Players -> Int] /\ taken[p] = m[p] - amount
    OBVIOUS
  <1>2. \A q \in Players : q # p => taken[q] = m[q]
    OBVIOUS
  <1> HIDE DEF taken
  <1> DEFINE back == [taken EXCEPT ![p] = @ + amount]
  <1>3. back \in [Players -> Int] /\ back[p] = taken[p] + amount
    BY <1>1
  <1>4. \A q \in Players : q # p => back[q] = taken[q]
    BY <1>1
  <1>5. back[p] = m[p]
    BY <1>1, <1>3
  <1> HIDE DEF back
  <1>6. back = m
    BY <1>2, <1>3, <1>4, <1>5
  <1> QED BY <1>6 DEF Undone, taken, back

LEMMA TakenUndone ==
  ASSUME NEW m \in [Players -> Int], NEW p \in Players, NEW amount \in Int
  PROVE  m = [Undone(m, p, amount) EXCEPT ![p] = @ - amount]
  <1> DEFINE back == [m EXCEPT ![p] = @ + amount]
  <1>1. back \in [Players -> Int] /\ back[p] = m[p] + amount
    OBVIOUS
  <1>2. \A q \in Players : q # p => back[q] = m[q]
    OBVIOUS
  <1> HIDE DEF back
  <1> DEFINE taken == [back EXCEPT ![p] = @ - amount]
  <1>3. taken \in [Players -> Int] /\ taken[p] = back[p] - amount
    BY <1>1
  <1>4. \A q \in Players : q # p => taken[q] = back[q]
    BY <1>1
  <1>5. taken[p] = m[p]
    BY <1>1, <1>3
  <1> HIDE DEF taken
  <1>6. taken = m
    BY <1>2, <1>3, <1>4, <1>5
  <1> QED BY <1>6 DEF Undone, taken, back

LEMMA RefinedByServer ==
  ASSUME TypeOK, Handoff, UpdatesAreNotLost, Linked, MainStep
  PROVE  [Table!Next]_(Table!tableState)
  <1>a. /\ money \in [Players -> Int] /\ bet \in [Players -> Nat]
        /\ folded \in [Players -> BOOLEAN]
        /\ currentBet \in Nat /\ pot \in Int
        /\ sPc # "idle" => sMsg.player \in Players /\ sMsg.kind \in Kinds
        /\ currentId \in Players /\ sReg \in Int
    BY DEF TypeOK, TableTypeOK, ServerTypeOK, GameTypeOK, Messages
  <1>b. UNCHANGED <<gPc, cursor, blinds, currentId>>
    BY DEF MainStep, gameVars
  <1>c. ASSUME Acting
        PROVE  /\ gPc \in {"test", "presleep", "asleep"} /\ ~playerAction
               /\ sMsg.player = currentId /\ Waiting
               /\ SeenBet = bet /\ SeenFolded = folded
               /\ (SeenBet = bet)' /\ (SeenFolded = folded)'
    BY <1>b, <1>c DEF Handoff, Quiet, Asked, Answered, Handled, Flagged, Waiting,
       SeenBet, SeenFolded
  <1>d. NoPlayer \notin Players
    BY NumPlayersAssumption DEF NoPlayer, Players
  <1>1. CASE Pop
    <2>1. UNCHANGED <<money, bet, folded, currentBet, pot, activePlayersId, playerAction>>
      BY <1>1 DEF Pop, tableVars
    <2>2. /\ sPc' \in {"idle", "fold", "potRead", "double"} /\ sPc = "idle"
          /\ sPc' = "potRead" => sMsg'.kind = "Call"
      BY <1>1 DEF Pop
    <2>3. UNCHANGED <<SeenMoney, SeenBet, SeenFolded>>
      BY <1>b, <2>1, <2>2 DEF SeenMoney, SeenBet, SeenFolded, BlindPlayer, BlindAmount, Seat
    <2>4. UNCHANGED <<SeenCurrentBet, SeenPot, SeenToAct>>
      BY <1>b, <2>1, <2>2 DEF SeenCurrentBet, SeenPot, SeenToAct, Paying, PotAdded, Waiting
    <2> QED BY <2>3, <2>4, Stutter
  <1>2. CASE SetPlayerFold
    <2> DEFINE p == sMsg.player
    <2>1. Acting /\ p \in Players
      BY <1>2, <1>a DEF SetPlayerFold, Acting
    <2>2. UNCHANGED <<money, bet, currentBet, pot>> /\ folded' = [folded EXCEPT ![p] = TRUE]
      BY <1>2 DEF SetPlayerFold
    <2>3. UNCHANGED <<SeenMoney, SeenBet, SeenCurrentBet, SeenPot>>
      BY <1>2, <1>b, <1>c, <2>1, <2>2 DEF SetPlayerFold, SeenMoney, SeenBet,
         SeenCurrentBet, SeenPot, Paying, PotAdded
    <2>4. SeenToAct = p /\ SeenToAct' = NoPlayer
      BY <1>2, <1>c, <2>1 DEF SetPlayerFold, SeenToAct
    <2>5. SeenFolded' = [SeenFolded EXCEPT ![p] = TRUE]
      BY <1>c, <2>1, <2>2
    <2>6. Table!Fold(p)
      BY <2>3, <2>4, <2>5 DEF Table!Fold
    <2> QED BY <2>1, <2>6 DEF Table!Next
  <1>3. CASE DoubleBet
    <2>1. /\ Acting /\ currentBet' = 2 * currentBet /\ sPc = "double" /\ sPc' = "potRead"
          /\ UNCHANGED <<money, bet, folded, pot, playerAction, sMsg>>
          /\ sMsg.kind = "Raise"
      BY <1>3 DEF DoubleBet, Acting, Linked, PaysForAction
    <2>2. (2 * currentBet) \div 2 = currentBet
      BY <1>a
    <2>3. UNCHANGED SeenCurrentBet
      BY <2>1, <2>2 DEF SeenCurrentBet, Paying
    <2>4. UNCHANGED <<SeenMoney, SeenBet, SeenFolded>>
      BY <1>b, <1>c, <2>1 DEF SeenMoney
    <2>5. UNCHANGED <<SeenPot, SeenToAct>>
      BY <1>b, <2>1 DEF SeenPot, SeenToAct, PotAdded, Waiting
    <2> QED BY <2>3, <2>4, <2>5, Stutter
  <1>4. CASE PotRead
    <2>1. /\ Acting /\ sPc = "potRead" /\ sPc' = "potWrite"
          /\ UNCHANGED <<money, bet, folded, currentBet, pot, playerAction, sMsg>>
      BY <1>4 DEF PotRead, Acting, moneyVars
    <2>2. UNCHANGED <<SeenMoney, SeenBet, SeenFolded>>
      BY <1>b, <1>c, <2>1 DEF SeenMoney
    <2>3. UNCHANGED <<SeenCurrentBet, SeenPot, SeenToAct>>
      BY <1>b, <2>1 DEF SeenCurrentBet, SeenPot, SeenToAct, Paying, PotAdded, Waiting
    <2> QED BY <2>2, <2>3, Stutter
  <1>5. CASE PotWrite
    <2>1. /\ Acting /\ sPc = "potWrite" /\ sPc' = "payRead" /\ pot' = sReg
          /\ UNCHANGED <<money, bet, folded, currentBet, playerAction, sMsg>>
      BY <1>5 DEF PotWrite, Acting
    <2>2. sReg = pot + currentBet
      BY <2>1 DEF UpdatesAreNotLost
    <2>3. SeenPot = pot /\ SeenPot' = pot
      BY <1>a, <2>1, <2>2 DEF SeenPot, PotAdded
    <2>4. UNCHANGED <<SeenMoney, SeenBet, SeenFolded>>
      BY <1>b, <1>c, <2>1 DEF SeenMoney
    <2>5. UNCHANGED <<SeenCurrentBet, SeenToAct>>
      BY <1>b, <2>1 DEF SeenCurrentBet, SeenToAct, Paying, Waiting
    <2> QED BY <2>3, <2>4, <2>5, Stutter
  <1>6. CASE PayRead
    <2>1. /\ Acting /\ sPc = "payRead" /\ sPc' = "payWrite"
          /\ UNCHANGED <<money, bet, folded, currentBet, pot, playerAction, sMsg>>
      BY <1>6 DEF PayRead, Acting, moneyVars
    <2>2. UNCHANGED <<SeenMoney, SeenBet, SeenFolded>>
      BY <1>b, <1>c, <2>1 DEF SeenMoney
    <2>3. UNCHANGED <<SeenCurrentBet, SeenPot, SeenToAct>>
      BY <1>b, <2>1 DEF SeenCurrentBet, SeenPot, SeenToAct, Paying, PotAdded, Waiting
    <2> QED BY <2>2, <2>3, Stutter
  <1>7. CASE PayWrite
    <2> DEFINE p == sMsg.player
    <2>1. /\ Acting /\ sPc = "payWrite" /\ sPc' = "setBet" /\ p \in Players
          /\ money' = [money EXCEPT ![p] = sReg]
          /\ UNCHANGED <<bet, folded, currentBet, pot, playerAction, sMsg>>
      BY <1>7, <1>a DEF PayWrite, Acting
    <2>2. sReg = money[p] - Owed /\ Owed \in Int /\ Owed' = Owed
      BY <1>a, <2>1 DEF UpdatesAreNotLost, Owed
    <2>3. money' = [money EXCEPT ![p] = money[p] - Owed]
      BY <2>1, <2>2
    <2>4. Undone(money', p, Owed) = money
      BY <1>a, <2>1, <2>2, <2>3, UndoneTaken
    <2>5. SeenMoney = money
      BY <1>c, <2>1 DEF SeenMoney
    <2>6. SeenMoney' = Undone(money', p, Owed)
      BY <2>1, <2>2 DEF SeenMoney
    <2>7. UNCHANGED <<SeenBet, SeenFolded>>
      BY <1>c, <2>1
    <2>8. UNCHANGED <<SeenCurrentBet, SeenPot, SeenToAct>>
      BY <1>b, <2>1 DEF SeenCurrentBet, SeenPot, SeenToAct, Paying, PotAdded, Waiting
    <2> QED BY <2>4, <2>5, <2>6, <2>7, <2>8, Stutter
  <1>8. CASE UpdatePlayerBet
    <2> DEFINE p == sMsg.player
    <2>1. /\ Acting /\ sPc = "setBet" /\ sPc' = "toggleRead" /\ p \in Players
          /\ bet' = [bet EXCEPT ![p] = currentBet]
          /\ UNCHANGED <<money, folded, currentBet, pot, playerAction, sMsg>>
      BY <1>8, <1>a DEF UpdatePlayerBet, Acting, syncVars
    <2>2. Owed \in Int
      BY <1>a, <2>1 DEF Owed
    <2>3. SeenToAct = p /\ SeenToAct' = NoPlayer
      BY <1>c, <2>1 DEF SeenToAct
    <2>4. SeenPot = pot - currentBet /\ SeenPot' = pot /\ pot = SeenPot + currentBet
      BY <1>a, <2>1 DEF SeenPot, PotAdded
    <2>5. SeenMoney' = money
      BY <1>b, <1>c, <2>1 DEF SeenMoney
    <2>6. SeenMoney = Undone(money, p, Owed)
      BY <2>1 DEF SeenMoney
    <2>7. money = [SeenMoney EXCEPT ![p] = @ - Owed]
      BY <1>a, <2>1, <2>2, <2>6, TakenUndone
    <2>8. SeenBet' = [SeenBet EXCEPT ![p] = currentBet] /\ UNCHANGED SeenFolded
      BY <1>c, <2>1
    <2>9. SeenCurrentBet' = currentBet
      BY <2>1 DEF SeenCurrentBet, Paying
    <2>10. Table!Stake(p, currentBet, Owed)
      BY <2>3, <2>4, <2>5, <2>7, <2>8 DEF Table!Stake
    <2>11. CASE sMsg.kind = "Call"
      <3>1. SeenCurrentBet = currentBet /\ Owed = currentBet - SeenBet[p]
        BY <1>c, <2>1, <2>11 DEF SeenCurrentBet, Owed
      <3>2. Table!Call(p)
        BY <2>9, <2>10, <3>1 DEF Table!Call
      <3> QED BY <2>1, <3>2 DEF Table!Next
    <2>12. CASE sMsg.kind = "Raise"
      <3>1. SeenCurrentBet = currentBet \div 2 /\ Owed = currentBet
        BY <2>1, <2>12 DEF SeenCurrentBet, Owed, Paying
      <3>2. currentBet = 2 * SeenCurrentBet
        BY <2>1, <2>12, <3>1 DEF Linked, PaysForAction, Paying
      <3>3. Table!Raise(p)
        BY <2>9, <2>10, <3>1, <3>2 DEF Table!Raise
      <3> QED BY <2>1, <3>3 DEF Table!Next
    <2> QED BY <2>1, <2>11, <2>12 DEF Linked, PaysForAction, Paying
  <1>9. CASE ToggleRead \/ ToggleWrite
    <2>1. /\ Acting /\ sPc \in {"toggleRead", "toggleWrite"}
          /\ sPc' \in {"toggleWrite", "notify"}
          /\ UNCHANGED <<money, bet, folded, currentBet, pot, sMsg>>
          /\ sPc' = "notify" => playerAction' = sFlip /\ sPc = "toggleWrite"
      BY <1>9 DEF ToggleRead, ToggleWrite, Acting, moneyVars
    <2>2. sPc = "toggleWrite" => sFlip
      BY <2>1 DEF Handoff, Quiet, Asked, Answered, Handled, Flagged
    <2>3. SeenToAct = NoPlayer /\ SeenToAct' = NoPlayer
      BY <2>1, <2>2 DEF SeenToAct
    <2>4. UNCHANGED <<SeenMoney, SeenBet, SeenFolded>>
      BY <1>b, <1>c, <2>1 DEF SeenMoney
    <2>5. UNCHANGED <<SeenCurrentBet, SeenPot>>
      BY <2>1 DEF SeenCurrentBet, SeenPot, Paying, PotAdded
    <2> QED BY <2>3, <2>4, <2>5, Stutter
  <1>10. CASE Notify
    <2>1. /\ sPc = "notify" /\ sPc' = "idle"
          /\ UNCHANGED <<money, bet, folded, currentBet, pot, activePlayersId, playerAction>>
      BY <1>10 DEF Notify, moneyVars
    <2>2. UNCHANGED <<SeenMoney, SeenBet, SeenFolded>>
      BY <1>b, <2>1 DEF SeenMoney, SeenBet, SeenFolded, BlindPlayer, BlindAmount, Seat
    <2>3. UNCHANGED <<SeenCurrentBet, SeenPot, SeenToAct>>
      BY <1>b, <2>1 DEF SeenCurrentBet, SeenPot, SeenToAct, Paying, PotAdded, Waiting
    <2> QED BY <2>2, <2>3, Stutter
  <1> QED BY <1>1, <1>2, <1>3, <1>4, <1>5, <1>6, <1>7, <1>8, <1>9, <1>10
      DEF MainStep, ServerStep

LEMMA RefinedByGame ==
  ASSUME TypeOK, Handoff, UpdatesAreNotLost, Linked, GameStep
  PROVE  [Table!Next]_(Table!tableState)
  <1>a. /\ money \in [Players -> Int] /\ bet \in [Players -> Nat]
        /\ folded \in [Players -> BOOLEAN]
        /\ currentBet \in Nat /\ pot \in Int
        /\ currentId \in Players
    BY DEF TypeOK, TableTypeOK, GameTypeOK
  <1>b. UNCHANGED <<sPc, sMsg, sReg>>
    BY DEF GameStep, serverLocals
  <1>c. ASSUME ~Waiting
        PROVE  /\ sPc \in {"idle", "notify"} /\ ~playerAction
               /\ SeenCurrentBet = currentBet /\ SeenPot = pot
               /\ SeenCurrentBet' = currentBet' /\ SeenPot' = pot'
               /\ SeenToAct = NoPlayer
    BY <1>b, <1>c DEF Handoff, Quiet, Acting, SeenCurrentBet, SeenPot, SeenToAct,
       Paying, PotAdded
  <1>d. NoPlayer \notin Players
    BY NumPlayersAssumption DEF NoPlayer, Players
  <1>e. gPc \in {"blindRead", "blindPay", "blindBet"} => BlindPlayer \in Players
    BY SeatIsPlayer DEF BlindPlayer, TypeOK, GameTypeOK
  <1>1. ASSUME ~Waiting, ~Waiting', UNCHANGED <<money, bet, folded, currentBet, pot>>,
               gPc \notin {"blindBet", "reset"}, gPc' \notin {"blindBet", "reset"}
        PROVE  [Table!Next]_(Table!tableState)
    <2>1. UNCHANGED <<SeenMoney, SeenBet, SeenFolded, SeenCurrentBet, SeenPot>>
      BY <1>1, <1>b, <1>c DEF SeenMoney, SeenBet, SeenFolded
    <2>2. UNCHANGED SeenToAct
      BY <1>1 DEF SeenToAct
    <2> QED BY <2>1, <2>2, Stutter
  <1>2. CASE \/ StartGame \/ Deal      \/ BlindRead \/ EnterStage \/ DrawBoard
             \/ LoopTest  \/ BetsDiffer \/ BetsEqual \/ SkipFolded
    BY <1>1, <1>2 DEF Waiting, StartGame, Deal, BlindRead, EnterStage, DrawBoard,
       LoopTest, BetsDiffer, BetsEqual, SkipFolded, AdvanceSeat, tableVars
  <1>3. CASE CardChecking
    <2>1. NumActive # 1
      BY ActiveLength, NumPlayersAssumption
    <2>2. UNCHANGED <<money, bet, folded, currentBet, pot>>
      BY <1>3, <2>1 DEF CardChecking
    <2> QED BY <1>1, <1>3, <2>2 DEF CardChecking, Waiting
  <1>4. CASE BlindPay
    <2> DEFINE p == BlindPlayer
    <2>1. /\ gPc = "blindPay" /\ gPc' = "blindBet" /\ p \in Players
          /\ money' = [money EXCEPT ![p] = gReg]
          /\ UNCHANGED <<bet, folded, currentBet, pot, cursor, blinds, activePlayersId>>
      BY <1>4, <1>e DEF BlindPay, handVars
    <2>2. gReg = money[p] - BlindAmount /\ BlindAmount \in Int
      BY <1>a, <2>1 DEF UpdatesAreNotLost, BlindAmount
    <2>3. BlindPlayer' = p /\ BlindAmount' = BlindAmount
      BY <2>1 DEF BlindPlayer, BlindAmount, Seat
    <2>4. money' = [money EXCEPT ![p] = money[p] - BlindAmount]
      BY <2>1, <2>2
    <2>5. Undone(money', p, BlindAmount) = money
      BY <1>a, <2>1, <2>2, <2>4, UndoneTaken
    <2>6. sPc \in {"idle", "notify"}
      BY <1>c, <2>1 DEF Waiting
    <2>7. SeenMoney = money
      BY <2>1, <2>6 DEF SeenMoney
    <2>8. SeenMoney' = Undone(money', p, BlindAmount)
      BY <1>b, <2>1, <2>3, <2>6 DEF SeenMoney
    <2>9. UNCHANGED <<SeenBet, SeenFolded>>
      BY <2>1 DEF SeenBet, SeenFolded
    <2>10. UNCHANGED <<SeenCurrentBet, SeenPot, SeenToAct>>
      BY <1>c, <2>1 DEF Waiting, SeenToAct
    <2> QED BY <2>5, <2>7, <2>8, <2>9, <2>10, Stutter
  <1>5. CASE BlindBet
    <2> DEFINE p == BlindPlayer
    <2>1. /\ gPc = "blindBet" /\ gPc' \in {"blindRead", "stage"} /\ p \in Players
          /\ bet' = [bet EXCEPT ![p] = BlindAmount]
          /\ UNCHANGED <<money, folded, currentBet, pot>>
      BY <1>5, <1>e DEF BlindBet
    <2>2. BlindAmount \in {currentBet \div 2, currentBet} /\ BlindAmount \in Int
      BY <1>a DEF BlindAmount
    <2>3. /\ sPc \in {"idle", "notify"} /\ SeenToAct = NoPlayer /\ UNCHANGED SeenToAct
          /\ SeenCurrentBet = currentBet /\ UNCHANGED <<SeenCurrentBet, SeenPot>>
      BY <1>c, <2>1 DEF Waiting, SeenToAct
    <2>4. SeenMoney = Undone(money, p, BlindAmount) /\ SeenMoney' = money
      BY <1>b, <2>1, <2>3 DEF SeenMoney
    <2>5. money = [SeenMoney EXCEPT ![p] = @ - BlindAmount]
      BY <1>a, <2>1, <2>2, <2>4, TakenUndone
    <2>6. UNCHANGED SeenFolded /\ SeenBet' = [SeenBet EXCEPT ![p] = BlindAmount]
      BY <2>1 DEF SeenBet, SeenFolded
    <2>7. Table!Blind(p, BlindAmount)
      BY <2>3, <2>4, <2>5, <2>6 DEF Table!Blind
    <2>8. Table!Blind(p, SeenCurrentBet \div 2) \/ Table!Blind(p, SeenCurrentBet)
      BY <2>2, <2>3, <2>7
    <2> QED BY <2>1, <2>8 DEF Table!Next
  <1>6. CASE SendSync
    <2>1. /\ gPc = "turn" /\ gPc' = "test" /\ ~folded[currentId]
          /\ UNCHANGED <<money, bet, folded, currentBet, pot, currentId, playerAction>>
      BY <1>6 DEF SendSync, tableVars, roundVars
    <2>2. /\ SeenToAct = NoPlayer /\ UNCHANGED <<SeenCurrentBet, SeenPot>>
          /\ SeenToAct' = currentId
      BY <1>b, <1>c, <2>1 DEF Waiting, SeenToAct
    <2>3. UNCHANGED <<SeenMoney, SeenBet, SeenFolded>> /\ SeenFolded = folded
      BY <1>b, <1>c, <2>1 DEF SeenMoney, SeenBet, SeenFolded, Waiting
    <2>4. Table!Ask(currentId)
      BY <2>1, <2>2, <2>3 DEF Table!Ask
    <2> QED BY <1>a, <2>4 DEF Table!Next
  <1>7. CASE TestFlag \/ Sleep \/ Wake
    <2>1. /\ Waiting /\ Waiting' /\ gPc # "consume"
          /\ UNCHANGED <<money, bet, folded, currentBet, pot, currentId, playerAction>>
          /\ gPc' = "consume" => playerAction
      BY <1>7 DEF TestFlag, Sleep, Wake, Waiting, tableVars, moneyVars, roundVars
    <2>2. UNCHANGED <<SeenMoney, SeenBet, SeenFolded>>
      BY <1>b, <2>1 DEF SeenMoney, SeenBet, SeenFolded, Waiting, Owed
    <2>3. UNCHANGED <<SeenCurrentBet, SeenPot, SeenToAct>>
      BY <1>b, <2>1 DEF SeenCurrentBet, SeenPot, SeenToAct, Paying, PotAdded
    <2> QED BY <2>2, <2>3, Stutter
  <1>8. CASE Consume
    <2>1. /\ gPc = "consume" /\ gPc' = "loop"
          /\ UNCHANGED <<money, bet, folded, currentBet, pot>>
      BY <1>8 DEF Consume, AdvanceSeat, moneyVars
    <2>2. UNCHANGED <<SeenMoney, SeenBet, SeenFolded>>
      BY <1>b, <2>1 DEF SeenMoney, SeenBet, SeenFolded, Owed
    <2>3. UNCHANGED <<SeenCurrentBet, SeenPot, SeenToAct>>
      BY <1>b, <2>1 DEF SeenCurrentBet, SeenPot, SeenToAct, Paying, PotAdded, Waiting
    <2> QED BY <2>2, <2>3, Stutter
  <1>9. CASE ClearPot
    <2>1. /\ gPc = "ending" /\ gPc' = "reset" /\ pot' = 0
          /\ UNCHANGED <<money, bet, folded, currentBet>>
      BY <1>9 DEF ClearPot
    <2>2. /\ sPc \in {"idle", "notify"} /\ SeenToAct = NoPlayer /\ UNCHANGED SeenToAct
          /\ UNCHANGED SeenCurrentBet /\ SeenPot' = 0
      BY <1>c, <2>1 DEF Waiting, SeenToAct
    <2>3. UNCHANGED SeenMoney
      BY <1>b, <2>1, <2>2 DEF SeenMoney
    <2>4. SeenBet' = [p \in Players |-> 0] /\ SeenFolded' = [p \in Players |-> FALSE]
      BY <2>1 DEF SeenBet, SeenFolded
    <2>5. Table!NewHand
      BY <2>2, <2>3, <2>4 DEF Table!NewHand
    <2> QED BY <2>5 DEF Table!Next
  <1>10. CASE ResetPlayer
    <2>1. /\ gPc = "reset" /\ UNCHANGED <<money, currentBet, pot>>
          /\ bet' = [bet EXCEPT ![MapOrder[cursor]] = 0]
          /\ folded' = [folded EXCEPT ![MapOrder[cursor]] = FALSE]
          /\ gPc' = IF cursor < NumPlayers THEN "reset" ELSE "start"
      BY <1>10 DEF ResetPlayer
    <2>2. /\ sPc \in {"idle", "notify"} /\ UNCHANGED SeenToAct
          /\ UNCHANGED <<SeenCurrentBet, SeenPot>>
      BY <1>c, <2>1 DEF Waiting, SeenToAct
    <2>3. UNCHANGED SeenMoney
      BY <1>b, <2>1, <2>2 DEF SeenMoney
    <2>4. CASE cursor < NumPlayers
      <3>1. UNCHANGED <<SeenBet, SeenFolded>>
        BY <2>1, <2>4 DEF SeenBet, SeenFolded
      <3> QED BY <2>2, <2>3, <3>1, Stutter
    <2>5. CASE ~(cursor < NumPlayers)
      <3>1. cursor = NumPlayers
        BY <2>5, NumPlayersAssumption DEF TypeOK, GameTypeOK
      <3>2. ASSUME NEW p \in Players
            PROVE  bet'[p] = 0 /\ folded'[p] = FALSE
        <4>1. PICK i \in 1 .. NumPlayers : MapOrder[i] = p
          BY MapOrderAssumption
        <4>2. CASE p = MapOrder[cursor]
          BY <1>a, <2>1, <4>2
        <4>3. CASE p # MapOrder[cursor]
          <5>1. i \in 1 .. cursor - 1
            BY <3>1, <4>1, <4>3, NumPlayersAssumption
          <5>2. bet[p] = 0 /\ ~folded[p]
            BY <2>1, <4>1, <5>1 DEF Linked, ResetSoFar
          <5>3. bet'[p] = bet[p] /\ folded'[p] = folded[p] /\ folded[p] \in BOOLEAN
            BY <1>a, <2>1, <4>3
          <5> QED BY <5>2, <5>3
        <4> QED BY <4>2, <4>3
      <3>3. bet' \in [Players -> Nat] /\ folded' \in [Players -> BOOLEAN]
        BY <1>a, <2>1
      <3>4. bet' = [p \in Players |-> 0]
        BY <3>2, <3>3
      <3>5. folded' = [p \in Players |-> FALSE]
        BY <3>2, <3>3
      <3>6. UNCHANGED <<SeenBet, SeenFolded>>
        BY <2>1, <2>5, <3>4, <3>5 DEF SeenBet, SeenFolded
      <3> QED BY <2>2, <2>3, <3>6, Stutter
    <2> QED BY <2>4, <2>5
  <1> QED BY <1>2, <1>3, <1>4, <1>5, <1>6, <1>7, <1>8, <1>9, <1>10
      DEF GameStep, QuietStep

(***************************************************************************)
(* For players who answer only when asked, the two threads implement the   *)
(* table on which each action happens at once: no state another thread or  *)
(* a message can observe is one that no sequence of whole actions reaches. *)
(***************************************************************************)
THEOREM RefinesAtomicTable == Impatient = {} => (Spec => ImplementsAtomicTable)
  <1> SUFFICES ASSUME Impatient = {} PROVE Spec => ImplementsAtomicTable
      OBVIOUS
  <1>1. Init => Table!Init
    <2> SUFFICES ASSUME Init PROVE Table!Init
        OBVIOUS
    <2>1. gPc = "start" /\ sPc = "idle"
      BY DEF Init, GameInit, ServerInit
    <2>2. /\ SeenMoney = money /\ SeenBet = bet /\ SeenFolded = folded
          /\ SeenCurrentBet = currentBet /\ SeenPot = pot /\ SeenToAct = NoPlayer
      BY <2>1, PlainView DEF Paying, PotAdded, Waiting
    <2> QED BY <2>2 DEF Init, TableInit, Table!Init
  <1>2. TypeOK /\ Handoff /\ UpdatesAreNotLost /\ Linked /\ [Next]_vars
          => [Table!Next]_(Table!tableState)
    <2> SUFFICES ASSUME TypeOK, Handoff, UpdatesAreNotLost, Linked, [Next]_vars
                 PROVE  [Table!Next]_(Table!tableState)
        OBVIOUS
    <2>1. CASE MainStep
      BY <2>1, RefinedByServer
    <2>2. CASE GameStep
      BY <2>2, RefinedByGame
    <2>3. CASE UNCHANGED <<moneyVars, activePlayersId, playerAction, serverLocals, gameVars>>
      <3>1. UNCHANGED <<SeenMoney, SeenBet, SeenFolded>>
        BY <2>3 DEF moneyVars, serverLocals, gameVars, SeenMoney, SeenBet,
           SeenFolded, Owed, BlindPlayer, BlindAmount, Seat
      <3>2. UNCHANGED <<SeenCurrentBet, SeenPot, SeenToAct>>
        BY <2>3 DEF moneyVars, serverLocals, gameVars, SeenCurrentBet, SeenPot,
           SeenToAct, Paying, PotAdded, Waiting
      <3> QED BY <3>1, <3>2, Stutter
    <2>4. CASE SpuriousWakeup /\ UNCHANGED <<inbox, serverLocals, clientVars>>
      BY <2>3, <2>4 DEF SpuriousWakeup
    <2>5. CASE \E p \in Players : Answer(p)
      BY <2>3, <2>5 DEF Answer, Send, tableVars, moneyVars
    <2>6. CASE UNCHANGED vars
      BY <2>3, <2>6 DEF vars, tableVars, moneyVars
    <2> QED BY <2>1, <2>2, <2>3, <2>4, <2>5, <2>6 DEF Next, StrayKey
  <1>3. Spec => []Handoff /\ []UpdatesAreNotLost /\ []Linked
    BY HandoffHolds, NoUpdateLost, LinkHolds
  <1> QED BY <1>1, <1>2, <1>3, TypeCorrect, PTL DEF Spec, ImplementsAtomicTable, Table!Spec

-----------------------------------------------------------------------------
\* Everybody has a seat, in the order of joining or of the map.
Seated == \A p \in Players : \E i \in 1 .. NumPlayers : activePlayersId[i] = p

(***************************************************************************)
(* m_activePlayersId names every player, in every hand and under any keys. *)
(***************************************************************************)
THEOREM EverybodyIsSeated == Spec => []Seated
  <1>1. Init => Seated
    <2> SUFFICES ASSUME Init, NEW p \in Players
                 PROVE  \E i \in 1 .. NumPlayers : activePlayersId[i] = p
        BY DEF Seated
    <2>1. p + 1 \in 1 .. NumPlayers /\ JoinOrder[p + 1] = p
      BY NumPlayersAssumption DEF Players, JoinOrder
    <2> QED BY <2>1 DEF Init, TableInit
  <1>2. Seated /\ [Next]_vars => Seated'
    <2> SUFFICES ASSUME Seated, [Next]_vars PROVE Seated'
        OBVIOUS
    <2>1. ASSUME activePlayersId' = activePlayersId PROVE Seated'
      BY <2>1 DEF Seated
    <2>2. ASSUME activePlayersId' = MapOrder PROVE Seated'
      BY <2>2, MapOrderAssumption DEF Seated
    <2>3. CASE MainStep
      BY <2>1, <2>3 DEF MainStep, ServerStep, Pop, SetPlayerFold, DoubleBet,
         PotRead, PotWrite, PayRead, PayWrite, UpdatePlayerBet, ToggleRead,
         ToggleWrite, Notify, tableVars
    <2>4. CASE ResetPlayer
      BY <2>1, <2>2, <2>4 DEF ResetPlayer
    <2>5. CASE \/ StartGame  \/ Deal       \/ BlindRead \/ BlindPay \/ BlindBet
               \/ EnterStage \/ DrawBoard  \/ LoopTest  \/ BetsDiffer
               \/ BetsEqual  \/ SkipFolded \/ TestFlag  \/ Sleep    \/ Wake
               \/ Consume    \/ CardChecking \/ ClearPot \/ SendSync
      BY <2>1, <2>5 DEF StartGame, Deal, BlindRead, BlindPay, BlindBet,
         EnterStage, DrawBoard, LoopTest, BetsDiffer, BetsEqual, SkipFolded,
         TestFlag, Sleep, Wake, Consume, CardChecking, ClearPot, SendSync, tableVars
    <2>6. CASE SpuriousWakeup
      BY <2>1, <2>6 DEF SpuriousWakeup
    <2>7. CASE \E p \in Players : Answer(p) \/ StrayKey(p)
      BY <2>1, <2>7 DEF Answer, StrayKey, Send, tableVars
    <2>8. CASE UNCHANGED vars
      BY <2>1, <2>8 DEF vars, tableVars
    <2> QED BY <2>3, <2>4, <2>5, <2>6, <2>7, <2>8 DEF Next, GameStep, QuietStep
  <1> QED BY <1>1, <1>2, PTL DEF Spec

(***************************************************************************)
(* equalBets has compared the bets of the seats before the cursor, and     *)
(* what it found still holds when the round is over.                       *)
(***************************************************************************)
EvenSoFar ==
    /\ gPc = "equal" => \A i \in 1 .. cursor - 1 : bet[activePlayersId[i]] = currentBet
    /\ RoundOver => \A p \in Players : bet[p] = currentBet

LEMMA EvenStep ==
  ASSUME TypeOK, Handoff, Seated, EvenSoFar, Impatient = {}, [Next]_vars
  PROVE  EvenSoFar'
  <1> USE DEF EvenSoFar, RoundOver
  <1>a. NumActive = NumPlayers /\ NumPlayers >= 3 /\ NumPlayers \in Nat
    BY ActiveLength, NumPlayersAssumption
  <1>1. ASSUME UNCHANGED <<gPc, stage, cursor, bet, currentBet, activePlayersId>>
        PROVE  EvenSoFar'
    BY <1>1
  <1>2. CASE MainStep
    <2>1. CASE gPc \in {"equal", "stage"}
      <3>1. Notify
        BY <1>2, <2>1, ServerRests DEF Waiting
      <3> QED BY <1>1, <1>2, <3>1 DEF Notify, MainStep, gameVars, moneyVars
    <2>2. CASE gPc \notin {"equal", "stage"}
      BY <1>2, <2>2 DEF MainStep, gameVars
    <2> QED BY <2>1, <2>2
  <1>3. CASE LoopTest
    BY <1>3, <1>a DEF LoopTest
  <1>4. CASE BetsEqual
    <2>1. /\ gPc = "equal" /\ UNCHANGED <<bet, currentBet, activePlayersId>>
          /\ bet[activePlayersId[cursor]] = currentBet
          /\ IF cursor < NumPlayers THEN cursor' = cursor + 1 /\ gPc' = "equal"
                                    ELSE gPc' = "stage"
      BY <1>4, <1>a DEF BetsEqual, MoreBets, tableVars
    <2>2. cursor \in 1 .. NumPlayers
      BY DEF TypeOK, GameTypeOK
    <2>3. \A i \in 1 .. cursor : bet[activePlayersId[i]] = currentBet
      BY <2>1, <2>2
    <2>4. CASE cursor < NumPlayers
      BY <2>1, <2>2, <2>3, <2>4
    <2>5. CASE ~(cursor < NumPlayers)
      <3>1. \A p \in Players : bet[p] = currentBet
        BY <1>a, <2>2, <2>3, <2>5 DEF Seated
      <3> QED BY <2>1, <2>5, <3>1
    <2> QED BY <2>4, <2>5
  <1>5. CASE BlindBet
    BY <1>5 DEF BlindBet
  <1>6. CASE \/ StartGame  \/ Deal       \/ BlindRead \/ BlindPay
             \/ EnterStage \/ DrawBoard  \/ BetsDiffer \/ SkipFolded
             \/ TestFlag   \/ Sleep      \/ Wake      \/ Consume
             \/ CardChecking \/ ClearPot \/ ResetPlayer \/ SendSync
    <2>1. gPc' \notin {"equal", "stage"}
      BY <1>6 DEF StartGame, Deal, BlindRead, BlindPay, EnterStage, DrawBoard,
         BetsDiffer, SkipFolded, TestFlag, Sleep, Wake, Consume, AdvanceSeat,
         CardChecking, ClearPot, ResetPlayer, SendSync
    <2> QED BY <2>1
  <1>7. CASE SpuriousWakeup
    BY <1>1, <1>7 DEF SpuriousWakeup, moneyVars, gameVars
  <1>8. CASE \E p \in Players : Answer(p)
    BY <1>1, <1>8 DEF Answer, Send, tableVars, gameVars
  <1>9. CASE UNCHANGED vars
    BY <1>1, <1>9 DEF vars, tableVars, gameVars
  <1> QED BY <1>2, <1>3, <1>4, <1>5, <1>6, <1>7, <1>8, <1>9
      DEF Next, StrayKey, GameStep, QuietStep

(***************************************************************************)
(* For players who answer only when asked, all bets are even when a        *)
(* betting round ends, whatever was folded, called and raised in it.       *)
(***************************************************************************)
THEOREM RoundsEndEven == Impatient = {} => (Spec => []RoundEndsEven)
  <1> SUFFICES ASSUME Impatient = {} PROVE Spec => []RoundEndsEven
      OBVIOUS
  <1>1. Init => EvenSoFar
    BY DEF Init, GameInit, EvenSoFar, RoundOver
  <1>2. TypeOK /\ Handoff /\ Seated /\ EvenSoFar /\ [Next]_vars => EvenSoFar'
    BY EvenStep
  <1>3. EvenSoFar => RoundEndsEven
    BY DEF EvenSoFar, RoundEndsEven
  <1>4. Spec => []Handoff
    BY HandoffHolds
  <1> QED BY <1>1, <1>2, <1>3, <1>4, TypeCorrect, EverybodyIsSeated, PTL DEF Spec

=============================================================================
