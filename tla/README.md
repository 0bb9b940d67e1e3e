# PokerGame in TLA+

A TLA+ development of the poker server in this repository: a Texas hold'em table played over
TCP by five clients (`src/README.md`). The modules model what the server's threads do to the
data they share, the configurations check the models with TLC on small tables, and the
proofs, checked by TLAPS, establish the most important properties for every table size,
seating, deck and bound.

## 1. The system

| Component | State | Operations | Source |
|---|---|---|---|
| **GameState** (shared table) | players (money, bet, folded, hand), `m_activePlayersId`, `m_pot`, `m_currentBet`, blinds, `m_playerAction`, `m_mutex`, `m_cond` | `collectBlinds`, `raise`, `call`, `updatePlayerBet`, `changePlayerAction` | `game/src/GameState.cpp`, `game/src/Player.cpp` |
| **Game** (dealer's thread) | deck, stage, seat in turn, locals of `run_game` and `bettingRound` | `game_loop`, `start_game`, `run_game`, `bettingRound`, `equalBets`, `ending_round` | `game/src/Game.cpp` |
| **Server** (message handlers) | locals of `on_message`, broadcast list | `on_message` (Ping, Fold, Call, Raise), `on_client_connect`, `sendMessage` | `server/src/Server.cpp` |
| **Deck** | the cards left | `fill`, `shuffle`, `getCard` | `common/include/deque_card.h` |
| **Client** | the answers on its screen | `call`, `raise`, `fold`, connecting, quitting | `client/src/*.cpp`, `netcommon/include/net_client.h` |
| **Message queue** | deque, mutex, condition variable | push and pop at both ends, `wait` | `netcommon/include/net_safequeue.h` |
| **Connection** | outgoing queue, socket, message being read | `send`, the write chain, the read chain | `netcommon/include/net_connection.h` |
| **Accept loop, client list** | `m_connections` | accept, `message_client`, `message_all` | `netcommon/include/net_server.h` |
| **Message codec** | header, body | `operator<<`, `operator>>` | `netcommon/include/net_message.h` |
| **Hand evaluator** | lookup tables, computed at start | `Hand` and its sums, `populateLookup`, `evaluate`, `calculatePerfectHashOffsets` | `evaluator/omp/HandEvaluator.*`, `Hand.h` |
| **Ranges** | pairs of cards; joined ranges | reading an expression, `removeDuplicates`, `getCardMask`, `joinRanges` | `evaluator/omp/CardRange.*`, `CombinedRange.*` |
| **Random numbers, libdivide** | generator states, buffered bits, magic numbers | generators, distributions; `gen`, `do`, `recover` | `evaluator/omp/Random.h`, `evaluator/libdivide/libdivide.h` |

The evaluator's directory is vendored; of it the game calls `evaluate` only. Ranges, random
numbers and libdivide are part of the build and unused by the game.

### How they interact

The server process has three kinds of threads:

* the *main thread* (`AppServer.cpp:11-12`) waits for a message, pops one and runs
  `Server::on_message` on it. `server::update` takes the *newest* message
  (`net_server.h:80`);
* the *io thread* runs asio: it accepts connections, and each connection's read chain pushes
  complete messages on the main thread's queue;
* the *game thread*, detached when the fifth client is seated (`Server.cpp:131-138`), deals,
  asks each player in turn with a Sync message and waits for `m_playerAction` on `m_cond`
  (`Game.cpp:286-289`).

An action key of a client becomes a message, the handler applies it to the GameState in
several locked sections, toggles `m_playerAction` and notifies; the game thread notices,
clears the flag and asks the next seat. The game thread itself takes `m_mutex` only in
`sendMessage`, and waits with a mutex of its own, `Game::m_mutex`.

### What is hard about it

* The game thread's reads and writes of the shared table are not protected by the lock the
  handlers take. The comment in `GameState.cpp:4-6` calls the struct "thread safe"; what
  keeps the threads apart is only the order in which players are asked and answer.
* The flag is tested under one mutex and set under another: a notification can be lost
  between the test and the wait.
* The flag is toggled, not set, and nobody compares the sender of a message with the player
  in turn.
* A betting round must ask everyone who has not folded, in order, and end when the bets are
  even; folding, raising and the 8-bit action counter interact.
* Connections come and go, while three threads use the list of them and no lock protects it.
* The evaluator's tables, the perfect hash over them and the magic numbers of libdivide are
  dense arithmetic in which one input of many can be wrong.

`PROJECT.json` lists every such hazard at the line where it bites.

### What makes each component correct

* GameState: updates of money and pot are not lost; bets stay within the current bet and are
  covered by money spent; the pot covers what was paid.
* Game: a betting round ends only when everyone acted and bets are even, passes over folded
  players only, and does end; a showdown finds complete hands on a complete board; the
  winner has not folded and is paid (neither holds, see Findings).
* Server: an action is handled once, in its turn, while the game thread waits.
* Message queue: every message is taken exactly once, the client's as long as its socket is
  open; no consumer sleeps while one is there.
* Connection: messages leave in order, one write at a time; a queued message is written as
  long as the socket works.
* Server and GameState together: what a player does is one action, whatever the threads make
  of it.
* Accept loop: ids, seats and players agree, a broadcast reaches everyone connected, the
  game starts once, with the players it counts, and nobody changes the list of connections
  while somebody else walks it.
* Message codec: the header announces the body; a datum that is popped when it was pushed
  last comes back whole, and any other pop takes the bytes at the end of the body.
* Hand evaluator: hands are ranked by the rules of the game; a key is found where it was
  stored.
* Ranges: an expression stands for the hands its documentation says; joining ranges loses no
  deal and invents none.
* libdivide and random numbers: quotients are exact; draws are in their range and use no bit
  twice; nothing is repeated too early. That draws are without bias is refuted.

## 2. Modules

```
GameState  <--+-- ServerThread <--+
              |                   +-- PokerServer <--+-- MCPokerServer       (TLC)
              +-- GameThread   <--+       |          +-- PokerServerProofs   (TLAPS)
                                          |                 +-- RoundProofs  (TLAPS)
AtomicTable <-------(implements)----------+

Lobby <-- LobbyProofs                                                        (TLC, TLAPS)

AtomicQueue <--(implements)-- SafeQueue <-- SafeQueueProofs                  (TLC, TLAPS)

Connection <--+-- MCConnection                                               (TLC)
              +-- ConnectionProofs                                           (TLAPS)

PerfectHash   <--+-- AlgorithmProofs                                         (TLAPS)
Message       <--+
CombinedRange <--+
Hand          <--+
  HandEvaluator  +-- MCAlgorithms                                            (TLC)
CardRange        |
LibDivide <-- Generators <-- Random
                         <-- ArithmeticProofs                                (TLAPS)

Induction <-- LobbyProofs, RoundProofs, AlgorithmProofs, ArithmeticProofs    (TLAPS)
```

`GameState` declares the shared variables and the constants. It has no actions: almost every
operation of the class can be cut in the middle by the other thread, so its operations are
series of steps of the thread that calls them.

`ServerThread` is the main thread. `sPc` says where it is in `on_message`:

| `sPc` | step | code |
|---|---|---|
| `idle` | `Pop` | `server::update`, the newest message; a Ping changes nothing |
| `fold` | `SetPlayerFold` | `Server.cpp:40-57` |
| `double` | `DoubleBet` | `m_currentBet *= 2` in `raise`; the lock is kept |
| `potRead`, `potWrite` | `PotRead`, `PotWrite` | `m_pot += m_currentBet` in `raise` and `call` |
| `payRead`, `payWrite` | `PayRead`, `PayWrite` | `setMoney(getMoney() - ...)` in the handlers |
| `setBet` | `UpdatePlayerBet` | `updatePlayerBet` |
| `toggleRead`, `toggleWrite`, `notify` | same names | `changePlayerAction` |

A read-modify-write is two steps, with the value in between in `sReg`, wherever the other
thread writes the same variable without the lock.

`GameThread` is the game thread. `gPc` says where it is: `start`, `deal` (`start_game`);
`blindRead`, `blindPay`, `blindBet` (`collectBlinds`); `stage`, `draw` (the switch of
`run_game`); `loop`, `equal`, `turn`, `test`, `presleep`, `asleep`, `consume`
(`bettingRound` with `equalBets` and the condition variable's `wait`); `ending`, `reset`
(`ending_round`); `aborted` is `std::terminate`. `wait` with a predicate is what the
standard defines it to be: test, enter the wait set, be woken, test again; `condWaiting` is
the wait set of `m_cond`.

`PokerServer` puts the threads together and adds the players: `Answer` is an action key
after a Sync, `StrayKey` is any key at any time, by one of `Impatient` (`AppClient.cpp` does
not check that the client was asked). The step is the arrival of the message in the server's
queue, so the time on the network is in the interleaving. The module states all properties.

`SafeQueue` is `class safe_queue`: a mutex, a condition variable and a deque on which an
operation is two steps, reading and storing, so that a missing lock shows. Any number of
threads push. There is one consumer, as for each queue of the program: the server's main
thread, which pops at the back and sleeps, or the client's loop, which asks `is_connected()`
and `empty()` and pops at the front (`fromFront`) until the quit key is pressed (`Quit`).
`open` is the client's socket, which the thread that pushes may close (`Close`); messages
not taken by then never are. `AtomicQueue` is the same queue with one step for each push and
pop. It is what `ServerThread` (`Pop`) and `Connection` (`messagesOut`, `received`) take a
queue to be, and `SafeQueue` implements it. `pc` is the line of the operation each thread is
at; `waiting` is the wait set.

`Connection` is one TCP connection with the object of `class connection` at each end. The
main variables are the code's: `m_messagesOut`, the socket, `m_tempMessage`. Around them are
what asio holds (`posted`, the lambdas of `send`; `writes`, the outstanding `async_write`s;
`reader`, which `async_read` is outstanding) and what the network does (`link`, `cut`,
`wire`). An action is a completion handler with all it starts:

| action | code |
|---|---|
| `Send` | `client::send`, `Player::message`: the call of `asio::post` |
| `RunSend` | the posted lambda of `connection::send` |
| `WriteHeader`, `WriteBody`, `WriteFailed` | handlers of `write_header`, `write_body` |
| `ReadHeader`, `ReadBody`, `ReadFailed` | handlers of `read_header`, `read_body`, with `add_to_incoming_msg` |
| `ConnectToServer`, `ConnectToClient` | handler of `async_connect`; accept handler |
| `Disconnect` | `client::disconnect`, on quitting |
| `Handshake`, `Cut` | the kernel and the network |

The handlers of an end are atomic since one thread runs its `io_context`. A write that fails
may nevertheless have reached the other end.

`AtomicTable` is the table as its players know it. One of them is asked (`toAct`), and
`Fold`, `Call` or `Raise` happens at once; a blind is a bet nobody asks for; `NewHand`
clears bets, folds and the pot. `PokerServer` implements it among players who only answer.
The refinement mapping (`SeenMoney`, `SeenPot`, ...) dates an action at the last write of
its handler, `updatePlayerBet` or the fold: until then what was done is undone, so that the
doubled bet, the grown pot and the payment show all together. A blind counts from `setBet`,
a new hand from the moment the pot is cleared. `SeenToAct` is over once the handler has made
its changes, though the game thread does not know yet.

`Lobby` is the way to the table, from the listening socket to the fifth connection, and what
the departures of clients do afterwards. The list `connections` is used by three threads:
the io thread appends (`Accept`, which is the accept handler with `on_client_connect`) and
tells everyone how many are missing, the main thread broadcasts in its handlers (`Handle`),
the game thread on its own (`Announce`). A broadcast is a walk, `Visit` for each element and
`EndWalk` with the pruning, so that others come in between. `undefined` becomes true when a
thread changes the list while another one is in its walk, from which point the program means
nothing. Of the game the module keeps who is asked (`asked`), the flag, and that the game
thread waits or runs.

| action | code |
|---|---|
| `Connect`, `Leave`, `Key` | a client's `connect`, quitting, an action key |
| `Accept`, `AcceptFails` | the handler of `async_accept` with `on_client_connect` |
| `NoticeLeave` | `read_header` fails and closes the socket |
| `Visit`, `EndWalk` | the loop of `message_all` and its end, with what follows the call |
| `Handle` | `on_message`, up to its broadcast |
| `Announce`, `AskPlayer`, `Resume` | `messageAll`, Sync and wait of the game thread |

The algorithms share nothing with each other and keep next to no state. Each module has a
small state machine that feeds it all its small inputs:

| Module | What is in it | Against what it is checked |
|---|---|---|
| `Message` | the push and pop operators of `net_message.h`, on a body of bytes, a pop taking bytes whatever was pushed | the list of what was pushed and not popped |
| `Hand` | `Hand` with its key, counters and masks, adding and removing cards, `hasFlush`, `flushKey` | the sums over the cards in it |
| `HandEvaluator` | the tables of `staticInit` and `populateLookup`; `evaluate` | the rules of the game on the best five cards |
| `PerfectHash` | `calculatePerfectHashOffsets`, and the build that uses the offsets | the table of all keys |
| `CardRange` | the parser of range expressions, their order and duplicates, `getCardMask` | the syntax `CardRange.h:18-43` documents |
| `CombinedRange` | `join`, `estimateJoinSize`, `joinRanges` | all deals to the players of a range |
| `LibDivide` | generation, division, recovery, chosen algorithm: signed and unsigned, 32 and 64 bits, with and without branches, scalars and SSE2 vectors | the quotient |
| `Generators` | `XoroShiro128Plus`, `UniqueRng64` | never zero, every step can be undone; no number twice |
| `Random` | both distributions | disjoint bits, different draws, frequencies |

`MCAlgorithms` puts them on one bench: a behaviour exercises one of them. In `HandEvaluator`
the recursion of `populateLookup` yields the sequence of hands it visits, and the counter
`handValue` is the number of hands counted so far, which is what incrementing it comes to.

The variables `acted`, `lastActor` and `winner` remember what the game thread did for the
sake of the properties; no guard reads the first two, and `winner` is the local `idWinner`.

A definition whose comment says *Fault* is a version of the next definition with a plausible
bug in it. No action uses it; `PROJECT.json` names the property that fails when it replaces
the definition.

### Abstractions

* Memory accesses interleave in some order. The accesses of the game thread that race with
  the handlers are data races, for which C++ promises less than that: a property that holds
  here holds of a build that does not reorder them.
* A step is cut where another thread can read or write what it touches. Data only the game
  thread uses is updated within one step (the deck and the board; the rebuilding of
  `m_activePlayersId`).
* A shuffled deck is a set of which any card may be on top.
* `omp::Hand` is not initialised at `Game.cpp:183`, so the values that are compared are
  arbitrary and so is the winner; when no value is positive, the lookup at `Game.cpp:196`
  throws.
* The queue of incoming messages is atomic in `ServerThread` and `Connection`, which
  `SafeQueue` justifies. `removeActivePlayer`, `Game::stop` and `on_client_disconnect` have
  no caller and are left out.
* In `PokerServer` the table starts with everyone seated: there is no game thread before
  that. `Lobby` has what comes before; `TableCloses` and `SeatsAgree` are what `PokerServer`
  starts from.
* In `Lobby` an accept that fails leaves the connection in the backlog, and a connection is
  known to be closed once the read of its header has failed. Only the broadcasts of an
  action are in `Handle`; what the handler does to the table is in `ServerThread`. Clients
  connect once.
* A hash table in `HandEvaluator` is a function of the key; where a key is stored is the
  matter of `PerfectHash`. Cards are masks as sets of ranks by suit.
* `LibDivide` has one width for both word sizes: the code's 32-bit and 64-bit versions
  differ in the primitives they use (one product, or a product of halves; one division, or
  Knuth's) and both versions are there. Of every `#if` it is the portable branch. The loop
  that corrects a quotient digit is the number of times it goes round (`Digit`), and a
  bitwise or, or exclusive or, is said bit by bit (`Or`, `Xor`).
* `Generators` takes the multiplier and the increment of `UniqueRng64` as constants that are
  1 modulo 4 and odd, as the code's are (`Random.h:79-80`); the run gives them the code's
  low bytes, as all higher bits are masked away for the ranges that are checked.
* In `Connection` a message is its number and whether it has a body. Header and body arrive
  whole: `async_read` and `async_write` complete only then, or fail. The transfer of what
  was written and the handler of the write are one step, and a write that succeeded just
  before its socket was closed counts as a failed one that got through. After a refused
  connection the client's `run()` may return; that the model goes on running handlers there
  makes no difference to the other end.
* A datum popped from a body shorter than it is undefined: the size wraps around
  (`net_message.h:82`), the copy reads in front of the body and `resize` throws. `PopShort`
  is the run that survives the copy: the message is as it was. In the repository nobody pops
  data. The messages of `Server.cpp:142` are a literal, a string and a literal, the literals
  pushed as data (arrays of `char`), and the client pops them as one string.
* Text of messages, the display and the log are left out.

## 3. Runs

The runs of `PokerServer` are on three players: the smallest table the code can play
(`run_game` begins with index 2), with a small blind, a big blind and a player without a
blind. Map iteration is the reverse of insertion, as libstdc++ does for small keys, so the
seats change between hands. `UInt8 = 4` makes the action counter wrap in a round with one
raise. Money and bets are the code's numbers.

| Run | Question | Result |
|---|---|---|
| `polite` | Two hands, every mixture of fold, call and one raise, players answering only when asked. | Threads alternate, no update is lost, no bet exceeds the current bet in either hand, rounds end even, payments are backed, showdowns complete; a turn is one action (`ImplementsAtomicTable`). |
| `impatient` | One player presses one key, of any kind, at any moment of a hand. | No seat is passed over, everyone acts. |
| `hand_ends` | Nobody folds, up to three raises, fair scheduling. | Every hand ends, unless a wakeup is lost. |
| `connection` | Two messages one way, one the other, each with or without a body; a refusal, a quit or a cut at any moment. | One write at a time, order and bodies kept whatever fails; all arrives unless an end closes; the server's end notices a quit. |
| `safe_queue` | Two pushers, three messages, a consumer of either kind, spurious wakeups; the client's socket may close and its user quit. | It is an atomic queue, loses no wakeup, never blocks the polling client, and messages are taken as long as the client is connected and nobody quits. |
| `lobby` | Four clients for a table of three: connecting, accept errors, leaving at any moment, one key pressed unasked. | Ids and seats agree; the game starts once, when the table is full, if enough come; the list is not raced for without a stray key; broadcasts reach all who are there; a player who left is waited for. |
| `algorithms` | Each algorithm on all of its small inputs. | Each agrees with its reference definition. |
| `lost_update` | Is the struct thread safe (`GameState.cpp:4-6`)? | Violated: one early key while the blinds are collected. |
| `lost_wakeup` | Is every answer noticed? | Violated: notified between test and wait. |
| `folded_wins` | Are the *remaining* hands evaluated (`Game.cpp:175`)? | Violated: folded ones are, too. |
| `biased` | Is the second distribution "without bias" (`Random.h:132`)? | Violated: the largest number is drawn once less than the others at each use. |
| `endless_round` | Does a betting round end when players fold (`updates.txt:1-6`)? | Violated: the round spins or keeps asking. |

Bounds: `MaxHands` (two show what one hand leaves to the next: the current bet, the seats,
the blinds, the deck); `MaxBet` and `MaxPot` cut the endless rounds (a raise, and a key, is
no longer possible beyond them); `MaxInbox` and `MaxStray` limit the keys out of turn. Among
polite players one message is under way at a time (this is proved, see `Handoff`), so
`MaxInbox = 1` loses nothing there. `DeckSize = 11` is exactly what a hand of three players
needs; a deck that is not refilled, or a card drawn too many, runs out.

In `connection` (`FewSends`) two messages in one direction are what it takes for one to be
sent while another is being written, and for the write chain to go on with a second one; the
single message of the other direction makes the ends meet. In `safe_queue` two pushers
contend with each other and with the consumer, and three messages (`MaxItems`) let the queue
hold several while one is taken, so that the end it is taken from matters. The theorems have
no such bounds.

In `polite` the mapping of `ImplementsAtomicTable` is checked on every step of two hands,
which includes blinds with bets left from a raise and a hand that ends with folded players.

In `lobby` three seats leave room for one client too many, for leaving before and after the
start, and for two elements of the list to be found closed in one walk. The real table has
five; `SeatsAgree`, `TableCloses`, `NoListRace` and `LeaverIsAwaited` are proved for every
number.

In `algorithms` the bounds are: six ranks and up to seven of 17 cards, enough for every
category of hand, two sets of three, a flush beside a full house and straights of six ranks
(`KeysAreUnique` uses the thirteen real multipliers); tables of three rows of two keys, with
equal values to share slots; bodies of three bytes, made of data of one or two bytes and
strings of none, one or three; range expressions of up to four pieces of ranks, suits,
signs, commas, blanks and capitals; up to three players (`MaxPlayers`; the code has six)
with ranges of up to four pairs of six cards; words of 8 bits with halves of 4 for
libdivide, where *every* divisor is taken with *every* numerator (and which is proved for
words of every width); words of 4 bits for the generator and ranges up to 24 for the one
that does not repeat (both proved for every width and range).

Deadlock is not checked: a run stops at its bounds, and the program may indeed stop, for
ever waiting for a player or after `std::terminate`. That it does not stop otherwise is what
the liveness runs are for.

### Fairness

`FairSpec` assumes that the scheduler runs the main thread and the game thread (`WF` of each
thread's next step) and that a player who has been asked answers. The last one is an
assumption on people, for the code has no timeout. Spurious wakeups may happen and get no
fairness: nothing in the standard makes them happen, so they do not repair a lost wakeup. No
fairness is assumed of stray keys.

`Connection!FairSpec` assumes that handlers that are due run and that the handshake ends one
way or the other; nobody has to send, quit or cut. `SafeQueue!FairSpec` assumes that a
thread inside an operation goes on. The consumer has strong fairness: a thread that wants
the mutex, which others take again and again, gets it in the end, which is what one expects
of a mutex though the standard does not promise it. Nobody has to push, to close the socket
or to quit; once the socket is closed the client asks the queue for nothing, so nothing is
assumed of it then.

`Lobby!FairSpec` assumes that a walk that has begun goes on, and strong fairness of
`Accept`: the acceptor, armed again after every error, does not fail for ever while
connections wait. No client has to connect, to stay or to play; `EnoughCome` is about the
case that enough of them do connect.

### Findings

The five violation runs are disagreements between the code and what its comments or notes
say of it; `PROJECT.json` quotes the lines. In short: the table is not thread safe against a
key pressed out of turn; a wakeup can be lost; folded hands take part in the showdown; a
betting round in which somebody folds below the current bet does not end; the distribution
"without bias" (`Random.h:132`) rejects words from `diffPow - 1` on, not from `diffPow`, so
that the sequence of draws that are all the maximum never comes.

Smaller observations, which no run refutes. The winner of a showdown is told "You won! + $"
and the pot (`Game.cpp:210-211`), but nobody's money is increased before `Game.cpp:242`
clears the pot; only the branch for a single player pays (`Game.cpp:171`), and that one is
never taken. `CombinedRange::joinRanges` with a limit of 2^64 - 1 would join the last
remaining range with itself; smaller limits never do (the limits of the run are the smaller
ones). The branch-free algorithms of libdivide do not support the divisors 1 and -1, as its
comments say. The evaluator itself ranks hands correctly; it is `Game.cpp:183` that starts
from a `Hand` the constructor leaves uninitialised (`Hand.h:23-29`; `Hand.h:20` asks for one
`Hand::empty()`), which is why the winner in `GameThread` is arbitrary.

## 4. Proofs

`PokerServerProofs` proves, for every value of the constants that meets the named
assumptions of `GameState` and `PokerServer`:

| Theorem | Property | Assumes |
|---|---|---|
| `TypeCorrect` | `TypeOK` | |
| `BetsBounded` | `BetNeverExceedsCurrent` | |
| `HandoffHolds` | `Handoff` | `Impatient = {}` |
| `ThreadsAlternate` | `NoConcurrentHandler` | `Impatient = {}` |
| `ActionsInTurn` | `ActsInTurn` | `Impatient = {}` |
| `NoUpdateLost` | `UpdatesAreNotLost` | `Impatient = {}` |
| `BetsBacked` | `BetsAreBacked` | `Impatient = {}` |

`Impatient = {}`, nobody presses a key unasked, is a hypothesis on the players, not on the
code. Without it four of them are false (`lost_update` shows one).

The argument. `NoConcurrentHandler` and `ActsInTurn` are not inductive: they say nothing of
a message that is still in the queue, or of an answer to come. `Handoff` follows the turn of
the player through the system: during the wait it is in exactly one place, on the player's
screen (`Asked`), in the queue (`Answered`), in the handler (`Handled`) or in the flag
(`Flagged`), and outside of the wait it is nowhere. Together with `TypeOK` that is
inductive; both properties follow from it, and so does `UpdatesAreNotLost`, since a thread
that holds a value to store holds it while the other thread cannot move. `BetsAreBacked`
needs in addition what is owed half way through a payment (`Backing`): between the payment
and the change of the bet, the money already covers the new bet, and while `raise` has
doubled the current bet, the bets are still under the old one. `BetsBounded` needs
none of this and holds whatever keys are pressed. The seats stay in range because no step
changes the length of `m_activePlayersId`; `ActiveLength`, `SeatIsPlayer` and
`RemainderBound` are the lemmas for it.

The rest of `PokerServerProofs`, and `RoundProofs`, go on from there:

| Theorem | Property | Assumes |
|---|---|---|
| `RefinesAtomicTable` | `ImplementsAtomicTable` | `Impatient = {}` |
| `RoundsEndEven` | `RoundEndsEven` | `Impatient = {}` |
| `EveryoneHasActed` | `EveryoneActs` | |
| `ShowdownsAreComplete` | `ShowdownIsComplete` | |
| `NobodyIsPassedOver` | `TurnsInOrder` | |
| `PotCovers` | `PotCoversPayments` | `Impatient = {}` |

The refinement maps a half-finished action to the state before it: what `PotWrite` has added
to the pot is taken out again, a doubled current bet is halved, and a payment is given back,
until the bet is set; a payment of a blind likewise; and a reset of the players that is
under way is shown as done. Every step of either thread is then a turn of one player, a step
of the dealer, or no step. It rests on `Handoff` and `UpdatesAreNotLost`, and on `Linked`:
only calls and raises pay, the current bet is even while a raise pays, and the reset has
cleared the players before the cursor. `RoundsEndEven` adds what `equalBets` has compared so
far (`EvenSoFar`), which stays true because no handler runs while it compares; every player
has a seat (`EverybodyIsSeated`), so comparing the seats compares all.

`PotCovers` is about a sum over the players. `PotAccounts` balances it at every step of the
first hand: a call or raise has put its amount in the pot before it is paid (`PotAhead`),
and the blinds, which never reach the pot, are as far as `BlindsPaid` says. What a raise
puts in the pot is enough only if the current bet is even, which `PaysForAction` gives, and
the blinds are what they should be only as nobody raises while they are collected
(`Collecting`), which is where `Handoff` comes in. That one payment changes the sum by its
amount is `SumChanges` of `Induction`.

The other three hold whatever keys are pressed. For `EveryoneActs` the invariant `Progress`
numbers the first turns of a round (`TurnOf`): a player who neither acted nor folded still
has that turn to come, and there have been no more actions than turns, so the count of
actions cannot have reached the number of players, wrapped or not. For `ShowdownIsComplete`,
`CardsAreSound` keeps hands, board and deck disjoint and counts the cards dealt and drawn.
For `TurnsInOrder`, `FoldedSince` says for one seat of the last to act that all seats
`Between` it and the current index have folded; the statement with remainders follows since
no player has two seats: an order of the map that reaches every player reaches nobody twice
(`SeatingOrders`).

`LobbyProofs` proves, for any number of clients and of seats:

| Theorem | Property |
|---|---|
| `SeatsAreInOrder` | `SeatsAgree` |
| `TableClosesInTime` | `TableCloses` |
| `ListIsNotRaced` | `NoListRace` |
| `LeaversAreAwaited` | `LeaverIsAwaited` |
| `LobbyIsTyped` | `TypeOK` |
| `OpenStayListed` | `OpenAreListed` |
| `BroadcastsReach` | `BroadcastReaches` |

`NoListRace` rests on `OneThreadAtATime`: of the key asked for, the broadcast of the main
thread and the flag there is exactly one during the game thread's wait and none outside of
it, so the game thread never broadcasts together with the main thread, and the io thread is
done (`TableCloses`) before either begins. `SeatsAgree` needs that a client waits in the
backlog before it is a player, and connects once (`Fresh`).

The last two follow `m_connections` through a walk and its pruning (`ListInv`). `Known` says
that who is on the list has been accepted, so that `Accept` lists nobody twice; `Passed`
says that what a walk has gone by and is open has been reached. `OpenAreListed` itself says
that a null pointer is on the list only as long as the walk that put it there is not over
(`invalid`), so that the end of that walk erases it. `Pruning` is the lemma about the loop
of `std::remove`: what it keeps is in order, has no null pointer, and has every other
element once. Both speak of behaviours in which the list has not been raced for, as the
properties do.

`ConnectionProofs` proves, for any number of messages:

| Theorem | Property |
|---|---|
| `StreamsHold` | `TypeOK` and `Streams` |
| `MessagesInOrder` | `InOrder` |
| `TextsArrive` | `TextArrives` |
| `OneWrite` | `OneWriteInFlight` |

`InOrder` speaks of what arrived only. `Streams` says where the other messages are: those
posted and queued are numbered without a gap (`Numbered`), the outstanding write is of the
front message (`Writing`), what is on the wire or being written is a sequence of headers,
each followed by its body if it has one (`Chained`), and starts with what the reader reads
for (`Reading`) and ends with the last message taken off the queue (`Ending`). A failure
keeps all of this: an abandoned queue stays non-empty, so no other write is ever started,
and a stopped reader asks nothing of the wire. The hypothesis is `MaxSendsAssumption`.

`SafeQueueProofs` proves, for any set of pushing threads and any number of messages:

| Theorem | Property |
|---|---|
| `Refinement` | `IsAtomicQueue` (every step of `SafeQueue` is a step of `AtomicQueue` or none) |
| `WakeupsArrive` | `NoLostWakeup` |
| `PollingConsumerRuns` | `PollingNeverWaits` |

Its invariant is the mutual exclusion of the threads inside an operation (`Locked`), from
which the copy a thread works on is the deque itself (`CopyFresh`), and that nobody but the
consumer removes messages (`HasItem`, `Polled`). It assumes one consumer; with two,
`PollingNeverWaits` would be false. The closing of the socket and the quit key are among the
steps.

`AlgorithmProofs` proves, for any number of rows and columns, any values and any table of
keys, for any bytes and any size of a body, for any players' ranges and any limit, and for
any cards of five to thirteen ranks:

| Theorem | Property |
|---|---|
| `HashIsPerfect` | `LookupsCorrect` |
| `AssertionHolds` | `NoClash`, the assertion in `populateLookup` |
| `TableFits` | `TableStaysCompact` |
| `MessageCarries` | `CarriesWhatWasPushed` |
| `JoinsHoldDeals` | `JoinsAreDeals` |
| `JoinsAreInRoom` | `JoinIsInRoom`, the assertion in `join` and `estimateJoinSize` |
| `HandIsWhatItsCardsAre` | `HandIsItsCards` |
| `FlushesAreFound` | `FlushIsFound` |

The invariant of the hash says that two keys that share a slot have the same value, for the
slots as they are computed with the stored, wrapped offsets; that is what makes the order of
the writes in the next build irrelevant. It assumes that the offsets fit their type
(`HashAssumption`). How far first fit gets, one row's width for each row placed, is a part
of the invariant of its own; it needs the position of an empty stretch only.

`CarriesWhatWasPushed` is inductive together with the types of its variables. The body is
what the pieces come to when they are put end to end; the work is in the lemmas on
`FlattenSeq` (`FlattenAppend`: one more piece adds its bytes at the end) and in the two
cases of a pop. If a datum of that size was pushed last, the bytes at the end are its own
and the pieces before it stay (`PopLastKeeps`, by `BytesAtEnd`); otherwise the cut may go
through any piece, and what stays is one piece of the bytes before it (`PopOtherKeeps`). The
assumption (`MessageAssumption`) is that a datum has a byte at least.

Of `joinRanges` the invariant (`JoinInv`) is that every combined range is `Sound`: its
combos have exactly the deals of its players, each once, and each its cards as the mask.
That the masks are right is what it adds to the property, because `join` compares masks, not
cards: a deal of all the players splits into a deal of the first ones and one of the others
that have no card in common (`DealsSplit`), and two such deals are one of all of them
(`DealsJoin`). `Traces` is the lemma about the two nested loops: what comes out of them
comes from a pair of combos, every compatible pair comes out, and two that come out come
from two pairs; hence `join` is as long as `estimateJoinSize` says (`SizeIsCount`). `InSome`
and `InOneOnly` follow the players through the erasure of the second range. The proof
assumes that a range has no pair of cards twice (`RangesAssumption`;
`CardRange::removeDuplicates` sees to it) and that there are no more ranges than
`MAX_PLAYERS` (the bound of `CombinedNext`, the size of the arrays of `CombinedRange.h`);
nothing in the repository calls `joinRanges`.

The last two are about `omp::Hand`, which is all `evaluate` sees of the cards.
`HandIsItsCards` is inductive together with the types: the key is a sum over the cards, and
what one card adds to it does not depend on the order they came in (`SumTakes`, in
`Induction`); a removal takes the rank out of the mask of its suit only, where no other card
has it (`RemovingKeepsFacts`). The bounds are part of it: a counter stays below 16 and the
key below seven times the last multiplier, so that no field of the word runs into the next.
`FlushIsFound` follows: two suits with five cards each would be ten cards
(`OneSuitHasFive`), so one check bit is set, and the shift made of its leading zeros is the
position of that suit's mask. No run lists these two; what a run checks of the same states
is `EvaluatesByTheRules`, which rests on both.

`ArithmeticProofs` proves, for words of any number of bits (an even one for division):

| Theorem | Property |
|---|---|
| `DividingIsExact` | `DividesExactly` |
| `GeneratorsStayFull` | `GeneratorsAreFull` |

For division the state is one divisor that is chosen once, so the inductive invariant says
only that it is a word; the work is in `UnsignedIsExact` and `SignedIsExact`, about one
divisor and all numerators. They are reached in four steps.

1. *Numbers.* The provers know little of `2 ^ n`. That it doubles comes from counting
   subsets (`PowerDoubles`); sums of exponents and logarithms follow by induction
   (`PowerAdds`, `Logarithm`). `Division`, `QuotientBounds`, `QuotientPlus` and
   `DividedTwice` are the facts about quotient and remainder that are cited from there on.
2. *Primitives.* Each of the ways to get a high word is the high word of the product: from
   halves (`HighWordOfHalves`, `HighWordOfSignedHalves`), in pairs (`HighWordsOfPair`), and
   unsigned with a correction for each sign (`HighWordFlat`, `HighWordsOfSignedPair`).
   Knuth's division of two words by one is the division (`DivHalvesIs`; `DigitIs` shows that
   an estimated digit is corrected to the digit), and the one of two words by two gives the
   quotient and remainder that `recover` needs (`DivDoublesIs`). Both are proved for
   dividends whose low word is 0, the only ones `gen` and `recover` have.
3. *Magic numbers.* If `m * d = p + e` and the error `e` is small enough for the numerators
   there are, then `(m * n) \div p` is the quotient (`MagicQuotient`); for a negative
   numerator it is one too low (`MagicQuotientDown`), which `MagicQuotientToZero` makes
   good; and `p \div m = d - 1`, from which the divisor is had back (`MagicRecover`).
   `ShortMagic` and `LongMagic`, and `SignedShortMagic` and `SignedLongMagic`, show that the
   number is of that kind in both cases of `gen`: where the error is below the power of two
   the number fits in a word, and otherwise the number for twice the power does but for one
   bit (`Doubled` with its carry, `DoubledIs`).
4. *Algorithms.* `UnsignedGenIs`, `PowerGenIs` and `SignedGenIs` say which divider `gen`
   makes, and that the 32-bit and the 64-bit one are the same; then each algorithm is shown
   to give the quotient from it, the missing bit being put back without overflow
   (`LongDivides`, `SignedLongDivides`, `BranchfreeDivides`). A power of two is a shift
   (`ShiftDivides`); the least divisor, whose size is no signed word, is recovered too
   (`NumberOfSize`).

The only assumption is that half a word has a bit at least (`HalfBitsAssumption`). The
exceptions are in the property: 1 and -1 for the branch-free algorithms, and the least
number divided by -1.

For the generators the inductive invariant is `GeneratorInv`. Its first part says that the
words of `XoroShiro128Plus` are words and not both zero. That a step keeps this, and has one
predecessor, is the same fact (`MixedUndone`): exclusive or and rotation can be undone
(`XorUndone`, `RotlUndone`), and zeros give zeros. The second part is about `UniqueRng64`:
there is an orbit `f`, the numbers that follow the first one before any is masked, and a
place `n` in it, such that the last number is `f[n]` masked, and those given are exactly the
ones of the range among the first `n` (`GivenUpTo`). `2^j` steps multiply by `1 + 4 * 2^j *
q` and add `2^j * (2 * v + 1)` (`StridesOfPowers`, from the two halves of the stride); so
two numbers agree in `j` bits only if they are a multiple of `2^j` steps apart
(`ApartByPowers`), all of one turn differ, and by counting they are all (`OrbitFull`). While
fewer have been given than the range has, one is missing and must be ahead, so the next one
is found before the turn ends and is new (`NextNumber`, `NextOfTurn`). The assumption on the
constants (`LcgAssumption`) is what `Random.h:79-80` gives `a` and `c`.

`Induction` has what these proofs need of recursion. The library's induction theorems take
an operator and cannot be used, so induction is done on sets: of the numbers for which a
statement fails there would be a least (`LeastNumber`). A function defined by recursion is
the function that satisfies the recursion, and `Recursion` proves that there is one. `IsSum`
says what it is for a function on sets to be a sum; `SumExists`, `SumChanges`, `SumTakes`,
`SumsAgree` and `SumBound` are about it.

Model-checked only:

* liveness (`HandEnds`, `Arrives`, `QuitIsNoticed`, `MessagesAreTaken`, `EnoughCome`), which
  is out of the prover's reach;
* `EvaluatesByTheRules`, `KeysAreUnique`, `ReadsWhatIsWritten` and `DrawsAreFresh`, whose
  definitions are recursive operators; the first two are facts about finite tables that a
  proof could only enumerate.

## 5. Not modelled

* The contents of `OffsetTable.hxx`: generated numbers.
* What only prints: the client's screen, the log, `outputTableStats`, the wording of
  messages.
* What has no caller: `Game::stop`, `GameState::removeActivePlayer`, `server::stop` other
  than at the end of the process, `server::message_client`, `safe_queue`'s `back`,
  `push_front`, `size` and `clear`, `CombinedRange::shuffle`, the `udp` classes.
* The dispatch templates at the end of `libdivide.h`, which forward, and the branches of its
  `#if`s for particular compilers; the SSE paths of `Hand.h`, which add and mask the same
  words.
* The overflow of `m_currentBet`, which takes some 57 raises, and money below zero: the code
  makes no promise about either. `MaxBet` bounds the raises.
* Timeouts, retries and reconnection: the code has none.
