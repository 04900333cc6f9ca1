--------------------------- MODULE OutboundProofs ---------------------------
(***************************************************************************)
(* Proofs about a reply: its delivery (Outbound), for every number of jobs, *)
(* chunks, attempts and crashes, and what it says (Answer and Splitter),   *)
(* for any lines of the CLI and however its pipes are read.                *)
(*                                                                         *)
(* Of the delivery, the inductive invariant has two halves.  LedgerInv is  *)
(* about the notifications and their chunks: what is due is unsent, what   *)
(* is recorded as sent was taken, and what was taken was charged or fell   *)
(* to a crash.  JobsInv is about the jobs: the worker's row, and the chain *)
(* of the retry jobs of a notification.                                    *)
(*                                                                         *)
(* Of the answer, AnswerInv says that each event is the next line of its   *)
(* stream (Placed), and that a reader holds what was decoded and is in no  *)
(* event (Held).                                                           *)
(***************************************************************************)
EXTENDS Outbound, Answer, FiniteSetTheorems, TLAPS

-----------------------------------------------------------------------------
(* The ledger's operations *)

\* The number of chunks is a number.
LEMMA SizeIsNat == ASSUME NEW n PROVE Size(n) \in Nat \ {0}
  BY OutboundAssumption DEF Size

\* What the ledger holds of one chunk.
LEMMA ChunkType ==
  ASSUME TypeLedger, NEW n \in Created, NEW c \in 1 .. Size(n)
  PROVE  /\ chunk[n][c].status \in {"pending", "sent", "failed"}
         /\ chunk[n][c].attempts \in Nat
         /\ got[n][c] \in Nat
         /\ Charged(n, c) \in Nat
<1>1. chunk[n][c] \in Chunk /\ got[n][c] \in Nat
  BY DEF TypeLedger
<1> QED BY <1>1, OutboundAssumption DEF Chunk, Charged

\* Creating notifications leaves those that exist as they are.
LEMMA CreateEffect ==
  ASSUME TypeLedger, NEW new \in SUBSET Note, Create(new)
  PROVE  /\ Created' = Created \union new
         /\ DOMAIN chunk' = Created' /\ DOMAIN got' = Created'
         /\ \A n \in Created : /\ parent'[n] = parent[n]
                               /\ chunk'[n] = chunk[n]
                               /\ got'[n] = got[n]
         /\ \A n \in new \ Created : /\ parent'[n] = "pending"
                                     /\ chunk'[n] = Fresh(n)
                                     /\ got'[n] = [c \in 1 .. Size(n) |-> 0]
  BY DEF TypeLedger, Create, Created

\* Marking a chunk changes that chunk only.
LEMMA MarkEffect ==
  ASSUME TypeLedger, note \in Created, NEW c \in 1 .. Size(note), NEW st, Mark(c, st)
  PROVE  /\ DOMAIN chunk' = Created
         /\ \A n \in Created : n # note => chunk'[n] = chunk[n]
         /\ DOMAIN chunk'[note] = 1 .. Size(note)
         /\ \A d \in 1 .. Size(note) : d # c => chunk'[note][d] = chunk[note][d]
         /\ chunk'[note][c] = [status |-> st, attempts |-> chunk[note][c].attempts + 1]
  BY DEF TypeLedger, Mark

\* So does a message Telegram takes.
LEMMA TookEffect ==
  ASSUME TypeLedger, note \in Created, NEW c \in 1 .. Size(note), Took(c)
  PROVE  /\ DOMAIN got' = Created
         /\ \A n \in Created : n # note => got'[n] = got[n]
         /\ got'[note] \in [1 .. Size(note) -> Nat]
         /\ \A d \in 1 .. Size(note) : d # c => got'[note][d] = got[note][d]
         /\ got'[note][c] = got[note][c] + 1
<1>1. got[note] \in [1 .. Size(note) -> Nat] /\ note \in DOMAIN got
  BY DEF TypeLedger
<1>2. got' = [got EXCEPT ![note] = [got[note] EXCEPT ![c] = got[note][c] + 1]]
  BY <1>1 DEF Took
<1>3. got'[note] = [got[note] EXCEPT ![c] = got[note][c] + 1]
  BY <1>1, <1>2
<1>4. /\ DOMAIN got' = Created
      /\ \A n \in Created : n # note => got'[n] = got[n]
  BY <1>2 DEF TypeLedger
<1>5. got'[note] \in [1 .. Size(note) -> Nat] /\ got'[note][c] = got[note][c] + 1
  BY <1>1, <1>3
<1>6. \A d \in 1 .. Size(note) : d # c => got'[note][d] = got[note][d]
  BY <1>1, <1>3
<1> QED BY <1>4, <1>5, <1>6

-----------------------------------------------------------------------------
(* LedgerInv *)

\* A step that leaves the ledger alone and begins or ends nothing in a pass.
LEMMA Quiet ==
  ASSUME LedgerInv, UNCHANGED <<ledger, got, note, todo, crashes>>,
         pc' = pc \/ (/\ pc \notin {"pass"} \union OnTheWire
                      /\ pc' \notin {"pass"} \union OnTheWire
                      /\ pc' \in Passing => pc \in Passing)
  PROVE  LedgerInv'
<1> USE DEF LedgerInv, ledger
<1>1. TypeLedger'
  BY DEF TypeLedger, Created
<1>2. PassOK'
  BY DEF PassOK, Created, Passing, OnTheWire, First, Unsent, Spent
<1>3. TruthOK'
  BY DEF TruthOK, Created, OnTheWire, First, Unsent
<1>4. CountOK'
  BY DEF CountOK, Created, OnTheWire, First, Charged, InFlight
<1> QED BY <1>1, <1>2, <1>3, <1>4

\* Notifications are created, and at most a pass over one of them begins.
LEMMA Creating ==
  ASSUME LedgerInv, NEW new \in SUBSET Note, Create(new), UNCHANGED crashes,
         pc \notin {"pass"} \union OnTheWire,
         \/ pc' \notin Passing /\ UNCHANGED <<note, todo>>
         \/ note' \in new /\ pc' = "pass" /\ todo' = Picked(note')
  PROVE  LedgerInv'
<1> USE DEF LedgerInv
<1>1. /\ Created' = Created \union new
      /\ DOMAIN chunk' = Created' /\ DOMAIN got' = Created'
      /\ \A n \in Created : /\ parent'[n] = parent[n]
                            /\ chunk'[n] = chunk[n]
                            /\ got'[n] = got[n]
      /\ \A n \in new \ Created : /\ parent'[n] = "pending"
                                  /\ chunk'[n] = Fresh(n)
                                  /\ got'[n] = [c \in 1 .. Size(n) |-> 0]
  BY CreateEffect
<1>2. \A n \in new \ Created : chunk'[n] \in [1 .. Size(n) -> Chunk]
  BY <1>1 DEF Fresh, Chunk
<1>3. \A n \in new \ Created : \A c \in 1 .. Size(n) :
        chunk'[n][c].status = "pending" /\ chunk'[n][c].attempts = 0 /\ got'[n][c] = 0
  <2> SUFFICES ASSUME NEW n \in new \ Created, NEW c \in 1 .. Size(n)
               PROVE  chunk'[n][c] = [status |-> "pending", attempts |-> 0] /\ got'[n][c] = 0
    OBVIOUS
  <2>1. chunk'[n] = Fresh(n) /\ got'[n] = [d \in 1 .. Size(n) |-> 0]
    BY <1>1
  <2>2. Fresh(n)[c] = [status |-> "pending", attempts |-> 0]
    BY DEF Fresh
  <2> QED BY <2>1, <2>2
<1>4. pc' \notin OnTheWire /\ todo' \subseteq 1 .. Size(note')
  BY DEF Picked, Passing, OnTheWire, TypeLedger
<1>5. TypeLedger'
  <2>1. note' \in Created' \union {NoNote}
    BY <1>1 DEF TypeLedger
  <2>2. \A n \in Created' : /\ parent'[n] \in {"pending", "sent", "failed"}
                            /\ chunk'[n] \in [1 .. Size(n) -> Chunk]
                            /\ got'[n] \in [1 .. Size(n) -> Nat]
    BY <1>1, <1>2 DEF TypeLedger
  <2> QED BY <1>1, <1>4, <2>1, <2>2 DEF TypeLedger
<1>6. PassOK'
  <2>1. pc' \in Passing => note' \in Created'
    BY <1>1
  <2>2. \A c \in todo' : Unsent(note, c)'
    <3>1. CASE pc' \notin Passing /\ UNCHANGED <<note, todo>>
      BY <3>1 DEF PassOK
    <3>2. CASE note' \in new /\ pc' = "pass" /\ todo' = Picked(note')
      BY <1>1, <1>3, <3>2 DEF Picked, Unsent
    <3> QED BY <3>1, <3>2
  <2>3. pc' \notin {"pass"} \union OnTheWire => todo' = {}
    BY DEF PassOK, Passing, OnTheWire
  <2> QED BY <1>4, <2>1, <2>2, <2>3 DEF PassOK
<1>7. TruthOK'
  BY <1>1, <1>3, <1>4 DEF TruthOK, Unsent, OnTheWire
<1>8. CountOK'
  <2> SUFFICES ASSUME NEW n \in Created', NEW c \in 1 .. Size(n)
               PROVE got'[n][c] <= Charged(n, c)' + crashes' + InFlight(n, c)'
    BY DEF CountOK
  <2>1. InFlight(n, c)' = 0 /\ crashes \in Nat
    BY <1>4 DEF InFlight, OnTheWire, TypeLedger
  <2>2. CASE n \in Created
    <3>1. InFlight(n, c) = 0
      BY DEF InFlight, OnTheWire
    <3>2. Charged(n, c)' = Charged(n, c) /\ got'[n][c] = got[n][c]
      BY <1>1, <2>2 DEF Charged
    <3> QED BY <2>1, <2>2, <3>1, <3>2 DEF CountOK
  <2>3. CASE n \in new \ Created
    <3>1. Charged(n, c)' = 0 /\ got'[n][c] = 0
      BY <1>3, <2>3, OutboundAssumption DEF Charged
    <3> QED BY <2>1, <3>1
  <2> QED BY <1>1, <2>2, <2>3
<1> QED BY <1>5, <1>6, <1>7, <1>8

\* A pass marks the chunk it is at: as sent only when Telegram took it.
LEMMA Marking ==
  ASSUME LedgerInv, NEW c \in todo, First(c),
         NEW st \in {"pending", "sent", "failed"}, Mark(c, st),
         UNCHANGED <<parent, got, note, crashes>>,
         pc \in {"pass"} \union OnTheWire, pc' = "pass",
         todo' \subseteq todo \ {c},
         st = "sent" => pc = "answer"
  PROVE  LedgerInv'
<1> USE DEF LedgerInv
<1>1. note \in Created /\ c \in 1 .. Size(note) /\ Unsent(note, c)
  BY DEF PassOK, Passing, OnTheWire, TypeLedger
<1>2. /\ DOMAIN chunk' = Created
      /\ \A n \in Created : n # note => chunk'[n] = chunk[n]
      /\ DOMAIN chunk'[note] = 1 .. Size(note)
      /\ \A d \in 1 .. Size(note) : d # c => chunk'[note][d] = chunk[note][d]
      /\ chunk'[note][c] = [status |-> st, attempts |-> chunk[note][c].attempts + 1]
  BY <1>1, MarkEffect
<1>3. Created' = Created /\ \A n, d : InFlight(n, d)' = 0
  BY DEF Created, InFlight
<1>4. TypeLedger'
  <2>1. \A n \in Created : chunk'[n] \in [1 .. Size(n) -> Chunk]
    <3>1. chunk[note][c].attempts + 1 \in Nat
      BY <1>1, ChunkType
    <3>2. chunk'[note][c] \in Chunk
      BY <1>2, <3>1 DEF Chunk
    <3>3. chunk'[note] = [d \in 1 .. Size(note) |-> chunk'[note][d]]
      BY <1>1 DEF TypeLedger, Mark
    <3>4. \A d \in 1 .. Size(note) : chunk'[note][d] \in Chunk
      BY <1>1, <1>2, <3>2 DEF TypeLedger
    <3>5. chunk'[note] \in [1 .. Size(note) -> Chunk]
      BY <3>3, <3>4
    <3> QED BY <1>2, <3>5 DEF TypeLedger
  <2> QED BY <1>2, <1>3, <2>1 DEF TypeLedger
<1>5. PassOK'
  BY <1>1, <1>2, <1>3 DEF PassOK, TypeLedger, Unsent, OnTheWire
<1>6. TruthOK'
  <2>0. ~Unsent(note, c)' => pc = "answer"
    BY <1>2 DEF Unsent
  <2>1. \A n \in Created : \A d \in 1 .. Size(n) :
          Unsent(n, d)' \/ ~Unsent(n, d) \/ (pc = "answer" /\ n = note /\ d = c)
    BY <1>1, <1>2, <2>0 DEF Unsent
  <2>2. \A n \in Created : \A d \in 1 .. Size(n) : ~Unsent(n, d) => ~Unsent(n, d)'
    BY <1>1, <1>2 DEF Unsent
  <2>3. parent[note] # "sent"
    BY <1>1 DEF TruthOK
  <2> QED BY <1>1, <1>3, <2>1, <2>2, <2>3 DEF TruthOK
<1>7. CountOK'
  <2> SUFFICES ASSUME NEW n \in Created, NEW d \in 1 .. Size(n)
               PROVE  got'[n][d] <= Charged(n, d)' + crashes' + InFlight(n, d)'
    BY <1>3 DEF CountOK
  <2>0. /\ InFlight(n, d)' = 0 /\ crashes \in Nat
        /\ got[n][d] \in Nat /\ Charged(n, d) \in Nat /\ chunk[n][d].attempts \in Nat
        /\ got[n][d] <= Charged(n, d) + crashes + InFlight(n, d)
    BY <1>3, ChunkType DEF TypeLedger, CountOK
  <2>1. CASE n # note \/ d # c
    <3>1. chunk'[n][d] = chunk[n][d]
      BY <1>2, <2>1
    <3>2. Charged(n, d)' = Charged(n, d)
      BY <3>1 DEF Charged
    <3>3. ~(n = note /\ d \in todo /\ First(d))
      BY <1>1, <2>1, SizeIsNat DEF First
    <3>4. InFlight(n, d) = 0
      BY <3>3 DEF InFlight
    <3> QED BY <2>0, <3>2, <3>4
  <2>2. CASE n = note /\ d = c
    <3>1. chunk'[n][d].attempts = chunk[n][d].attempts + 1
      BY <1>2, <2>2
    <3>2. /\ InFlight(n, d) \in {0, 1}
          /\ InFlight(n, d) = 1 => chunk[n][d].attempts < MaxAttempts
      BY <2>0, <2>2, OutboundAssumption DEF InFlight, PassOK, OnTheWire, Spent, First
    <3>3. Charged(n, d)' >= Charged(n, d) + InFlight(n, d)
      BY <2>0, <3>1, <3>2, OutboundAssumption DEF Charged
    <3>4. Charged(n, d)' \in Nat
      BY <2>0, <3>1, OutboundAssumption DEF Charged
    <3> QED BY <2>0, <3>2, <3>3, <3>4
  <2> QED BY <2>1, <2>2
<1> QED BY <1>4, <1>5, <1>6, <1>7

\* One chunk is the first that is due.
LEMMA FirstUnique ==
  ASSUME TypeLedger, NEW c \in todo, NEW d \in todo, First(c), First(d)
  PROVE  c = d
<1>1. c \in Nat /\ d \in Nat
  BY SizeIsNat DEF TypeLedger
<1> QED BY <1>1 DEF First

\* Telegram takes the chunk that was asked for.
LEMMA Taking ==
  ASSUME LedgerInv, NEW c \in todo, First(c), Took(c), pc = "asked"
  PROVE  /\ note \in Created /\ c \in 1 .. Size(note)
         /\ DOMAIN got' = Created
         /\ \A n \in Created : got'[n] \in [1 .. Size(n) -> Nat]
         /\ \A n \in Created : \A d \in 1 .. Size(n) :
              got'[n][d] = IF n = note /\ d = c THEN got[n][d] + 1 ELSE got[n][d]
<1>1. note \in Created /\ c \in 1 .. Size(note)
  BY DEF LedgerInv, PassOK, Passing, TypeLedger
<1>2. /\ DOMAIN got' = Created
      /\ \A n \in Created : n # note => got'[n] = got[n]
      /\ got'[note] \in [1 .. Size(note) -> Nat]
      /\ \A d \in 1 .. Size(note) : d # c => got'[note][d] = got[note][d]
      /\ got'[note][c] = got[note][c] + 1
  BY <1>1, TookEffect DEF LedgerInv
<1>3. \A n \in Created : got'[n] \in [1 .. Size(n) -> Nat]
  BY <1>2 DEF LedgerInv, TypeLedger
<1> QED BY <1>1, <1>2, <1>3

\* Asking disturbs nothing: the chunk has attempts left.
LEMMA LedgerAsk ==
  ASSUME LedgerInv, NEW c \in todo, Ask(c)
  PROVE  LedgerInv'
<1> USE DEF LedgerInv, Ask, ledger
<1>1. TypeLedger'
  BY DEF TypeLedger, Created
<1>2. PassOK'
  BY FirstUnique DEF PassOK, Created, Passing, OnTheWire, First, Unsent, Spent
<1>3. TruthOK'
  BY DEF TruthOK, Created, Unsent
<1>4. CountOK'
  BY DEF CountOK, Created, Charged, InFlight
<1> QED BY <1>1, <1>2, <1>3, <1>4

\* The message Telegram takes is in flight until its answer is recorded.
LEMMA LedgerTake ==
  ASSUME LedgerInv, NEW c \in todo, Take(c)
  PROVE  LedgerInv'
<1> USE DEF LedgerInv, Take, ledger
<1>1. /\ note \in Created /\ c \in 1 .. Size(note)
      /\ DOMAIN got' = Created
      /\ \A n \in Created : got'[n] \in [1 .. Size(n) -> Nat]
      /\ \A n \in Created : \A d \in 1 .. Size(n) :
           got'[n][d] = IF n = note /\ d = c THEN got[n][d] + 1 ELSE got[n][d]
  BY Taking
<1>2. TypeLedger'
  BY <1>1 DEF TypeLedger, Created
<1>3. PassOK'
  BY DEF PassOK, Created, Passing, OnTheWire, First, Unsent, Spent
<1>4. TruthOK'
  <2>1. \A n \in Created : \A d \in 1 .. Size(n) : got'[n][d] >= got[n][d]
    BY <1>1, ChunkType
  <2>2. \A d \in todo : First(d) => got'[note][d] > 0
    BY <1>1, FirstUnique, ChunkType
  <2>3. \A n \in Created : \A d \in 1 .. Size(n) : ~Unsent(n, d) => got'[n][d] > 0
    BY <1>1, <2>1, ChunkType DEF TruthOK
  <2> QED BY <2>2, <2>3 DEF TruthOK, Created, Unsent, First
<1>5. CountOK'
  <2> SUFFICES ASSUME NEW n \in Created, NEW d \in 1 .. Size(n)
               PROVE  got'[n][d] <= Charged(n, d)' + crashes' + InFlight(n, d)'
    BY DEF CountOK, Created
  <2>1. /\ crashes \in Nat /\ got[n][d] \in Nat /\ Charged(n, d) \in Nat
        /\ Charged(n, d)' = Charged(n, d) /\ InFlight(n, d) = 0
        /\ got[n][d] <= Charged(n, d) + crashes + InFlight(n, d)
    BY ChunkType DEF TypeLedger, CountOK, Charged, InFlight
  <2>2. InFlight(n, d)' = IF n = note /\ d = c THEN 1 ELSE 0
    BY FirstUnique DEF InFlight, First
  <2> QED BY <1>1, <2>1, <2>2
<1> QED BY <1>2, <1>3, <1>4, <1>5

\* What was on the wire in a crash is counted against the crash.
LEMMA LedgerCrash ==
  ASSUME LedgerInv, Crash
  PROVE  LedgerInv'
<1> USE DEF LedgerInv, Crash, ledger
<1>1. /\ DOMAIN got' = Created
      /\ \A n \in Created : got'[n] \in [1 .. Size(n) -> Nat]
      /\ \A n \in Created : \A d \in 1 .. Size(n) :
           /\ got'[n][d] >= got[n][d]
           /\ got'[n][d] <= got[n][d] + 1
           /\ pc # "asked" => got'[n][d] = got[n][d]
  <2>1. CASE UNCHANGED got
    BY <2>1, ChunkType DEF TypeLedger
  <2>2. ASSUME pc = "asked", NEW c \in todo, First(c), Took(c)
        PROVE  <1>1!:
    BY <2>2, Taking, ChunkType
  <2> QED BY <2>1, <2>2
<1>2. TypeLedger'
  BY <1>1, OutboundAssumption DEF TypeLedger, Created
<1>3. PassOK'
  BY DEF PassOK, Passing, OnTheWire
<1>4. TruthOK'
  <2>1. \A n \in Created : \A d \in 1 .. Size(n) : ~Unsent(n, d) => got'[n][d] > 0
    <3> SUFFICES ASSUME NEW n \in Created, NEW d \in 1 .. Size(n), ~Unsent(n, d)
                 PROVE  got'[n][d] > 0
      OBVIOUS
    <3>1. got[n][d] > 0 /\ got[n][d] \in Nat /\ got'[n][d] \in Nat
      BY <1>1, ChunkType DEF TruthOK
    <3>2. got'[n][d] >= got[n][d]
      BY <1>1
    <3> QED BY <3>1, <3>2
  <2> QED BY <2>1 DEF TruthOK, Created, Unsent
<1>5. CountOK'
  <2> SUFFICES ASSUME NEW n \in Created, NEW d \in 1 .. Size(n)
               PROVE  got'[n][d] <= Charged(n, d)' + crashes' + InFlight(n, d)'
    BY DEF CountOK, Created
  <2>1. /\ crashes \in Nat /\ got[n][d] \in Nat /\ Charged(n, d) \in Nat
        /\ Charged(n, d)' = Charged(n, d) /\ InFlight(n, d)' = 0
        /\ got[n][d] <= Charged(n, d) + crashes + InFlight(n, d)
        /\ InFlight(n, d) \in {0, 1}
    BY ChunkType DEF TypeLedger, CountOK, Charged, InFlight
  <2>2. pc = "asked" => InFlight(n, d) = 0
    BY DEF InFlight
  <2>3. got'[n][d] \in Nat
    BY <1>1
  <2> QED BY <1>1, <2>1, <2>2, <2>3
<1> QED BY <1>2, <1>3, <1>4, <1>5

\* The parent rolls up to "sent" only over sent chunks, and then stays so.
LEMMA LedgerRollUp ==
  ASSUME LedgerInv, RollUpParent
  PROVE  LedgerInv' /\ (parent[note] = "sent" => RollUp(note) = "sent")
<1> USE DEF LedgerInv, RollUpParent
<1>1. note \in Created
  BY DEF PassOK, Passing
<1>2. RollUp(note) = "sent" <=> \A c \in 1 .. Size(note) : ~Unsent(note, c)
  BY <1>1, ChunkType DEF RollUp, Has, Unsent
<1>3. RollUp(note) \in {"pending", "sent", "failed"}
  BY DEF RollUp
<1>4. Created' = Created
  BY DEF Created, TypeLedger
<1>5. TypeLedger'
  BY <1>3, <1>4 DEF TypeLedger, Created
<1>6. PassOK'
  BY <1>4 DEF PassOK, Passing, OnTheWire
<1>7. TruthOK'
  BY <1>1, <1>2, <1>4 DEF TruthOK, Unsent, Created
<1>8. CountOK'
  BY <1>4 DEF CountOK, Charged, InFlight
<1> QED BY <1>1, <1>2, <1>5, <1>6, <1>7, <1>8 DEF TruthOK

\* Failing what has no attempts left touches pending chunks only.
LEMMA LedgerTerminalize ==
  ASSUME LedgerInv, Terminalize
  PROVE  LedgerInv'
<1> USE DEF LedgerInv, Terminalize, RetryRolled
<1>1. note \in Created /\ todo = {}
  BY DEF PassOK, Passing, OnTheWire
<1>2. /\ DOMAIN chunk' = Created
      /\ \A n \in Created : n # note => chunk'[n] = chunk[n]
      /\ chunk'[note] = [c \in 1 .. Size(note) |->
           IF c \in Exhausted(note) THEN [chunk[note][c] EXCEPT !.status = "failed"]
           ELSE chunk[note][c]]
  BY <1>1 DEF TypeLedger
<1>3. \A c \in 1 .. Size(note) :
        /\ chunk'[note][c] \in Chunk
        /\ chunk'[note][c].attempts = chunk[note][c].attempts
        /\ Unsent(note, c)' <=> Unsent(note, c)
  <2> SUFFICES ASSUME NEW c \in 1 .. Size(note)
               PROVE  /\ chunk'[note][c] \in Chunk
                      /\ chunk'[note][c].attempts = chunk[note][c].attempts
                      /\ Unsent(note, c)' <=> Unsent(note, c)
    OBVIOUS
  <2>1. chunk[note][c] \in Chunk
    BY <1>1 DEF TypeLedger
  <2>2. CASE c \in Exhausted(note)
    <3>1. chunk'[note][c] = [chunk[note][c] EXCEPT !.status = "failed"]
      BY <1>2, <2>2
    <3>2. chunk[note][c].status = "pending"
      BY <2>2 DEF Exhausted
    <3> QED BY <2>1, <3>1, <3>2 DEF Chunk, Unsent
  <2>3. CASE c \notin Exhausted(note)
    <3>1. chunk'[note][c] = chunk[note][c]
      BY <1>2, <2>3
    <3> QED BY <2>1, <3>1 DEF Unsent
  <2> QED BY <2>2, <2>3
<1>4. Created' = Created
  BY DEF Created
<1>5. TypeLedger'
  <2>1. chunk'[note] \in [1 .. Size(note) -> Chunk]
    BY <1>2, <1>3
  <2> QED BY <1>2, <1>4, <2>1 DEF TypeLedger
<1>6. PassOK'
  BY <1>1, <1>4 DEF PassOK
<1>7. TruthOK'
  <2>1. \A n \in Created : \A c \in 1 .. Size(n) : Unsent(n, c)' <=> Unsent(n, c)
    BY <1>2, <1>3 DEF Unsent
  <2> QED BY <1>1, <1>4, <2>1 DEF TruthOK
<1>8. CountOK'
  <2>1. \A n \in Created : \A c \in 1 .. Size(n) : Charged(n, c)' = Charged(n, c)
    BY <1>2, <1>3 DEF Charged
  <2>2. \A n, c : InFlight(n, c)' = 0 /\ InFlight(n, c) = 0
    BY DEF InFlight
  <2> QED BY <1>4, <2>1, <2>2 DEF CountOK
<1> QED BY <1>5, <1>6, <1>7, <1>8

-----------------------------------------------------------------------------
(* The jobs table's operations *)

\* An update of one row's status and attempts changes nothing else.
LEMMA Updating ==
  ASSUME TypeJobs, NEW j \in 1 .. Len(rows), NEW st \in RowStatus, NEW a \in Nat,
         \/ rows' = [rows EXCEPT ![j].status = st, ![j].attempts = a]
         \/ rows' = [rows EXCEPT ![j].status = st] /\ a = rows[j].attempts
  PROVE  /\ rows' \in Seq(Row) /\ Len(rows') = Len(rows)
         /\ \A i \in 1 .. Len(rows) :
              /\ i # j => rows'[i] = rows[i]
              /\ rows'[i].kind = rows[i].kind /\ rows'[i].note = rows[i].note
              /\ rows'[i].from = rows[i].from
         /\ rows'[j].status = st /\ rows'[j].attempts = a
         /\ \A n, f : Known(n, f)' <=> Known(n, f)
<1>1. rows \in Seq(Row) /\ rows[j] \in Row
  BY DEF TypeJobs
<1>2. PICK r \in Row : /\ r.kind = rows[j].kind /\ r.note = rows[j].note
                       /\ r.from = rows[j].from /\ r.status = st /\ r.attempts = a
                       /\ rows' = [rows EXCEPT ![j] = r]
  <2>1. CASE rows' = [rows EXCEPT ![j].status = st, ![j].attempts = a]
    <3> DEFINE r == [[rows[j] EXCEPT !.status = st] EXCEPT !.attempts = a]
    <3>1. rows' = [rows EXCEPT ![j] = r]
      BY <1>1, <2>1
    <3>2. r \in Row /\ r.kind = rows[j].kind /\ r.note = rows[j].note
          /\ r.from = rows[j].from /\ r.status = st /\ r.attempts = a
      BY <1>1 DEF Row
    <3> QED BY <3>1, <3>2
  <2>2. CASE rows' = [rows EXCEPT ![j].status = st] /\ a = rows[j].attempts
    <3> DEFINE r == [rows[j] EXCEPT !.status = st]
    <3>1. rows' = [rows EXCEPT ![j] = r]
      BY <1>1, <2>2
    <3>2. r \in Row /\ r.kind = rows[j].kind /\ r.note = rows[j].note
          /\ r.from = rows[j].from /\ r.status = st /\ r.attempts = a
      BY <1>1, <2>2 DEF Row
    <3> QED BY <3>1, <3>2
  <2> QED BY <2>1, <2>2
<1>3. /\ rows' \in Seq(Row) /\ Len(rows') = Len(rows)
      /\ \A i \in 1 .. Len(rows) : i # j => rows'[i] = rows[i]
      /\ rows'[j] = r
  BY <1>1, <1>2
<1>4. \A i \in 1 .. Len(rows) :
        /\ rows'[i].kind = rows[i].kind /\ rows'[i].note = rows[i].note
        /\ rows'[i].from = rows[i].from
  BY <1>2, <1>3
<1>5. \A n, f : Known(n, f)' <=> Known(n, f)
  BY <1>3, <1>4 DEF Known
<1> QED BY <1>2, <1>3, <1>4, <1>5

\* A retry job is queued unless its key is known.
LEMMA Enqueuing ==
  ASSUME NEW t \in Seq(Row), NEW n \in Note, NEW f \in Nat
  PROVE  /\ Enqueued(t, n, f) \in Seq(Row)
         /\ Len(Enqueued(t, n, f)) = IF Known(n, f) THEN Len(t) ELSE Len(t) + 1
         /\ \A i \in 1 .. Len(t) : Enqueued(t, n, f)[i] = t[i]
         /\ ~Known(n, f) => Enqueued(t, n, f)[Len(t) + 1] = RetryOf(n, f)
<1>1. RetryOf(n, f) \in Row
  BY DEF RetryOf, Row, RowStatus
<1> QED BY <1>1 DEF Enqueued

-----------------------------------------------------------------------------
(* JobsInv *)

\* Steps that leave the table alone: the notifications and the passes.
LEMMA JobsStill ==
  ASSUME JobsInv, UNCHANGED <<rows, cur, flipped>>,
         \/ NotifyAccepted \/ NotAnnounced \/ NotifyEnd \/ Retry
         \/ /\ pc \in Passing \ {"settled"} /\ pc' \in Passing \ {"settled"}
            /\ note' = note
  PROVE  JobsInv'
<1> USE DEF JobsInv
<1>1. pc' \in Pc /\ pc \notin {"idle", "down", "settled"}
      /\ pc' \notin {"idle", "down", "settled"}
  BY DEF NotifyAccepted, NotAnnounced, NotifyEnd, Retry, Begin, Passing, Pc, Awaiting
<1>2. TypeJobs'
  BY <1>1 DEF TypeJobs
<1>3. RowsOK'
  <2>1. /\ pc' \in {"busy", "ended"} => rows[cur].kind = "work"
        /\ pc' # "ended"
    BY DEF NotifyAccepted, NotAnnounced, NotifyEnd, Retry, Begin, Passing
  <2>2. (pc' \in Passing /\ HoldsRetry) => note' = rows[cur].note
    BY DEF NotifyAccepted, NotAnnounced, NotifyEnd, Retry, Begin, Passing, HoldsRetry, RowsOK
  <2>3. (pc' \in Passing /\ ~HoldsRetry) =>
          note'.type = "accepted" \/ (note'.type = "ended" /\ rows[cur].status = "over")
    BY DEF NotifyAccepted, NotAnnounced, NotifyEnd, Retry, Begin, Of, Passing, HoldsRetry, RowsOK
  <2> QED BY <1>1, <2>1, <2>2, <2>3 DEF RowsOK, Running, HoldsRetry
<1>4. ChainOK'
  BY <1>1 DEF ChainOK, HoldsRetry, Queued, Known
<1>5. OneRetryWaits'
  BY DEF OneRetryWaits, Queued
<1> QED BY <1>2, <1>3, <1>4, <1>5

\* The worker claims a row: it holds the one running row.
LEMMA JobsClaim ==
  ASSUME JobsInv, NEW j \in 1 .. Len(rows), Claim(j)
  PROVE  JobsInv'
<1> USE DEF JobsInv
<1>1. rows[j] \in Row /\ rows[j].attempts \in Nat /\ rows[j].status = "queued"
  <2>1. rows[j] \in Row
    BY DEF TypeJobs
  <2> QED BY <2>1 DEF Row, Claim, Queued
<1>2. /\ rows' \in Seq(Row) /\ Len(rows') = Len(rows)
      /\ \A i \in 1 .. Len(rows) :
           /\ i # j => rows'[i] = rows[i]
           /\ rows'[i].kind = rows[i].kind /\ rows'[i].note = rows[i].note
           /\ rows'[i].from = rows[i].from
      /\ rows'[j].status = "running" /\ rows'[j].attempts = rows[j].attempts + 1
      /\ \A n, f : Known(n, f)' <=> Known(n, f)
  <2>1. rows[j].attempts + 1 \in Nat /\ "running" \in RowStatus
    BY <1>1 DEF RowStatus
  <2>2. rows' = [rows EXCEPT ![j].status = "running", ![j].attempts = rows[j].attempts + 1]
    BY <1>1 DEF Claim, TypeJobs
  <2> QED BY <2>1, <2>2, Updating
<1>3. cur' = j /\ pc' = "claimed" /\ pc = "idle" /\ cur = NoRow /\ Len(rows) \in Nat
  BY DEF Claim, RowsOK, TypeJobs
<1>4. TypeJobs'
  BY <1>2, <1>3 DEF TypeJobs, Pc, Claim
<1>5. Running' = {j} /\ Queued' = Queued \ {j}
  BY <1>1, <1>2, <1>3 DEF Running, Queued, RowsOK, NoRow
<1>6. RowsOK'
  BY <1>1, <1>2, <1>3, <1>5 DEF RowsOK, HoldsRetry, NoRow, Passing
<1>7. ChainOK'
  <2>1. \A i \in Queued \ {j} :
          rows[i].kind = "retry" /\ rows[j].kind = "retry" => rows[i].note # rows[j].note
    BY <1>1 DEF OneRetryWaits, Queued
  <2> QED BY <1>2, <1>3, <1>5, <2>1 DEF ChainOK, HoldsRetry, Queued
<1>8. OneRetryWaits'
  BY <1>2, <1>5 DEF OneRetryWaits, Queued
<1> QED BY <1>4, <1>6, <1>7, <1>8

\* The worker lets its row go: over, or, if it is work, queued again.
LEMMA JobsRelease ==
  ASSUME JobsInv, Fallback \/ End \/ RetryOver
  PROVE  JobsInv'
<1> USE DEF JobsInv
<1>1. /\ pc \notin {"idle", "down"} /\ cur \in 1 .. Len(rows) /\ Len(rows) \in Nat
      /\ rows[cur].attempts \in Nat \ {0}
  <2>1. pc \notin {"idle", "down"}
    BY DEF Fallback, End, RetryOver, RetryRolled
  <2>2. cur \in 1 .. Len(rows) /\ rows[cur] \in Row
    BY <2>1 DEF RowsOK, TypeJobs, NoRow
  <2> QED BY <2>1, <2>2 DEF RowsOK, Row, TypeJobs, NoRow
<1>2. PICK st \in {"queued", "over"}, a \in Nat :
        /\ \/ rows' = [rows EXCEPT ![cur].status = st, ![cur].attempts = a]
           \/ rows' = [rows EXCEPT ![cur].status = st] /\ a = rows[cur].attempts
        /\ st = "queued" => Fallback
  <2>1. CASE Fallback
    <3>1. rows' = [rows EXCEPT ![cur].status = "queued", ![cur].attempts = rows[cur].attempts - 1]
      BY <1>1, <2>1 DEF Fallback, TypeJobs
    <3>2. rows[cur].attempts - 1 \in Nat
      BY <1>1
    <3> QED BY <2>1, <3>1, <3>2
  <2>2. CASE End
    BY <1>1, <2>2 DEF End
  <2>3. CASE RetryOver
    BY <1>1, <2>3 DEF RetryOver
  <2> QED BY <2>1, <2>2, <2>3
<1>3. /\ rows' \in Seq(Row) /\ Len(rows') = Len(rows)
      /\ \A i \in 1 .. Len(rows) :
           /\ i # cur => rows'[i] = rows[i]
           /\ rows'[i].kind = rows[i].kind /\ rows'[i].note = rows[i].note
           /\ rows'[i].from = rows[i].from
      /\ rows'[cur].status = st /\ rows'[cur].attempts = a
      /\ \A n, f : Known(n, f)' <=> Known(n, f)
  <2>1. st \in RowStatus
    BY DEF RowStatus
  <2> HIDE DEF JobsInv
  <2>2. TypeJobs
    BY DEF JobsInv
  <2> QED BY <1>1, <1>2, <2>1, <2>2, Updating
<1>4. /\ \/ cur' = NoRow /\ pc' = "idle"
         \/ cur' = cur /\ pc' = "ended" /\ rows[cur].kind = "work" /\ st = "over" /\ a > 0
      /\ st = "queued" => rows[cur].kind = "work"
      /\ flipped' \subseteq 1 .. Len(rows)
  <2>1. CASE Fallback
    BY <1>1, <1>3, <2>1 DEF Fallback, TypeJobs, RowsOK
  <2>2. CASE End
    <3>1. rows[cur].kind = "work" /\ UNCHANGED flipped
      BY <2>2 DEF End, RowsOK
    <3>2. st = "over" /\ a = rows[cur].attempts
      <4>1. rows'[cur].status = "over" /\ rows'[cur].attempts = rows[cur].attempts
        <5>1. rows[cur] \in Row
          BY <1>1 DEF TypeJobs
        <5>2. rows' = [rows EXCEPT ![cur] = [rows[cur] EXCEPT !.status = "over"]]
          BY <1>1, <2>2 DEF End, TypeJobs
        <5> QED BY <1>1, <5>1, <5>2 DEF Row, TypeJobs
      <4> QED BY <1>3, <4>1
    <3> QED BY <1>1, <2>2, <3>1, <3>2 DEF End, TypeJobs
  <2>3. CASE RetryOver
    BY <1>2, <2>3 DEF RetryOver, Fallback, TypeJobs, RetryRolled
  <2> QED BY <2>1, <2>2, <2>3
<1>5. TypeJobs'
  BY <1>1, <1>3, <1>4 DEF TypeJobs, Pc, Awaiting, NoRow
<1>6. Running' = {}
  BY <1>1, <1>3 DEF Running, RowsOK
<1>7. Queued' = IF st = "queued" THEN Queued \union {cur} ELSE Queued \ {cur}
  BY <1>1, <1>3 DEF Queued
<1>8. RowsOK'
  BY <1>1, <1>3, <1>4, <1>6 DEF RowsOK, HoldsRetry, NoRow, Passing
<1>9. ChainOK'
  BY <1>1, <1>3, <1>4 DEF ChainOK, HoldsRetry
<1>10. OneRetryWaits'
  <2>1. \A i \in Queued' : rows'[i].kind = "retry" => i \in Queued /\ i \in 1 .. Len(rows)
    BY <1>1, <1>3, <1>4, <1>7 DEF Queued
  <2> QED BY <1>3, <2>1 DEF OneRetryWaits
<1> QED BY <1>5, <1>8, <1>9, <1>10

\* The table grows by one row that waits.  A retry job that is appended is the
\* first of its notification, or the successor of the one being run.
LEMMA JobsAppend ==
  ASSUME JobsInv, NEW r \in Row, rows' = Append(rows, r), r.status = "queued",
         UNCHANGED flipped,
         r.kind = "retry" => /\ r.note \in Note
                             /\ \A i \in Queued : rows[i].kind = "retry" => rows[i].note # r.note
                             /\ r.from = NoRow \/ Known(r.note, NoRow),
         \/ UNCHANGED <<pc, cur, note>> /\ r.kind = "work"
         \/ pc' = "settled" /\ pc \in Passing /\ HoldsRetry /\ UNCHANGED <<cur, note>>
         \/ pc' = "busy" /\ ~HoldsRetry /\ pc \notin {"idle", "down"} /\ UNCHANGED cur
         \/ pc' = "idle" /\ cur' = NoRow /\ Running = {}
  PROVE  JobsInv'
<1> USE DEF JobsInv
<1> DEFINE k == Len(rows) + 1
<1>1. /\ Len(rows) \in Nat /\ rows' \in Seq(Row) /\ Len(rows') = k
      /\ \A i \in 1 .. Len(rows) : rows'[i] = rows[i]
      /\ rows'[k] = r
  BY DEF TypeJobs
<1>2. 1 .. k = (1 .. Len(rows)) \union {k} /\ k \notin 1 .. Len(rows)
  BY <1>1
<1> HIDE DEF k
<1>3. Queued' = Queued \union {k} /\ Running' = Running
  BY <1>1, <1>2 DEF Queued, Running
<1>4. cur \in 0 .. Len(rows) /\ cur' \in 0 .. Len(rows)
  BY <1>1 DEF TypeJobs, NoRow
<1>5. pc' \in Pc
  BY DEF TypeJobs, Pc, Awaiting
<1>6. TypeJobs'
  BY <1>1, <1>4, <1>5 DEF TypeJobs, k
<1>7. cur' # NoRow => cur' = cur /\ rows'[cur] = rows[cur] /\ cur \in 1 .. Len(rows)
  BY <1>1, <1>4 DEF NoRow
<1>8. HoldsRetry' => HoldsRetry
  BY <1>7 DEF HoldsRetry
<1>9. RowsOK'
  <2>1. CASE UNCHANGED <<pc, cur, note>>
    <3>1. pc \notin {"idle", "down"} => cur # NoRow
      BY DEF RowsOK
    <3> QED BY <1>3, <1>7, <2>1, <3>1 DEF RowsOK, HoldsRetry, Passing
  <2>2. CASE pc' = "settled" /\ pc \in Passing /\ HoldsRetry /\ UNCHANGED <<cur, note>>
    <3>1. cur # NoRow
      BY <2>2 DEF HoldsRetry
    <3> QED BY <1>3, <1>7, <2>2, <3>1 DEF RowsOK, HoldsRetry, Passing
  <2>3. CASE pc' = "busy" /\ ~HoldsRetry /\ pc \notin {"idle", "down"} /\ UNCHANGED cur
    <3>1. cur # NoRow /\ rows[cur].kind = "work"
      <4>1. cur # NoRow
        BY <2>3 DEF RowsOK
      <4>2. rows[cur] \in Row
        BY <1>7, <2>3, <4>1 DEF TypeJobs
      <4> QED BY <2>3, <4>1, <4>2 DEF HoldsRetry, Row
    <3> QED BY <1>3, <1>7, <2>3, <3>1 DEF RowsOK, HoldsRetry, Passing
  <2>4. CASE pc' = "idle" /\ cur' = NoRow /\ Running = {}
    BY <1>3, <2>4 DEF RowsOK, HoldsRetry, Passing
  <2> QED BY <2>1, <2>2, <2>3, <2>4
<1>10. \A n, f : Known(n, f) => Known(n, f)'
  BY <1>1, <1>2 DEF Known
<1>11. ChainOK'
  <2>1. \A i \in 1 .. k : rows'[i].kind = "retry" => rows'[i].note \in Note
    BY <1>1, <1>2 DEF ChainOK
  <2>2. \A i \in 1 .. k : rows'[i].kind = "retry" => Known(rows[i].note, NoRow)'
    <3> SUFFICES ASSUME NEW i \in 1 .. k, rows'[i].kind = "retry"
                 PROVE  Known(rows[i].note, NoRow)'
      OBVIOUS
    <3>1. PICK n : n = rows'[i].note
      OBVIOUS
    <3>2. Known(n, NoRow)'
      <4>1. CASE i \in 1 .. Len(rows)
        BY <1>1, <1>10, <3>1, <4>1 DEF ChainOK
      <4>2. CASE i = k
        BY <1>1, <1>2, <1>10, <3>1, <4>2 DEF Known
      <4> QED BY <1>2, <4>1, <4>2
    <3> QED BY <3>1, <3>2 DEF Known
  <2>3. (HoldsRetry' /\ pc' # "settled") =>
          \A i \in Queued' : rows'[i].kind = "retry" => rows'[i].note # rows'[cur'].note
    <3>1. HoldsRetry' /\ pc' # "settled" => UNCHANGED <<pc, cur, note>> /\ r.kind = "work"
      BY <1>8 DEF HoldsRetry
    <3> QED BY <1>1, <1>3, <1>7, <1>8, <3>1 DEF ChainOK, HoldsRetry, Queued
  <2>4. DOMAIN rows' = 1 .. k
    BY <1>1
  <2>5. (\A i \in DOMAIN rows : rows[i].kind = "retry" =>
            rows[i].note \in Note /\ Known(rows[i].note, NoRow))'
    BY <2>1, <2>2, <2>4
  <2> QED BY <2>3, <2>5 DEF ChainOK
<1>12. OneRetryWaits'
  BY <1>1, <1>2, <1>3 DEF OneRetryWaits, Queued
<1> QED BY <1>6, <1>9, <1>11, <1>12

\* The first pass, announced or final, is over.
LEMMA JobsAfterPass ==
  ASSUME JobsInv, pc = "rolled" => note \in Note,
         AfterFirstPass \/ Reschedule \/ Arrive
  PROVE  JobsInv'
<1> USE DEF JobsInv
<1>1. rows \in Seq(Row) /\ Len(rows) \in Nat /\ cur \in 0 .. Len(rows)
  BY DEF TypeJobs
<1>2. CASE Arrive
  <2>1. Work \in Row /\ Work.kind = "work" /\ Work.status = "queued"
    BY DEF Work, Row, RowStatus, NoRow
  <2> HIDE DEF JobsInv
  <2> QED BY <1>2, <2>1, JobsAppend DEF Arrive
<1>3. CASE AfterFirstPass
  <2>1. cur # NoRow /\ ~HoldsRetry
    BY <1>3 DEF AfterFirstPass, HoldsRetry, RowsOK
  <2>2. note.type # "accepted" => Running = {}
    BY <1>3, <2>1 DEF AfterFirstPass, RowsOK, Passing, Running
  <2>3. CASE rows' = rows
    <3>1. CASE pc' = "busy" /\ UNCHANGED cur
      BY <1>3, <2>1, <2>3, <3>1
      DEF AfterFirstPass, TypeJobs, Pc, Awaiting, RowsOK, HoldsRetry, Passing, Running,
          ChainOK, Known, Queued, OneRetryWaits
    <3>2. CASE pc' = "idle" /\ cur' = NoRow /\ Running = {}
      BY <1>3, <2>1, <2>3, <3>2
      DEF AfterFirstPass, TypeJobs, Pc, Awaiting, RowsOK, HoldsRetry, Passing, Running,
          ChainOK, Known, Queued, OneRetryWaits, NoRow
    <3> QED BY <1>3, <2>2, <3>1, <3>2 DEF AfterFirstPass
  <2>4. CASE rows' = Append(rows, RetryOf(note, NoRow)) /\ ~Known(note, NoRow)
    <3> DEFINE r == RetryOf(note, NoRow)
    <3>1. r \in Row /\ r.kind = "retry" /\ r.note = note /\ r.from = NoRow /\ r.status = "queued"
      BY <1>3 DEF AfterFirstPass, RetryOf, Row, RowStatus, NoRow
    <3>2. \A i \in Queued : rows[i].kind = "retry" => rows[i].note # note
      BY <2>4 DEF ChainOK, Queued
    <3> note \in Note
      BY <1>3 DEF AfterFirstPass
    <3>3. pc \notin {"idle", "down"} /\ UNCHANGED flipped
      BY <1>3 DEF AfterFirstPass
    <3>4. \/ pc' = "busy" /\ UNCHANGED cur
          \/ pc' = "idle" /\ cur' = NoRow /\ Running = {}
      BY <1>3, <2>2 DEF AfterFirstPass
    <3> HIDE DEF r, JobsInv
    <3> QED BY <2>1, <2>4, <3>1, <3>2, <3>3, <3>4, JobsAppend DEF r
  <2> QED BY <1>3, <2>3, <2>4 DEF AfterFirstPass, Enqueued
<1>4. CASE Reschedule
  <2>1. HoldsRetry /\ cur # NoRow /\ pc = "rolled" /\ note = rows[cur].note /\ cur \in 1 .. Len(rows)
    BY <1>1, <1>4 DEF Reschedule, RetryRolled, HoldsRetry, RowsOK, Passing, NoRow
  <2>2. CASE rows' = rows
    BY <1>4, <2>1, <2>2
    DEF Reschedule, TypeJobs, Pc, Awaiting, RowsOK, HoldsRetry, Passing, Running,
        ChainOK, Known, Queued, OneRetryWaits
  <2>3. CASE rows' = Append(rows, RetryOf(note, cur))
    <3> DEFINE r == RetryOf(note, cur)
    <3>1. r \in Row /\ r.kind = "retry" /\ r.note = note /\ r.status = "queued"
      BY <1>1, <2>1 DEF RetryOf, Row, RowStatus
    <3>2. \A i \in Queued : rows[i].kind = "retry" => rows[i].note # note
      BY <2>1 DEF ChainOK
    <3>3. Known(note, NoRow)
      BY <1>1, <2>1 DEF ChainOK, HoldsRetry
    <3>4. pc \in Passing /\ pc' = "settled" /\ UNCHANGED <<cur, note, flipped>>
      BY <1>4, <2>1 DEF Reschedule, Passing
    <3> HIDE DEF r, JobsInv
    <3> QED BY <2>1, <2>3, <3>1, <3>2, <3>3, <3>4, JobsAppend DEF r
  <2> QED BY <1>4, <2>2, <2>3 DEF Reschedule, Enqueued
<1> QED BY <1>2, <1>3, <1>4

\* Recovery leaves no row running, and its note is queued at most once.
LEMMA JobsRecover ==
  ASSUME JobsInv, Recover
  PROVE  JobsInv'
<1> USE DEF JobsInv
<1>1. /\ rows \in Seq(Row) /\ Len(rows) \in Nat
      /\ pc' = "idle" /\ cur = NoRow /\ cur' = NoRow /\ UNCHANGED <<note, flipped>>
  BY DEF TypeJobs, Recover, RowsOK
<1>2. CASE Running = {} /\ rows' = rows
  BY <1>1, <1>2 DEF TypeJobs, Pc, Awaiting, RowsOK, HoldsRetry, Passing, Running,
                    ChainOK, Known, Queued, OneRetryWaits
<1>3. ASSUME NEW j \in Running, Interrupt(j) PROVE JobsInv'
  <2> DEFINE n == Of(j, IF Again(j) THEN "restarted" ELSE "interrupted")
             st == IF Again(j) THEN "queued" ELSE "interrupted"
             t == [rows EXCEPT ![j].status = st]
             k == Len(rows) + 1
  <2>1. j \in 1 .. Len(rows) /\ rows[j] \in Row
    BY <1>1 DEF Running
  <2>2. n \in Note /\ st \in RowStatus \ {"running"} /\ (st = "queued" => rows[j].kind = "work")
    BY <2>1 DEF Note, Of, NoteTypes, RowStatus, Again
  <2>3. rows' = Enqueued(t, n, NoRow)
    BY <1>3 DEF Interrupt
  <2> HIDE DEF n, st
  <2>4. /\ t \in Seq(Row) /\ Len(t) = Len(rows)
        /\ \A i \in 1 .. Len(rows) : i # j => t[i] = rows[i]
        /\ t[j].status = st /\ t[j].kind = rows[j].kind /\ t[j].note = rows[j].note
        /\ t[j].from = rows[j].from
    <3> DEFINE r == [rows[j] EXCEPT !.status = st]
    <3>1. r \in Row /\ r.status = st /\ r.kind = rows[j].kind /\ r.note = rows[j].note
          /\ r.from = rows[j].from
      BY <2>1, <2>2 DEF Row
    <3>2. t = [rows EXCEPT ![j] = r]
      BY <1>1, <2>1
    <3> QED BY <1>1, <2>1, <3>1, <3>2
  <2> HIDE DEF t, JobsInv
  <2>5. /\ rows' \in Seq(Row)
        /\ Len(rows') = IF Known(n, NoRow) THEN Len(rows) ELSE k
        /\ \A i \in 1 .. Len(rows) : rows'[i] = t[i]
        /\ ~Known(n, NoRow) => rows'[k] = RetryOf(n, NoRow)
    BY <2>2, <2>3, <2>4, Enqueuing DEF NoRow
  <2> USE DEF JobsInv
  <2>6. 1 .. k = (1 .. Len(rows)) \union {k} /\ k \notin 1 .. Len(rows)
    BY <1>1
  <2> HIDE DEF k
  <2>7. \A i \in 1 .. Len(rows') :
          \/ i \in 1 .. Len(rows) /\ rows'[i].kind = rows[i].kind /\ rows'[i].note = rows[i].note
          \/ /\ i = k /\ ~Known(n, NoRow) /\ rows'[i].kind = "retry"
             /\ rows'[i].note = n /\ rows'[i].from = NoRow
    BY <2>1, <2>4, <2>5, <2>6 DEF RetryOf
  <2>8. Running' = {}
    <3>1. \A i \in 1 .. Len(rows) : rows'[i].status # "running"
      BY <1>3, <2>1, <2>2, <2>4, <2>5 DEF RowsOK, Running
    <3>2. ~Known(n, NoRow) => rows'[k].status # "running"
      BY <2>5 DEF RetryOf
    <3> QED BY <2>5, <2>6, <3>1, <3>2 DEF Running
  <2>9. TypeJobs'
    BY <1>1, <2>5, <2>6 DEF TypeJobs, Pc, Awaiting, NoRow, k
  <2>10. RowsOK'
    BY <1>1, <2>8 DEF RowsOK, HoldsRetry, Passing
  <2>11. \A m, f : Known(m, f) => Known(m, f)'
    <3>1. 1 .. Len(rows) \subseteq 1 .. Len(rows')
      BY <2>5, <2>6
    <3>2. \A i \in 1 .. Len(rows) : rows'[i].kind = rows[i].kind /\ rows'[i].note = rows[i].note
                                   /\ rows'[i].from = rows[i].from
      BY <2>1, <2>4, <2>5
    <3> QED BY <3>1, <3>2 DEF Known
  <2>12. (\A i \in DOMAIN rows : rows[i].kind = "retry" =>
             rows[i].note \in Note /\ Known(rows[i].note, NoRow))'
    <3> SUFFICES ASSUME NEW i \in 1 .. Len(rows'), rows'[i].kind = "retry"
                 PROVE  rows'[i].note \in Note /\ Known(rows[i].note, NoRow)'
      BY <2>5
    <3>1. PICK m : m = rows'[i].note
      OBVIOUS
    <3>2. m \in Note /\ Known(m, NoRow)'
      <4>1. CASE i \in 1 .. Len(rows) /\ rows[i].kind = "retry" /\ m = rows[i].note
        BY <1>1, <2>11, <4>1 DEF ChainOK
      <4>2. CASE i = k /\ m = n /\ rows'[i].from = NoRow
        BY <2>2, <3>1, <4>2 DEF Known
      <4> QED BY <2>7, <3>1, <4>1, <4>2
    <3> QED BY <3>1, <3>2 DEF Known
  <2>13. ChainOK'
    BY <1>1, <2>12 DEF ChainOK, HoldsRetry
  <2>14. \A i \in Queued' : rows'[i].kind = "retry" =>
           \/ i \in Queued /\ rows[i].kind = "retry" /\ rows'[i].note = rows[i].note
           \/ i = k /\ ~Known(n, NoRow) /\ rows'[i].note = n
    BY <2>1, <2>2, <2>4, <2>5, <2>7 DEF Queued
  <2>15. ~Known(n, NoRow) => \A i \in Queued : rows[i].kind = "retry" => rows[i].note # n
    BY <1>1 DEF ChainOK, Queued
  <2>16. OneRetryWaits'
    BY <2>14, <2>15 DEF OneRetryWaits
  <2> QED BY <2>9, <2>10, <2>13, <2>16
<1> QED BY <1>2, <1>3 DEF Recover

-----------------------------------------------------------------------------
(* The invariant *)

IInv == LedgerInv /\ JobsInv

\* Nothing is recorded and nothing is queued.
LEMMA InitOK == Init => IInv
<1> SUFFICES ASSUME Init PROVE IInv
  OBVIOUS
<1> USE OutboundAssumption DEF Init
<1>1. Created = {} /\ rows \in Seq(Row) /\ Len(rows) = 0
  BY DEF Created
<1>2. LedgerInv
  BY <1>1 DEF LedgerInv, TypeLedger, PassOK, TruthOK, CountOK, Created, Passing, OnTheWire, NoNote
<1>3. JobsInv
  BY <1>1 DEF JobsInv, TypeJobs, RowsOK, ChainOK, OneRetryWaits, HoldsRetry, Pc, Awaiting,
              NoRow, Running, Queued, Passing
<1> QED BY <1>2, <1>3 DEF IInv

\* Steps of the jobs.
LEMMA JobStepOK ==
  ASSUME IInv, JobStep \/ Arrive \/ AfterFirstPass \/ Reschedule \/ RetryOver
  PROVE  IInv'
<1> USE DEF IInv
<1>1. pc \notin {"idle", "down"} => cur \in 1 .. Len(rows)
  BY DEF JobsInv, RowsOK, TypeJobs, NoRow
<1>2. pc = "rolled" => note \in Note
  BY DEF LedgerInv, PassOK, Passing, TypeLedger
<1>3. ASSUME NEW j \in 1 .. Len(rows), Claim(j) PROVE IInv'
  BY <1>3, JobsClaim, Quiet DEF Claim, OnTheWire, Passing
<1>4. CASE NotAnnounced
  BY <1>4, JobsStill, Quiet DEF NotAnnounced, OnTheWire, Passing
<1>5. CASE Fallback \/ End \/ RetryOver
  BY <1>5, JobsRelease, Quiet DEF Fallback, End, RetryOver, RetryRolled, OnTheWire, Passing
<1>6. CASE Arrive
  <2>1. JobsInv'
    BY <1>2, <1>6, JobsAfterPass
  <2> QED BY <1>6, <2>1, Quiet DEF Arrive
<1>7. CASE AfterFirstPass \/ Reschedule
  <2>1. JobsInv'
    BY <1>2, <1>7, JobsAfterPass
  <2> QED BY <1>7, <2>1, Quiet DEF AfterFirstPass, Reschedule, RetryRolled, OnTheWire, Passing
<1>8. ASSUME NEW n \in Note, Begin(n), UNCHANGED <<rows, cur, flipped, crashes>>,
             NotifyAccepted \/ NotifyEnd \/ Retry
      PROVE  IInv'
  <2>1. JobsInv'
    BY <1>8, JobsStill
  <2>2. pc \notin {"pass"} \union OnTheWire
    BY <1>8 DEF NotifyAccepted, NotifyEnd, Retry, OnTheWire
  <2>3. LedgerInv'
    BY <1>8, <2>2, Creating DEF Begin
  <2> QED BY <2>1, <2>3
<1>9. CASE NotifyAccepted
  <2>1. Of(cur, "accepted") \in Note
    BY <1>1, <1>9 DEF NotifyAccepted, Of, Note, NoteTypes
  <2> QED BY <1>8, <1>9, <2>1 DEF NotifyAccepted
<1>10. CASE NotifyEnd
  <2>1. Of(cur, "ended") \in Note
    BY <1>1, <1>10 DEF NotifyEnd, Of, Note, NoteTypes
  <2> QED BY <1>8, <1>10, <2>1 DEF NotifyEnd
<1>11. CASE Retry
  <2>1. rows[cur].note \in Note
    BY <1>1, <1>11 DEF Retry, JobsInv, TypeJobs, ChainOK
  <2> QED BY <1>8, <1>11, <2>1 DEF Retry
<1> QED BY <1>3, <1>4, <1>5, <1>6, <1>7, <1>9, <1>10, <1>11 DEF JobStep

\* Steps of a pass, and of Telegram.
LEMMA PassStepOK ==
  ASSUME IInv, NEW c \in todo,
         GiveUp(c) \/ Ask(c) \/ Take(c) \/ Answered(c) \/ AnswerLost(c) \/ Refused(c)
  PROVE  IInv'
<1> USE DEF IInv
<1>1. JobsInv'
  BY JobsStill DEF GiveUp, Ask, Take, Answered, AnswerLost, Refused, Passing
<1>2. LedgerInv'
  <2>1. CASE Ask(c)
    BY <2>1, LedgerAsk
  <2>2. CASE Take(c)
    BY <2>2, LedgerTake
  <2>3. CASE GiveUp(c)
    BY <2>3, Marking DEF GiveUp
  <2>4. CASE Answered(c)
    BY <2>4, Marking DEF Answered, OnTheWire
  <2>5. CASE AnswerLost(c)
    BY <2>5, Marking DEF AnswerLost, OnTheWire
  <2>6. CASE Refused(c)
    BY <2>6, Marking DEF Refused, OnTheWire
  <2> QED BY <2>1, <2>2, <2>3, <2>4, <2>5, <2>6
<1> QED BY <1>1, <1>2

\* No step breaks the invariant.
LEMMA StepOK == IInv /\ [Next]_vars => IInv'
<1> SUFFICES ASSUME IInv, [Next]_vars PROVE IInv'
  OBVIOUS
<1>1. CASE JobStep \/ Arrive \/ AfterFirstPass \/ Reschedule \/ RetryOver
  BY <1>1, JobStepOK
<1>2. CASE Telegram \/ \E c \in todo : GiveUp(c) \/ Ask(c)
  BY <1>2, PassStepOK DEF Telegram
<1>3. CASE RollUpParent
  BY <1>3, LedgerRollUp, JobsStill DEF IInv, RollUpParent, Passing
<1>4. CASE Terminalize
  BY <1>4, LedgerTerminalize, JobsStill DEF IInv, Terminalize, RetryRolled, Passing
<1>5. CASE Crash
  <2>1. JobsInv'
    BY <1>5 DEF IInv, Crash, JobsInv, TypeJobs, Pc, RowsOK, ChainOK, OneRetryWaits, HoldsRetry,
                NoRow, Running, Queued, Passing, Known
  <2> QED BY <1>5, <2>1, LedgerCrash DEF IInv
<1>6. CASE Recover
  <2>1. JobsInv'
    BY <1>6, JobsRecover DEF IInv
  <2>2. pc' = "idle" /\ pc = "down" /\ UNCHANGED <<note, todo, crashes>>
    BY <1>6 DEF Recover
  <2>3. CASE UNCHANGED <<rows, ledger, got>>
    BY <2>1, <2>2, <2>3, Quiet DEF IInv, OnTheWire, Passing
  <2>4. ASSUME NEW j \in Running, Interrupt(j) PROVE LedgerInv'
    <3>0. j \in Nat \ {0}
      BY DEF Running, IInv, JobsInv, TypeJobs
    <3>1. PICK n \in Note : Create({n})
      BY <2>4, <3>0 DEF Interrupt, Of, Note, NoteTypes
    <3> QED BY <2>2, <3>1, Creating DEF IInv, OnTheWire, Passing
  <2> QED BY <1>6, <2>1, <2>3, <2>4 DEF Recover, IInv
<1>7. CASE Sleep \/ UNCHANGED vars
  <2>1. UNCHANGED vars
    BY <1>7 DEF Sleep
  <2> QED BY <2>1 DEF vars, ledger, IInv, LedgerInv, JobsInv, TypeLedger, TypeJobs, PassOK, TruthOK,
             CountOK, RowsOK, ChainOK, OneRetryWaits, HoldsRetry, Running, Queued, Known,
             Created, First, Unsent, Spent, Charged, InFlight
<1> QED BY <1>1, <1>2, <1>3, <1>4, <1>5, <1>6, <1>7 DEF Next, PassStep

\* The invariant holds in every reachable state.
THEOREM Invariance == Spec => []IInv
<1> QED BY InitOK, StepOK, PTL DEF Spec

\* Every reachable state is well typed.
THEOREM TypeCorrect == Spec => []TypeOK
<1>1. IInv => TypeOK
  BY DEF IInv, LedgerInv, JobsInv, TypeOK
<1> QED BY <1>1, Invariance, PTL

\* A notification recorded as sent has reached the user in full.
THEOREM SentTruth == Spec => []SentIsTrue
<1>1. IInv => SentIsTrue
  BY DEF IInv, LedgerInv, TruthOK, SentIsTrue
<1> QED BY <1>1, Invariance, PTL

\* Two retry jobs of one notification never wait together.
THEOREM OneRetry == Spec => []OneRetryWaits
<1>1. IInv => OneRetryWaits
  BY DEF IInv, JobsInv
<1> QED BY <1>1, Invariance, PTL

\* The user gets a message no oftener than attempts and crashes allow.
THEOREM Duplicates == Spec => []DuplicatesBounded
<1>1. IInv => DuplicatesBounded
  <2> SUFFICES ASSUME IInv, NEW n \in Created, NEW c \in 1 .. Size(n)
               PROVE  got[n][c] <= MaxAttempts + crashes
    BY DEF DuplicatesBounded
  <2>1. /\ got[n][c] \in Nat /\ crashes \in Nat /\ chunk[n][c].attempts \in Nat
        /\ got[n][c] <= Charged(n, c) + crashes + InFlight(n, c)
    BY ChunkType DEF IInv, LedgerInv, CountOK, TypeLedger
  <2>2. InFlight(n, c) = 0 \/ (InFlight(n, c) = 1 /\ chunk[n][c].attempts < MaxAttempts)
    BY <2>1, OutboundAssumption DEF InFlight, IInv, LedgerInv, PassOK, OnTheWire, Spent
  <2> QED BY <2>1, <2>2, OutboundAssumption DEF Charged
<1> QED BY <1>1, Invariance, PTL

\* What the rows say and bound is what the user sees: "sent" is the truth, and
\* no message comes oftener than attempts and crashes allow.
THEOREM Delivery == Spec => []DeliveryIsRecorded
<1>1. SentIsTrue /\ DuplicatesBounded => DeliveryIsRecorded
  BY DEF DeliveryIsRecorded
<1> QED BY <1>1, SentTruth, Duplicates, PTL

\* What a step may do to what is recorded as sent: nothing.
LEMMA SentStays ==
  ASSUME IInv, [Next]_vars
  PROVE  \A n \in Created :
           /\ parent[n] = "sent" => parent'[n] = "sent"
           /\ \A c \in 1 .. Size(n) : chunk[n][c].status = "sent" => got'[n][c] = got[n][c]
<1> DEFINE Goal == \A n \in Created :
             /\ parent[n] = "sent" => parent'[n] = "sent"
             /\ \A c \in 1 .. Size(n) : chunk[n][c].status = "sent" => got'[n][c] = got[n][c]
<1> SUFFICES Goal
  OBVIOUS
<1>1. ASSUME NEW new \in SUBSET Note, Create(new) PROVE Goal
  <2>1. \A n \in Created : parent'[n] = parent[n] /\ got'[n] = got[n]
    BY <1>1, CreateEffect DEF IInv, LedgerInv
  <2> QED BY <2>1
<1>2. ASSUME NEW c \in todo, First(c), Took(c), pc = "asked", UNCHANGED parent PROVE Goal
  <2>1. \A n \in Created : \A d \in 1 .. Size(n) :
          got'[n][d] = IF n = note /\ d = c THEN got[n][d] + 1 ELSE got[n][d]
    BY <1>2, Taking DEF IInv
  <2>2. chunk[note][c].status # "sent"
    BY DEF IInv, LedgerInv, PassOK, Unsent
  <2> QED BY <1>2, <2>1, <2>2
<1>3. UNCHANGED <<parent, got>> => Goal
  OBVIOUS
<1>4. CASE RollUpParent
  <2>1. parent[note] = "sent" => RollUp(note) = "sent"
    BY <1>4, LedgerRollUp DEF IInv
  <2> QED BY <1>4, <2>1 DEF RollUpParent, IInv, LedgerInv, TypeLedger, Created
<1> HIDE DEF Goal
<1>5. CASE NotifyAccepted \/ NotifyEnd \/ Retry \/ \E j \in Running : Interrupt(j)
  <2>1. PICK n : Create({n}) /\ n \in Note
    <3>1. pc \notin {"idle", "down"} => cur \in Nat \ {0}
      BY DEF IInv, JobsInv, RowsOK, TypeJobs, NoRow
    <3>2. Running \subseteq Nat \ {0}
      BY DEF Running, IInv, JobsInv, TypeJobs
    <3>3. CASE NotifyAccepted \/ NotifyEnd
      <4>1. PICK c : c = cur
        OBVIOUS
      <4>2. c \in Nat \ {0} /\ (Create({Of(c, "accepted")}) \/ Create({Of(c, "ended")}))
        BY <3>1, <3>3, <4>1 DEF NotifyAccepted, NotifyEnd, Begin, Create
      <4>3. Of(c, "accepted") \in Note /\ Of(c, "ended") \in Note
        BY <4>2 DEF Of, Note, NoteTypes
      <4> QED BY <4>2, <4>3
    <3>4. CASE Retry
      <4>1. rows[cur].note \in Note
        BY <3>1, <3>4 DEF Retry, IInv, JobsInv, RowsOK, TypeJobs, ChainOK, NoRow
      <4>2. PICK m : m = rows[cur].note
        OBVIOUS
      <4>3. Create({m})
        BY <3>4, <4>2 DEF Retry, Begin, Create
      <4> QED BY <4>1, <4>2, <4>3
    <3>5. ASSUME NEW j \in Running, Interrupt(j) PROVE \E n : Create({n}) /\ n \in Note
      BY <3>2, <3>5 DEF Interrupt, Of, Note, NoteTypes
    <3> QED BY <1>5, <3>3, <3>4, <3>5
  <2> QED BY <1>1, <2>1
<1>6. CASE Crash \/ \E c \in todo : Take(c)
  BY <1>2, <1>3, <1>6 DEF Crash, Take, ledger
<1>7. CASE \E c \in todo : GiveUp(c) \/ Ask(c) \/ Answered(c) \/ AnswerLost(c) \/ Refused(c)
  BY <1>3, <1>7 DEF GiveUp, Ask, Answered, AnswerLost, Refused, ledger
<1>8. CASE Arrive \/ Sleep \/ (\E j \in 1 .. Len(rows) : Claim(j)) \/ NotAnnounced \/ Fallback
           \/ End \/ AfterFirstPass \/ Reschedule \/ Terminalize \/ RetryOver \/ UNCHANGED vars
  BY <1>3, <1>8 DEF Arrive, Sleep, Claim, NotAnnounced, Fallback, End, AfterFirstPass, Reschedule,
                    Terminalize, RetryOver, vars, ledger
<1>9. CASE Recover
  BY <1>3, <1>5, <1>9 DEF Recover, ledger
<1> QED BY <1>4, <1>5, <1>6, <1>7, <1>8, <1>9 DEF Next, JobStep, PassStep, Telegram

\* What is recorded as sent is not sent again.
THEOREM NotResent == Spec => NeverResent
<1>1. IInv /\ [Next]_vars =>
        [\A n \in Created : \A c \in 1 .. Size(n) :
           chunk[n][c].status = "sent" => got'[n][c] = got[n][c]]_vars
  BY SentStays
<1> QED BY <1>1, Invariance, PTL DEF NeverResent, Spec

\* A notification recorded as sent stays sent.
THEOREM SentForGood == Spec => SentIsFinal
<1>1. IInv /\ [Next]_vars =>
        [\A n \in Created : parent[n] = "sent" => parent'[n] = "sent"]_vars
  BY SentStays
<1> QED BY <1>1, Invariance, PTL DEF SentIsFinal, Spec

-----------------------------------------------------------------------------
(* A notification is dropped only by a crash.  The worker takes the oldest   *)
(* row, so that the retry jobs of a job's notifications wait until that job  *)
(* is over, and a notification its passes leave always finds one waiting.    *)

Retries == {i \in DOMAIN rows : rows[i].kind = "retry"}

\* No row is taken up before an older one.
TakenInOrder ==
  \A i, j \in DOMAIN rows :
    i < j /\ rows[i].status \in {"queued", "running"} => rows[j].status = "queued"

\* A retry job is younger than the job of its notification, and a retry job
\* that has not settled has no successor.
RetriesOK ==
  \A i \in Retries :
    /\ rows[i].note \in Created
    /\ rows[i].note.row < i
    /\ rows[i].from # NoRow =>
         /\ rows[i].from \in Retries /\ rows[rows[i].from].status # "queued"
         /\ rows[i].from = cur => pc = "settled"

\* A job is told of its end once; while it is announced it is running.
ToldOnce ==
  /\ \A n \in Created :
       /\ n.row \in DOMAIN rows
       /\ n.type = "ended" => rows[n.row].status = "over" /\ ~(pc = "ended" /\ n.row = cur)
       /\ n.type = "interrupted" => rows[n.row].status = "interrupted"
  /\ pc \in {"claimed", "busy"} => rows[cur].status = "running"
  /\ (pc \in Passing /\ ~HoldsRetry) =>
       /\ note.row = cur
       /\ note.type = "accepted" => rows[cur].status = "running"
       /\ note.type = "ended" => ~Known(note, NoRow)

QueueInv == TakenInOrder /\ RetriesOK /\ ToldOnce

-----------------------------------------------------------------------------
(* What the steps do to the table *)

\* Row j (if there is one) gets the status st; nothing else of the rows changes.
Moved(j, st) ==
  \A i \in 1 .. Len(rows) :
    /\ rows'[i].kind = rows[i].kind /\ rows'[i].note = rows[i].note
    /\ rows'[i].from = rows[i].from
    /\ rows'[i].status = IF i = j THEN st ELSE rows[i].status

\* A retry job of n left by f is known, or a new last row waits.
Grown(n, f) ==
  \/ Known(n, f) /\ Len(rows') = Len(rows)
  \/ /\ ~Known(n, f) /\ Len(rows') = Len(rows) + 1
     /\ rows'[Len(rows) + 1] = RetryOf(n, f)

LEMMA ClaimMoves ==
  ASSUME IInv, NEW j \in 1 .. Len(rows), Claim(j)
  PROVE  /\ Moved(j, "running") /\ Len(rows') = Len(rows)
         /\ rows[j].status = "queued" /\ \A i \in Queued : j <= i
         /\ Running = {}
<1>1. rows[j] \in Row /\ rows[j].status = "queued" /\ TypeJobs
  BY DEF IInv, JobsInv, TypeJobs, Claim, Queued
<1>2. rows[j].attempts + 1 \in Nat /\ "running" \in RowStatus
  BY <1>1 DEF Row, RowStatus
<1>3. rows' = [rows EXCEPT ![j].status = "running", ![j].attempts = rows[j].attempts + 1]
  BY <1>1 DEF Claim, TypeJobs
<1>4. Moved(j, "running") /\ Len(rows') = Len(rows)
  BY <1>1, <1>2, <1>3, Updating DEF Moved
<1>5. Running = {}
  BY DEF Claim, IInv, JobsInv, RowsOK, Running, NoRow
<1> QED BY <1>1, <1>4, <1>5 DEF Claim

LEMMA ReleaseMoves ==
  ASSUME IInv, QueueInv, Fallback \/ End \/ RetryOver
  PROVE  \E st \in {"queued", "over"} :
           /\ Moved(cur, st) /\ Len(rows') = Len(rows)
           /\ cur \in 1 .. Len(rows) /\ rows[cur].status = "running"
           /\ st = "queued" => rows[cur].kind = "work"
<1>1. TypeJobs /\ RowsOK /\ rows \in Seq(Row)
  BY DEF IInv, JobsInv, TypeJobs
<1>2. pc \notin {"idle", "down"}
  BY DEF Fallback, End, RetryOver, RetryRolled
<1>3. cur \in 1 .. Len(rows)
  BY <1>1, <1>2 DEF RowsOK, TypeJobs, NoRow
<1>4. rows[cur] \in Row /\ rows[cur].attempts \in Nat \ {0}
  <2>1. rows[cur] \in Row
    BY <1>1, <1>3
  <2>2. rows[cur].attempts > 0
    BY <1>1, <1>3 DEF RowsOK, NoRow
  <2> QED BY <2>1, <2>2 DEF Row
<1>5. CASE Fallback
  <2>1. rows' = [rows EXCEPT ![cur].status = "queued", ![cur].attempts = rows[cur].attempts - 1]
    BY <1>3, <1>5 DEF Fallback
  <2>2. rows[cur].attempts - 1 \in Nat /\ "queued" \in RowStatus
    BY <1>4 DEF RowStatus
  <2>3. rows[cur].status = "running" /\ rows[cur].kind = "work"
    BY <1>1, <1>5 DEF Fallback, QueueInv, ToldOnce, RowsOK
  <2> QED BY <1>1, <1>3, <2>1, <2>2, <2>3, Updating DEF Moved
<1>6. CASE End \/ RetryOver
  <2>1. rows' = [rows EXCEPT ![cur].status = "over"]
    BY <1>6 DEF End, RetryOver
  <2>2. rows[cur].status = "running"
    BY <1>1, <1>3, <1>6 DEF End, RetryOver, RetryRolled, QueueInv, ToldOnce, RowsOK, HoldsRetry, NoRow
  <2>3. "over" \in RowStatus /\ rows[cur].attempts \in Nat
    BY <1>4 DEF RowStatus
  <2>4. Moved(cur, "over") /\ Len(rows') = Len(rows)
    BY <1>1, <1>3, <2>1, <2>3, Updating DEF Moved
  <2> QED BY <1>3, <2>2, <2>4
<1> QED BY <1>5, <1>6

LEMMA EnqueueGrows ==
  ASSUME IInv, NEW t \in Seq(Row), Len(t) = Len(rows), NEW n \in Note, NEW f \in Nat,
         rows' = Enqueued(t, n, f)
  PROVE  Grown(n, f) /\ \A i \in 1 .. Len(rows) : rows'[i] = t[i]
<1>1. Len(rows) \in Nat
  BY DEF IInv, JobsInv, TypeJobs
<1> QED BY <1>1, Enqueuing DEF Grown

LEMMA InterruptMoves ==
  ASSUME IInv, NEW j \in Running, Interrupt(j)
  PROVE  \E st \in {"queued", "interrupted"}, n \in Note :
           /\ Moved(j, st) /\ Grown(n, NoRow) /\ Create({n})
           /\ j \in 1 .. Len(rows) /\ n.row = j
           /\ st = "queued" => rows[j].kind = "work" /\ n.type = "restarted"
           /\ st = "interrupted" => n.type = "interrupted"
<1> DEFINE n == Of(j, IF Again(j) THEN "restarted" ELSE "interrupted")
           st == IF Again(j) THEN "queued" ELSE "interrupted"
           t == [rows EXCEPT ![j].status = st]
           r == [rows[j] EXCEPT !.status = st]
<1>1. j \in 1 .. Len(rows) /\ rows \in Seq(Row) /\ rows[j] \in Row
  BY DEF Running, IInv, JobsInv, TypeJobs
<1>2. n \in Note /\ n.row = j /\ st \in {"queued", "interrupted"}
  BY <1>1 DEF Note, Of, NoteTypes
<1>3. /\ st = "queued" => rows[j].kind = "work" /\ n.type = "restarted"
      /\ st = "interrupted" => n.type = "interrupted"
  BY DEF Again, Of
<1>4. Create({n}) /\ rows' = Enqueued(t, n, NoRow)
  BY DEF Interrupt
<1> HIDE DEF n, st
<1>5. r \in Row /\ r.status = st /\ r.kind = rows[j].kind /\ r.note = rows[j].note
      /\ r.from = rows[j].from
  BY <1>1, <1>2 DEF Row, RowStatus
<1>6. t = [rows EXCEPT ![j] = r]
  BY <1>1
<1> HIDE DEF r
<1>7. t \in Seq(Row) /\ Len(t) = Len(rows) /\ \A i \in 1 .. Len(rows) : t[i] = IF i = j THEN r ELSE rows[i]
  BY <1>1, <1>5, <1>6
<1> HIDE DEF t
<1>8. Grown(n, NoRow) /\ \A i \in 1 .. Len(rows) : rows'[i] = t[i]
  BY <1>2, <1>4, <1>7, EnqueueGrows DEF NoRow
<1>9. Moved(j, st)
  BY <1>5, <1>7, <1>8 DEF Moved
<1> QED BY <1>1, <1>2, <1>3, <1>4, <1>8, <1>9

\* The first pass over a notification, or its retry job, leaves what remains.
LEMMA LeaveMoves ==
  ASSUME IInv, (AfterFirstPass /\ parent[note] # "sent") \/ Reschedule
  PROVE  /\ Moved(NoRow, "queued") /\ note \in Note /\ note \in Created
         /\ Grown(note, IF Reschedule THEN cur ELSE NoRow)
         /\ cur \in 1 .. Len(rows) /\ pc = "rolled"
         /\ Reschedule => HoldsRetry
         /\ ~Reschedule => ~HoldsRetry
<1>1. rows \in Seq(Row) /\ cur \in 1 .. Len(rows) /\ pc = "rolled"
  BY DEF AfterFirstPass, Reschedule, RetryRolled, IInv, JobsInv, TypeJobs, RowsOK, NoRow
<1>2. note \in Note /\ note \in Created
  BY <1>1 DEF IInv, LedgerInv, PassOK, Passing, TypeLedger
<1>3. Reschedule <=> HoldsRetry
  BY <1>1 DEF AfterFirstPass, Reschedule, RetryRolled, HoldsRetry, NoRow
<1> DEFINE f == IF Reschedule THEN cur ELSE NoRow
<1>4. rows' = Enqueued(rows, note, f)
  BY <1>3 DEF AfterFirstPass, Reschedule, RetryRolled, HoldsRetry
<1>5. f \in Nat
  BY <1>1 DEF NoRow
<1> HIDE DEF f
<1>6. Grown(note, f) /\ \A i \in 1 .. Len(rows) : rows'[i] = rows[i]
  BY <1>1, <1>2, <1>4, <1>5, EnqueueGrows
<1>7. Moved(NoRow, "queued")
  BY <1>6 DEF Moved, NoRow
<1> QED BY <1>1, <1>2, <1>3, <1>6, <1>7 DEF f

LEMMA ArriveMoves ==
  ASSUME IInv, Arrive
  PROVE  /\ Moved(NoRow, "queued") /\ Len(rows') = Len(rows) + 1
         /\ rows'[Len(rows) + 1] = Work
<1>1. rows \in Seq(Row) /\ rows' = Append(rows, Work)
  BY DEF IInv, JobsInv, TypeJobs, Arrive
<1> QED BY <1>1 DEF Moved, NoRow

-----------------------------------------------------------------------------
(* QueueInv is preserved *)

\* A row is moved only when it is the oldest that waits and none runs, or when it runs.
LEMMA OrderKept ==
  ASSUME TakenInOrder, NEW j \in 0 .. Len(rows), NEW st, Moved(j, st), Len(rows) \in Nat,
         Len(rows') \in {Len(rows), Len(rows) + 1},
         Len(rows') = Len(rows) + 1 => rows'[Len(rows) + 1].status = "queued",
         j # NoRow =>
           \/ rows[j].status = "running"
           \/ rows[j].status = "queued" /\ (\A i \in Queued : j <= i) /\ Running = {}
  PROVE  TakenInOrder'
<1> SUFFICES ASSUME NEW a \in DOMAIN rows', NEW b \in DOMAIN rows', a < b,
                    rows'[a].status \in {"queued", "running"}
             PROVE  rows'[b].status = "queued"
  BY DEF TakenInOrder
<1>1. CASE b \notin 1 .. Len(rows)
  BY <1>1
<1>2. CASE b \in 1 .. Len(rows)
  <2>1. a \in 1 .. Len(rows)
    BY <1>2
  <2>2. CASE j = a
    BY <1>2, <2>1, <2>2 DEF Moved, TakenInOrder, NoRow
  <2>3. CASE j # a
    <3>1. rows[a].status \in {"queued", "running"}
      BY <2>1, <2>3 DEF Moved
    <3>2. rows[b].status = "queued"
      BY <1>2, <2>1, <3>1 DEF TakenInOrder
    <3>3. j # b
      BY <1>2, <2>1, <3>1, <3>2 DEF Queued, Running, NoRow
    <3> QED BY <1>2, <3>2, <3>3 DEF Moved
  <2> QED BY <2>2, <2>3
<1> QED BY <1>1, <1>2

\* A retry job moved does not wait again; the worker takes none up that has a
\* successor; one that is appended belongs to an older row.
LEMMA RetriesKept ==
  ASSUME RetriesOK, NEW j \in 0 .. Len(rows), NEW st, Moved(j, st), Len(rows) \in Nat,
         Created \subseteq Created',
         j \in Retries => st # "queued",
         cur' \in {cur, NoRow} \/ (cur' \in Queued /\ cur' \in DOMAIN rows),
         cur' = cur /\ pc = "settled" => pc' = "settled",
         \/ Len(rows') = Len(rows)
         \/ /\ Len(rows') = Len(rows) + 1
            /\ \/ rows'[Len(rows) + 1].kind = "work"
               \/ \E n \in Created' : \E f \in Nat :
                    /\ rows'[Len(rows) + 1] = RetryOf(n, f) /\ n.row \in 1 .. Len(rows)
                    /\ f # NoRow => /\ f \in Retries /\ rows[f].status # "queued" /\ f # j
                                    /\ f = cur' => pc' = "settled"
  PROVE  RetriesOK'
<1> SUFFICES ASSUME NEW i \in Retries'
             PROVE  /\ rows'[i].note \in Created'
                    /\ rows'[i].note.row < i
                    /\ rows'[i].from # NoRow =>
                         /\ rows'[i].from \in Retries' /\ rows'[rows'[i].from].status # "queued"
                         /\ rows'[i].from = cur' => pc' = "settled"
  BY DEF RetriesOK
<1>1. \A k \in Retries : k \in Retries' /\ (rows[k].status # "queued" => rows'[k].status # "queued")
  BY DEF Retries, Moved
<1>2. CASE i \in 1 .. Len(rows)
  <2>1. i \in Retries
    BY <1>2 DEF Retries, Moved
  <2>2. rows'[i].note = rows[i].note /\ rows'[i].from = rows[i].from
    BY <1>2 DEF Moved
  <2>3. rows[i].from # NoRow => /\ rows[i].from \in Retries /\ rows[rows[i].from].status # "queued"
                                /\ rows[i].from = cur => pc = "settled"
    BY <2>1 DEF RetriesOK
  <2>4. rows[i].from # NoRow /\ rows[i].from = cur' => pc' = "settled"
    BY <2>3 DEF Queued
  <2> QED BY <1>1, <2>1, <2>2, <2>3, <2>4 DEF RetriesOK
<1>3. CASE i \notin 1 .. Len(rows)
  <2>1. i = Len(rows) + 1 /\ rows'[i].kind = "retry"
    BY <1>3 DEF Retries
  <2>2. PICK n \in Created', f \in Nat :
          /\ rows'[i] = RetryOf(n, f) /\ n.row \in 1 .. Len(rows)
          /\ f # NoRow => /\ f \in Retries /\ rows[f].status # "queued" /\ f # j
                          /\ f = cur' => pc' = "settled"
    BY <1>3, <2>1 DEF Retries
  <2>3. rows'[i].note = n /\ rows'[i].from = f
    BY <2>2 DEF RetryOf
  <2> QED BY <1>1, <2>1, <2>2, <2>3
<1> QED BY <1>2, <1>3

\* Only rows that wait or run are moved, so that what is over stays over.
LEMMA NotesKept ==
  ASSUME ToldOnce, NEW j \in 0 .. Len(rows), NEW st, Moved(j, st), Len(rows) \in Nat,
         Len(rows') \in {Len(rows), Len(rows) + 1},
         j # NoRow => rows[j].status \in {"queued", "running"},
         NEW n \in Created, pc' = "ended" => cur' = j
  PROVE  /\ n.row \in DOMAIN rows'
         /\ n.type = "ended" => rows'[n.row].status = "over" /\ ~(pc' = "ended" /\ n.row = cur')
         /\ n.type = "interrupted" => rows'[n.row].status = "interrupted"
<1>1. n.row \in 1 .. Len(rows)
  BY DEF ToldOnce
<1>2. n.type \in {"ended", "interrupted"} => n.row # j
  BY <1>1 DEF ToldOnce, NoRow
<1> QED BY <1>1, <1>2 DEF ToldOnce, Moved

\* Steps that leave the table alone.
LEMMA QueueStill ==
  ASSUME IInv, QueueInv, UNCHANGED rows, Created \subseteq Created', cur' \in {cur, NoRow},
         cur' = cur /\ pc = "settled" => pc' = "settled",
         \A n \in Created' \ Created :
           n.row \in DOMAIN rows /\ n.type # "interrupted"
           /\ (n.type = "ended" => rows[n.row].status = "over" /\ pc' # "ended"),
         pc' = "ended" => pc = "ended" /\ UNCHANGED cur,
         pc' \in {"claimed", "busy"} => rows[cur'].status = "running",
         (pc' \in Passing /\ ~HoldsRetry') =>
            /\ note'.row = cur'
            /\ note'.type = "accepted" => rows[cur'].status = "running"
            /\ note'.type = "ended" => ~Known(note, NoRow)'
  PROVE  QueueInv'
<1>1. Len(rows) \in Nat /\ Moved(NoRow, "over") /\ NoRow \notin Retries
  BY DEF IInv, JobsInv, TypeJobs, Moved, NoRow, Retries
<1>2. TakenInOrder'
  BY DEF QueueInv, TakenInOrder
<1>3. RetriesOK'
  BY <1>1, RetriesKept DEF QueueInv, NoRow
<1>4. \A n \in Created' :
        /\ n.row \in DOMAIN rows'
        /\ n.type = "ended" => rows'[n.row].status = "over" /\ ~(pc' = "ended" /\ n.row = cur')
        /\ n.type = "interrupted" => rows'[n.row].status = "interrupted"
  BY DEF QueueInv, ToldOnce
<1> QED BY <1>2, <1>3, <1>4 DEF QueueInv, ToldOnce

\* A notification that exists belongs to a row.
LEMMA RowOf ==
  ASSUME IInv, QueueInv, NEW n \in Created
  PROVE  n.row \in 1 .. Len(rows)
<1>1. DOMAIN rows = 1 .. Len(rows)
  BY DEF IInv, JobsInv, TypeJobs
<1> QED BY <1>1 DEF QueueInv, ToldOnce

\* No retry job exists of a notification that does not.
LEMMA NotKnown ==
  ASSUME QueueInv, NEW n, n \notin Created, NEW f
  PROVE  ~Known(n, f)
  BY DEF QueueInv, RetriesOK, Retries, Known

LEMMA QueueNotes ==
  ASSUME IInv, QueueInv, NotifyAccepted \/ NotifyEnd \/ Retry
  PROVE  QueueInv'
<1>1. cur \in 1 .. Len(rows) /\ UNCHANGED <<rows, cur>> /\ pc' = "pass"
  BY DEF NotifyAccepted, NotifyEnd, Retry, Begin, IInv, JobsInv, RowsOK, TypeJobs, NoRow
<1>2. \A n : n \in Created' \ Created => n = note'
  BY DEF NotifyAccepted, NotifyEnd, Retry, Begin, Create, Created
<1>3. Created \subseteq Created'
  BY DEF NotifyAccepted, NotifyEnd, Retry, Begin, Create, Created
<1>4. HoldsRetry' <=> HoldsRetry
  BY <1>1 DEF HoldsRetry
<1>5. CASE NotifyAccepted
  <2>1. note' = Of(cur, "accepted") /\ rows[cur].status = "running"
    BY <1>5 DEF NotifyAccepted, Begin, QueueInv, ToldOnce
  <2>2. note'.row = cur /\ note'.type = "accepted"
    BY <2>1 DEF Of
  <2> QED BY <1>1, <1>2, <1>3, <1>5, <2>1, <2>2, QueueStill DEF NotifyAccepted
<1>6. CASE NotifyEnd
  <2>1. note' = Of(cur, "ended") /\ rows[cur].status = "over" /\ pc = "ended"
    BY <1>6 DEF NotifyEnd, Begin, IInv, JobsInv, RowsOK
  <2>2. note'.row = cur /\ note'.type = "ended"
    BY <2>1 DEF Of
  <2>3. note' \notin Created
    BY <2>1, <2>2 DEF QueueInv, ToldOnce
  <2>4. ~Known(note, NoRow)'
    <3>1. PICK n : n = note'
      OBVIOUS
    <3>2. ~Known(n, NoRow)
      BY <2>3, <3>1, NotKnown
    <3> QED BY <1>1, <3>1, <3>2 DEF Known
  <2> QED BY <1>1, <1>2, <1>3, <2>1, <2>2, <2>4, QueueStill
<1>7. CASE Retry
  <2>1. note' = rows[cur].note /\ cur \in Retries /\ HoldsRetry /\ pc = "claimed"
    BY <1>1, <1>7 DEF Retry, Begin, Retries, HoldsRetry, NoRow
  <2>2. note' \in Created
    BY <2>1 DEF QueueInv, RetriesOK
  <2> QED BY <1>1, <1>2, <1>3, <1>4, <2>1, <2>2, QueueStill
<1> QED BY <1>5, <1>6, <1>7

LEMMA QueueClaim ==
  ASSUME IInv, QueueInv, NEW j \in 1 .. Len(rows), Claim(j)
  PROVE  QueueInv'
<1>1. /\ Moved(j, "running") /\ Len(rows') = Len(rows)
      /\ rows[j].status = "queued" /\ (\A i \in Queued : j <= i) /\ Running = {}
  BY ClaimMoves
<1>2. cur' = j /\ pc' = "claimed" /\ pc = "idle" /\ Created' = Created /\ Len(rows) \in Nat
  BY DEF Claim, ledger, Created, IInv, JobsInv, TypeJobs
<1>3. TakenInOrder'
  BY <1>1, <1>2, OrderKept DEF QueueInv
<1>4. RetriesOK'
  <2>1. j \in Queued /\ j \in DOMAIN rows
    BY <1>1, <1>2 DEF Queued
  <2> QED BY <1>1, <1>2, <2>1, RetriesKept DEF QueueInv
<1>5. ToldOnce'
  <2>1. rows'[j].status = "running" /\ pc' \notin Passing
    BY <1>1, <1>2 DEF Moved, Passing
  <2>2. \A n \in Created :
          /\ n.row \in DOMAIN rows'
          /\ n.type = "ended" => rows'[n.row].status = "over"
          /\ n.type = "interrupted" => rows'[n.row].status = "interrupted"
    BY <1>1, <1>2, NotesKept DEF QueueInv
  <2>3. \A n \in Created' :
          /\ n.row \in DOMAIN rows'
          /\ n.type = "ended" => rows'[n.row].status = "over" /\ ~(pc' = "ended" /\ n.row = cur')
          /\ n.type = "interrupted" => rows'[n.row].status = "interrupted"
    BY <1>2, <2>2
  <2> QED BY <1>2, <2>1, <2>3 DEF ToldOnce
<1> QED BY <1>3, <1>4, <1>5 DEF QueueInv

LEMMA QueueRelease ==
  ASSUME IInv, QueueInv, Fallback \/ End \/ RetryOver
  PROVE  QueueInv'
<1>1. PICK st \in {"queued", "over"} :
        /\ Moved(cur, st) /\ Len(rows') = Len(rows)
        /\ cur \in 1 .. Len(rows) /\ rows[cur].status = "running"
        /\ st = "queued" => rows[cur].kind = "work"
  BY ReleaseMoves
<1>2. Created' = Created /\ Len(rows) \in Nat
  BY DEF Fallback, End, RetryOver, ledger, Created, IInv, JobsInv, TypeJobs
<1>3. (pc' = "idle" /\ cur' = NoRow) \/ (pc' = "ended" /\ cur' = cur)
  BY DEF Fallback, End, RetryOver
<1>4. TakenInOrder'
  BY <1>1, <1>2, OrderKept DEF QueueInv
<1>5. RetriesOK'
  <2>1. cur' = cur /\ pc = "settled" => pc' = "settled"
    BY <1>1 DEF Fallback, End, RetryOver, NoRow
  <2>2. cur \in Retries => st # "queued"
    BY <1>1 DEF Retries
  <2> QED BY <1>1, <1>2, <1>3, <2>1, <2>2, RetriesKept DEF QueueInv
<1>6. ToldOnce'
  <2>1. \A n \in Created :
          /\ n.row \in DOMAIN rows'
          /\ n.type = "ended" => rows'[n.row].status = "over" /\ ~(pc' = "ended" /\ n.row = cur')
          /\ n.type = "interrupted" => rows'[n.row].status = "interrupted"
    BY <1>1, <1>2, <1>3, NotesKept DEF QueueInv
  <2> QED BY <1>2, <1>3, <2>1 DEF ToldOnce, Passing
<1> QED BY <1>4, <1>5, <1>6 DEF QueueInv

\* What Grown appends is a retry job that waits.
LEMMA GrownKept ==
  ASSUME QueueInv, NEW n \in Created', NEW f \in Nat, Grown(n, f), Len(rows) \in Nat,
         n.row \in 1 .. Len(rows)
  PROVE  /\ Len(rows') \in {Len(rows), Len(rows) + 1}
         /\ Len(rows') = Len(rows) + 1 => /\ rows'[Len(rows) + 1].status = "queued"
                                          /\ rows'[Len(rows) + 1] = RetryOf(n, f)
  BY DEF Grown, RetryOf

LEMMA QueueLeave ==
  ASSUME IInv, QueueInv, AfterFirstPass \/ Reschedule
  PROVE  QueueInv'
<1>1. pc = "rolled" /\ cur \in 1 .. Len(rows) /\ Len(rows) \in Nat /\ UNCHANGED <<ledger, note>>
  BY DEF AfterFirstPass, Reschedule, RetryRolled, IInv, JobsInv, RowsOK, TypeJobs, NoRow
<1>2. Created' = Created
  BY <1>1 DEF ledger, Created
<1>3. /\ Reschedule => pc' = "settled" /\ cur' = cur /\ HoldsRetry
      /\ AfterFirstPass => /\ (pc' = "busy" /\ cur' = cur) \/ (pc' = "idle" /\ cur' = NoRow)
                           /\ pc' = "busy" => note.type = "accepted"
                           /\ ~HoldsRetry
  BY <1>1 DEF AfterFirstPass, Reschedule, RetryRolled, HoldsRetry, NoRow
<1>4. AfterFirstPass => rows[cur].status = "running" \/ note.type # "accepted"
  BY <1>1, <1>3 DEF QueueInv, ToldOnce, Passing
<1>5. CASE AfterFirstPass /\ parent[note] = "sent"
  <2>1. rows' = rows
    BY <1>5 DEF AfterFirstPass
  <2>2. pc' \notin Passing
    BY <1>3, <1>5 DEF Passing
  <2> QED BY <1>1, <1>2, <1>3, <1>4, <1>5, <2>1, <2>2, QueueStill
<1>6. CASE (AfterFirstPass /\ parent[note] # "sent") \/ Reschedule
  <2> DEFINE f == IF Reschedule THEN cur ELSE NoRow
  <2>1. /\ Moved(NoRow, "queued") /\ note \in Created /\ Grown(note, f)
        /\ Reschedule <=> HoldsRetry
    BY <1>6, LeaveMoves
  <2>2. f \in Nat /\ (f # NoRow => f = cur /\ Reschedule)
    BY <1>1 DEF NoRow
  <2>3. note.row \in 1 .. Len(rows)
    BY <2>1, RowOf
  <2> HIDE DEF f
  <2>4. /\ Len(rows') \in {Len(rows), Len(rows) + 1}
        /\ Len(rows') = Len(rows) + 1 => /\ rows'[Len(rows) + 1].status = "queued"
                                         /\ rows'[Len(rows) + 1] = RetryOf(note, f)
    BY <1>1, <1>2, <2>1, <2>2, <2>3, GrownKept
  <2>5. TakenInOrder'
    BY <1>1, <2>1, <2>4, OrderKept DEF QueueInv, NoRow
  <2>6. RetriesOK'
    <3>1. f # NoRow => f \in Retries /\ rows[f].status # "queued" /\ pc' = "settled"
      BY <1>1, <1>3, <2>2 DEF HoldsRetry, Retries, IInv, JobsInv, RowsOK
    <3> QED BY <1>1, <1>2, <1>3, <1>6, <2>1, <2>2, <2>3, <2>4, <3>1, RetriesKept DEF QueueInv, NoRow, Retries
  <2>7. ToldOnce'
    <3>1. \A n \in Created :
            /\ n.row \in DOMAIN rows'
            /\ n.type = "ended" => rows'[n.row].status = "over"
            /\ n.type = "interrupted" => rows'[n.row].status = "interrupted"
      BY <1>1, <1>3, <1>6, <2>1, <2>4, NotesKept DEF QueueInv, NoRow
    <3>2. rows'[cur].status = rows[cur].status /\ rows'[cur].kind = rows[cur].kind
      BY <1>1, <2>1 DEF Moved, NoRow
    <3>3. pc' = "busy" => cur' = cur /\ rows[cur].status = "running"
      BY <1>3, <1>4, <1>6
    <3>4. pc' \in Passing => HoldsRetry'
      BY <1>3, <1>6, <3>2 DEF Passing, HoldsRetry
    <3>5. pc' \notin {"claimed", "ended"}
      BY <1>3, <1>6
    <3> QED BY <1>2, <3>1, <3>2, <3>3, <3>4, <3>5 DEF ToldOnce
  <2> QED BY <2>5, <2>6, <2>7 DEF QueueInv
<1> QED BY <1>5, <1>6

LEMMA QueueArrive ==
  ASSUME IInv, QueueInv, Arrive
  PROVE  QueueInv'
<1>1. Moved(NoRow, "queued") /\ Len(rows') = Len(rows) + 1 /\ rows'[Len(rows) + 1] = Work
  BY ArriveMoves
<1>2. UNCHANGED <<ledger, pc, cur, note>> /\ Created' = Created /\ Len(rows) \in Nat /\ cur \in Nat
  BY DEF Arrive, ledger, Created, IInv, JobsInv, TypeJobs
<1>3. Work.status = "queued" /\ Work.kind = "work"
  BY DEF Work
<1>4. TakenInOrder'
  BY <1>1, <1>2, <1>3, OrderKept DEF QueueInv, NoRow
<1>5. RetriesOK'
  BY <1>1, <1>2, <1>3, RetriesKept DEF QueueInv, NoRow, Retries
<1>6. ToldOnce'
  <2>1. \A n \in Created :
          /\ n.row \in DOMAIN rows'
          /\ n.type = "ended" => rows'[n.row].status = "over"
          /\ n.type = "interrupted" => rows'[n.row].status = "interrupted"
    BY <1>1, <1>2, <1>3 DEF QueueInv, ToldOnce, Moved, NoRow
  <2>2. cur # NoRow => rows'[cur].status = rows[cur].status /\ rows'[cur].kind = rows[cur].kind
    BY <1>1, <1>2 DEF Moved, NoRow, IInv, JobsInv, TypeJobs
  <2>3. pc \notin {"idle", "down"} => cur # NoRow
    BY DEF IInv, JobsInv, RowsOK
  <2>4. HoldsRetry' <=> HoldsRetry
    BY <1>2, <2>2 DEF HoldsRetry
  <2>5. Known(note, NoRow)' => Known(note, NoRow)
    BY <1>1, <1>2, <1>3 DEF Known, Moved
  <2> QED BY <1>2, <2>1, <2>2, <2>3, <2>4, <2>5 DEF QueueInv, ToldOnce, Passing
<1> QED BY <1>4, <1>5, <1>6 DEF QueueInv

LEMMA QueueRecover ==
  ASSUME IInv, QueueInv, Recover
  PROVE  QueueInv'
<1>1. /\ pc = "down" /\ pc' = "idle" /\ cur = NoRow /\ cur' = NoRow
      /\ Len(rows) \in Nat
  BY DEF Recover, IInv, JobsInv, RowsOK, TypeJobs
<1>2. CASE UNCHANGED <<rows, ledger>>
  BY <1>1, <1>2, QueueStill DEF ledger, Created, Passing
<1>3. ASSUME NEW j \in Running, Interrupt(j) PROVE QueueInv'
  <2>1. PICK st \in {"queued", "interrupted"}, n \in Note :
           /\ Moved(j, st) /\ Grown(n, NoRow) /\ Create({n})
           /\ j \in 1 .. Len(rows) /\ n.row = j
           /\ st = "queued" => rows[j].kind = "work" /\ n.type = "restarted"
           /\ st = "interrupted" => n.type = "interrupted"
    BY <1>3, InterruptMoves
  <2>2. Created' = Created \union {n} /\ rows[j].status = "running"
    BY <2>1 DEF Create, Created, Running
  <2>3. /\ Len(rows') \in {Len(rows), Len(rows) + 1}
        /\ Len(rows') = Len(rows) + 1 => /\ rows'[Len(rows) + 1].status = "queued"
                                         /\ rows'[Len(rows) + 1] = RetryOf(n, NoRow)
    BY <1>1, <2>1, <2>2, GrownKept DEF NoRow
  <2>4. TakenInOrder'
    BY <1>1, <2>1, <2>2, <2>3, OrderKept DEF QueueInv
  <2>5. RetriesOK'
    BY <1>1, <2>1, <2>2, <2>3, RetriesKept DEF QueueInv, NoRow, Retries
  <2>6. ToldOnce'
    <3>1. \A m \in Created :
            /\ m.row \in DOMAIN rows'
            /\ m.type = "ended" => rows'[m.row].status = "over"
            /\ m.type = "interrupted" => rows'[m.row].status = "interrupted"
      BY <1>1, <2>1, <2>2, <2>3, NotesKept DEF QueueInv
    <3>2. j \in DOMAIN rows' /\ rows'[j].status = st /\ n.type # "ended"
      BY <1>1, <2>1, <2>3 DEF Moved
    <3> QED BY <1>1, <2>1, <2>2, <3>1, <3>2 DEF ToldOnce, Passing
  <2> QED BY <2>4, <2>5, <2>6 DEF QueueInv
<1> QED BY <1>2, <1>3 DEF Recover

LEMMA QueueStep == IInv /\ QueueInv /\ [Next]_vars => QueueInv'
<1> SUFFICES ASSUME IInv, QueueInv, [Next]_vars PROVE QueueInv'
  OBVIOUS
<1>1. ASSUME NEW c \in todo, 
             GiveUp(c) \/ Ask(c) \/ Take(c) \/ Answered(c) \/ AnswerLost(c) \/ Refused(c)
      PROVE  QueueInv'
  <2>1. /\ UNCHANGED <<rows, cur, note, parent>>
        /\ {pc, pc'} \subseteq Passing \ {"settled"}
    BY <1>1 DEF GiveUp, Ask, Take, Answered, AnswerLost, Refused, Passing, ledger
  <2>2. Known(note, NoRow)' <=> Known(note, NoRow)
    BY <2>1 DEF Known
  <2> QED BY <2>1, <2>2, QueueStill DEF Created, HoldsRetry, QueueInv, ToldOnce, Passing
<1>2. CASE RollUpParent \/ Terminalize
  <2>1. /\ UNCHANGED <<rows, cur, note>> /\ Created' = Created
        /\ {pc, pc'} \subseteq Passing \ {"settled"}
    BY <1>2 DEF RollUpParent, Terminalize, RetryRolled, Passing, Created, IInv, LedgerInv, TypeLedger
  <2>2. Known(note, NoRow)' <=> Known(note, NoRow)
    BY <2>1 DEF Known
  <2> QED BY <2>1, <2>2, QueueStill DEF HoldsRetry, QueueInv, ToldOnce, Passing
<1>3. CASE NotAnnounced
  <2>1. rows[cur].status = "running" /\ pc' = "busy" /\ UNCHANGED <<rows, cur, ledger>>
    BY <1>3 DEF NotAnnounced, QueueInv, ToldOnce
  <2>2. pc = "claimed"
    BY <1>3 DEF NotAnnounced
  <2> QED BY <2>1, <2>2, QueueStill DEF ledger, Created, Passing
<1>4. CASE Crash
  <2>1. cur' = NoRow /\ pc' = "down" /\ UNCHANGED <<rows, ledger>>
    BY <1>4 DEF Crash
  <2>2. pc = "settled" => cur # NoRow
    BY DEF IInv, JobsInv, RowsOK
  <2> QED BY <2>1, <2>2, QueueStill DEF ledger, Created, Passing
<1>5. CASE Sleep \/ UNCHANGED vars
  <2>1. UNCHANGED vars
    BY <1>5 DEF Sleep
  <2> QED BY <2>1 DEF vars, ledger, QueueInv, TakenInOrder, RetriesOK, Retries, ToldOnce, Created,
             HoldsRetry, Known
<1> QED
  BY <1>1, <1>2, <1>3, <1>4, <1>5, QueueNotes, QueueClaim, QueueRelease, QueueLeave, QueueArrive,
     QueueRecover
  DEF Next, JobStep, PassStep, Telegram

-----------------------------------------------------------------------------
(* What is dropped *)

\* The notification the worker is at, whose retry job is not queued yet.
AtHand ==
  IF pc \in Passing \ {"settled"} THEN {note}
  ELSE IF pc = "claimed" /\ HoldsRetry THEN {rows[cur].note} ELSE {}

Dropped == Stranded \ AtHand

Left(n) == \E c \in 1 .. Size(n) : chunk[n][c].status # "sent" /\ chunk[n][c].attempts < MaxAttempts
Waits(n) == \E j \in Queued : rows[j].kind = "retry" /\ rows[j].note = n

LEMMA StrandedIs == \A n : n \in Stranded <=> n \in Created /\ Left(n) /\ ~Waits(n)
  BY DEF Stranded, Left, Waits

\* A retry job that waits goes on waiting until it is taken up.
LEMMA WaitsOn ==
  ASSUME NEW j, NEW st, Moved(j, st), Len(rows) \in Nat,
         Len(rows') \in {Len(rows), Len(rows) + 1}, NEW n, Waits(n),
         j \in Queued => rows[j].kind # "retry" \/ rows[j].note # n
  PROVE  Waits(n)'
<1>1. PICK i \in Queued : rows[i].kind = "retry" /\ rows[i].note = n
  BY DEF Waits
<1>2. i \in Queued' /\ rows'[i].kind = "retry" /\ rows'[i].note = n
  BY <1>1 DEF Queued, Moved
<1> QED BY <1>2 DEF Waits

\* After a retry job was asked for, one waits: a known first one is behind the
\* job of its notification, which is not over, and a successor is never known.
LEMMA GrownWaits ==
  ASSUME IInv, QueueInv, NEW j, NEW st, Moved(j, st), NEW n \in Note, NEW f \in Nat, Grown(n, f),
         Known(n, f) =>
           f = NoRow /\ n.row \in DOMAIN rows /\ rows[n.row].status \in {"queued", "running"},
         j \notin Queued
  PROVE  Waits(n)'
<1> Len(rows) \in Nat
  BY DEF IInv, JobsInv, TypeJobs
<1>1. CASE Known(n, f)
  <2>1. PICK i \in 1 .. Len(rows) : rows[i].kind = "retry" /\ rows[i].note = n
    BY <1>1 DEF Known
  <2>2. n.row < i
    BY <2>1 DEF QueueInv, RetriesOK, Retries
  <2>3. rows[i].status = "queued"
    BY <1>1, <2>1, <2>2 DEF QueueInv, TakenInOrder
  <2>4. i \in Queued
    BY <2>1, <2>3 DEF Queued
  <2>5. Len(rows') \in {Len(rows), Len(rows) + 1}
    BY DEF Grown
  <2> QED BY <2>1, <2>4, <2>5, WaitsOn DEF Waits
<1>2. CASE ~Known(n, f)
  BY <1>2 DEF Grown, RetryOf, Waits, Queued
<1> QED BY <1>1, <1>2

\* A step under which the ledger changes at hand only and the retry jobs go on waiting.
LEMMA DroppedKept ==
  ASSUME \A n \in Created' : n \notin AtHand' =>
           /\ n \in Created /\ n \notin AtHand /\ chunk'[n] = chunk[n]
           /\ Waits(n) => Waits(n)'
  PROVE  Dropped' \subseteq Dropped
<1> SUFFICES ASSUME NEW n \in Dropped' PROVE n \in Dropped
  OBVIOUS
<1>1. n \in Created' /\ n \notin AtHand' /\ Left(n)' /\ ~Waits(n)'
  BY DEF Dropped, Stranded, Left, Waits
<1>2. Left(n)
  BY <1>1 DEF Left
<1> QED BY <1>1, <1>2, StrandedIs DEF Dropped

\* The same where the notification at hand is let go, done with or left to a retry job.
LEMMA LetGo ==
  ASSUME Created' = Created, UNCHANGED chunk, AtHand' = {},
         \A n \in AtHand : ~Left(n) \/ Waits(n)',
         \A n \in Created : Waits(n) => Waits(n)'
  PROVE  Dropped' \subseteq Dropped
<1> SUFFICES ASSUME NEW n \in Dropped' PROVE n \in Dropped
  OBVIOUS
<1>1. n \in Created /\ Left(n)' /\ ~Waits(n)'
  BY DEF Dropped, Stranded, Left, Waits
<1>2. Left(n)
  BY <1>1 DEF Left
<1>3. n \notin AtHand
  BY <1>1, <1>2
<1> QED BY <1>1, <1>2, <1>3, StrandedIs DEF Dropped

\* Only a crash drops a notification.
LEMMA DroppedStep ==
  ASSUME IInv, QueueInv, [Next]_vars, ~Crash
  PROVE  Dropped' \subseteq Dropped
<1> Len(rows) \in Nat /\ DOMAIN rows = 1 .. Len(rows) /\ NoRow \notin Queued
  BY DEF IInv, JobsInv, TypeJobs, NoRow, Queued
<1>1. ASSUME UNCHANGED <<rows, cur>>, {pc, pc'} \subseteq Passing \ {"settled"}, UNCHANGED <<note, parent>>,
             \A n \in Created : n # note => chunk'[n] = chunk[n]
      PROVE  Dropped' \subseteq Dropped
  <2>1. AtHand = {note} /\ AtHand' = {note} /\ Created' = Created
    BY <1>1 DEF AtHand, Created
  <2>2. \A n : Waits(n)' <=> Waits(n)
    BY <1>1 DEF Waits, Queued
  <2> QED BY <1>1, <2>1, <2>2, DroppedKept
<1>2. ASSUME NEW c \in todo,
             GiveUp(c) \/ Ask(c) \/ Take(c) \/ Answered(c) \/ AnswerLost(c) \/ Refused(c)
      PROVE  Dropped' \subseteq Dropped
  <2>1. /\ UNCHANGED <<rows, cur, note, parent>>
        /\ {pc, pc'} \subseteq Passing \ {"settled"}
    BY <1>2 DEF GiveUp, Ask, Take, Answered, AnswerLost, Refused, Passing, ledger
  <2>2. note \in Created /\ c \in 1 .. Size(note) /\ TypeLedger
    BY <2>1 DEF IInv, LedgerInv, PassOK, TypeLedger
  <2>3. UNCHANGED chunk \/ \E st : Mark(c, st)
    BY <1>2 DEF GiveUp, Ask, Take, Answered, AnswerLost, Refused, ledger
  <2>4. \A n \in Created : n # note => chunk'[n] = chunk[n]
    BY <2>2, <2>3, MarkEffect
  <2> QED BY <1>1, <2>1, <2>4
<1>3. CASE RollUpParent \/ Terminalize
  <2>1. /\ UNCHANGED <<rows, cur, note>> /\ {pc, pc'} \subseteq Passing \ {"settled"}
    BY <1>3 DEF RollUpParent, Terminalize, RetryRolled, Passing
  <2>2. TypeLedger
    BY DEF IInv, LedgerInv
  <2>3. Created' = Created /\ \A n \in Created : n # note => chunk'[n] = chunk[n]
    BY <1>3, <2>2 DEF RollUpParent, Terminalize, Created, TypeLedger
  <2>4. AtHand = {note} /\ AtHand' = {note}
    BY <2>1 DEF AtHand
  <2>5. \A n : Waits(n)' <=> Waits(n)
    BY <2>1 DEF Waits, Queued
  <2> QED BY <2>3, <2>4, <2>5, DroppedKept
<1>4. CASE NotifyAccepted \/ NotifyEnd \/ Retry
  <2>1. /\ UNCHANGED <<rows, cur>> /\ pc' = "pass" /\ Create({note'})
        /\ pc \in {"claimed", "ended"}
    BY <1>4 DEF NotifyAccepted, NotifyEnd, Retry, Begin
  <2>2. AtHand' = {note'}
    BY <2>1 DEF AtHand, Passing
  <2>3. AtHand \subseteq {note'}
    BY <1>4, <2>1 DEF NotifyAccepted, NotifyEnd, Retry, Begin, AtHand, Passing, HoldsRetry
  <2>4. \A n \in Created' : n # note' => n \in Created /\ chunk'[n] = chunk[n]
    BY <2>1 DEF Create, Created
  <2>5. \A n : Waits(n)' <=> Waits(n)
    BY <2>1 DEF Waits, Queued
  <2> QED BY <2>2, <2>3, <2>4, <2>5, DroppedKept
<1>5. CASE NotAnnounced
  <2>1. UNCHANGED <<rows, ledger, cur>> /\ pc = "claimed" /\ pc' = "busy" /\ ~HoldsRetry
    BY <1>5 DEF NotAnnounced, HoldsRetry
  <2>2. AtHand = {} /\ AtHand' = {}
    BY <2>1 DEF AtHand, Passing
  <2>3. \A n : Waits(n)' <=> Waits(n)
    BY <2>1 DEF Waits, Queued
  <2> QED BY <2>1, <2>2, <2>3, DroppedKept DEF ledger, Created
<1>6. ASSUME NEW j \in 1 .. Len(rows), Claim(j) PROVE Dropped' \subseteq Dropped
  <2>1. /\ Moved(j, "running") /\ Len(rows') = Len(rows) /\ rows[j].status = "queued"
    BY <1>6, ClaimMoves
  <2>2. pc = "idle" /\ pc' = "claimed" /\ cur' = j /\ UNCHANGED ledger
    BY <1>6 DEF Claim
  <2>3. AtHand = {} /\ (rows[j].kind = "retry" => AtHand' = {rows[j].note})
    BY <2>1, <2>2 DEF AtHand, Passing, HoldsRetry, Moved, NoRow
  <2>4. \A n : Waits(n) /\ n \notin AtHand' => Waits(n)'
    BY <2>1, <2>3, WaitsOn
  <2> QED BY <2>2, <2>3, <2>4, DroppedKept DEF ledger, Created
<1>7. CASE Fallback \/ End \/ RetryOver
  <2>1. PICK st \in {"queued", "over"} :
          /\ Moved(cur, st) /\ Len(rows') = Len(rows)
          /\ cur \in 1 .. Len(rows) /\ rows[cur].status = "running"
    BY <1>7, ReleaseMoves
  <2>2. \A n : Waits(n) => Waits(n)'
    BY <2>1, WaitsOn DEF Queued
  <2>3. Created' = Created /\ UNCHANGED chunk
    BY <1>7 DEF Fallback, End, RetryOver, ledger, Created
  <2>4. pc' \in {"idle", "ended"}
    BY <1>7 DEF Fallback, End, RetryOver
  <2>5. AtHand' = {}
    BY <2>4 DEF AtHand, Passing
  <2>6. CASE pc \in {"busy", "settled"}
    <3>1. AtHand = {}
      BY <2>6 DEF AtHand, Passing
    <3> QED BY <2>2, <2>3, <2>5, <3>1, DroppedKept
  <2>7. CASE RetryRolled /\ Retryable(note) = {}
    <3>1. AtHand = {note} /\ note \in Created /\ ~Left(note)
      BY <2>7 DEF RetryRolled, Retryable, Left, AtHand, Passing, IInv, LedgerInv, PassOK
    <3> QED BY <2>2, <2>3, <2>5, <3>1, LetGo
  <2> QED BY <1>7, <2>6, <2>7 DEF Fallback, End, RetryOver
<1>8. CASE AfterFirstPass \/ Reschedule
  <2>1. pc = "rolled" /\ pc' \in {"settled", "busy", "idle"} /\ UNCHANGED <<ledger, note>>
    BY <1>8 DEF AfterFirstPass, Reschedule, RetryRolled
  <2>2. AtHand = {note} /\ AtHand' = {} /\ note \in Created /\ Created' = Created /\ UNCHANGED chunk
    BY <2>1 DEF AtHand, Passing, IInv, LedgerInv, PassOK, ledger, Created
  <2>3. CASE AfterFirstPass /\ parent[note] = "sent"
    <3>1. ~Left(note)
      BY <2>2, <2>3 DEF Left, IInv, LedgerInv, TruthOK, Unsent
    <3>2. rows' = rows
      BY <2>3 DEF AfterFirstPass
    <3>3. \A n : Waits(n) => Waits(n)'
      BY <3>2 DEF Waits, Queued
    <3> QED BY <2>2, <3>1, <3>3, LetGo
  <2>4. CASE (AfterFirstPass /\ parent[note] # "sent") \/ Reschedule
    <3> DEFINE f == IF Reschedule THEN cur ELSE NoRow
    <3>1. /\ Moved(NoRow, "queued") /\ note \in Note /\ Grown(note, f)
          /\ cur \in 1 .. Len(rows) /\ (Reschedule <=> HoldsRetry)
      BY <2>4, LeaveMoves
    <3>2. f \in Nat /\ (f = NoRow <=> ~HoldsRetry) /\ (f # NoRow => f = cur)
      BY <3>1 DEF NoRow
    <3> HIDE DEF f
    <3>3. Known(note, f) => f = NoRow
      BY <2>1, <3>2 DEF Known, QueueInv, RetriesOK, Retries
    <3>4. Known(note, f) => rows[note.row].status = "running"
      BY <2>1, <3>2, <3>3 DEF QueueInv, ToldOnce, Passing, IInv, JobsInv, RowsOK
    <3>5. Known(note, f) => note.row \in DOMAIN rows
      BY <2>2, RowOf
    <3>6. \A n \in AtHand : Waits(n)'
      <4> SUFFICES ASSUME NEW n, n = note PROVE Waits(n)'
        BY <2>2
      <4> QED BY <3>1, <3>2, <3>3, <3>4, <3>5, GrownWaits
    <3>7. Len(rows') \in {Len(rows), Len(rows) + 1}
      BY <3>1 DEF Grown
    <3>8. \A n : Waits(n) => Waits(n)'
      BY <3>1, <3>7, WaitsOn
    <3> QED BY <2>2, <3>6, <3>8, LetGo
  <2> QED BY <1>8, <2>3, <2>4
<1>9. CASE Arrive
  <2>1. Moved(NoRow, "queued") /\ Len(rows') = Len(rows) + 1
    BY <1>9, ArriveMoves
  <2>2. \A n : Waits(n) => Waits(n)'
    BY <2>1, WaitsOn
  <2>3. UNCHANGED <<ledger, pc, cur, note>> /\ pc \in Awaiting
    BY <1>9 DEF Arrive
  <2>4. AtHand' = AtHand
    BY <2>3 DEF AtHand, Awaiting, Passing
  <2> QED BY <2>2, <2>3, <2>4, DroppedKept DEF ledger, Created
<1>10. CASE Recover
  <2>1. pc = "down" /\ pc' = "idle"
    BY <1>10 DEF Recover
  <2>2. AtHand = {} /\ AtHand' = {}
    BY <2>1 DEF AtHand, Passing
  <2>3. CASE UNCHANGED <<rows, ledger>>
    <3>1. \A n : Waits(n)' <=> Waits(n)
      BY <2>3 DEF Waits, Queued
    <3> QED BY <2>2, <2>3, <3>1, DroppedKept DEF ledger, Created
  <2>4. ASSUME NEW j \in Running, Interrupt(j) PROVE Dropped' \subseteq Dropped
    <3>1. PICK st \in {"queued", "interrupted"}, n \in Note :
             /\ Moved(j, st) /\ Grown(n, NoRow) /\ Create({n})
             /\ j \in 1 .. Len(rows) /\ n.row = j
             /\ st = "queued" => rows[j].kind = "work" /\ n.type = "restarted"
             /\ st = "interrupted" => n.type = "interrupted"
      BY <2>4, InterruptMoves
    <3>2. rows[j].status = "running" /\ j \notin Queued
      BY DEF Running, Queued
    <3>3. Waits(n)'
      BY <3>1, <3>2, GrownWaits DEF NoRow
    <3>4. Len(rows') \in {Len(rows), Len(rows) + 1}
      BY <3>1 DEF Grown
    <3>5. \A m : Waits(m) => Waits(m)'
      BY <3>1, <3>2, <3>4, WaitsOn
    <3>6. \A m \in Created' : m # n => m \in Created /\ chunk'[m] = chunk[m]
      BY <3>1 DEF Create, Created
    <3> SUFFICES ASSUME NEW m \in Dropped' PROVE m \in Dropped
      OBVIOUS
    <3>7. m \in Created' /\ Left(m)' /\ ~Waits(m)'
      BY DEF Dropped, Stranded, Left, Waits
    <3>8. m # n
      BY <3>3, <3>7
    <3>9. Left(m)
      BY <3>6, <3>7, <3>8 DEF Left
    <3> QED BY <2>2, <3>5, <3>6, <3>7, <3>8, <3>9, StrandedIs DEF Dropped
  <2> QED BY <1>10, <2>3, <2>4 DEF Recover
<1>11. CASE Sleep \/ UNCHANGED vars
  <2>1. UNCHANGED vars
    BY <1>11 DEF Sleep
  <2> QED BY <2>1 DEF vars, ledger, Dropped, Stranded, AtHand, HoldsRetry, Created, Queued
<1> QED
  BY <1>2, <1>3, <1>4, <1>5, <1>6, <1>7, <1>8, <1>9, <1>10, <1>11
  DEF Next, JobStep, PassStep, Telegram

\* One crash for every notification dropped.
StrandInv == IsFiniteSet(Dropped) /\ Cardinality(Dropped) <= crashes

LEMMA StrandStep == IInv /\ QueueInv /\ StrandInv /\ [Next]_vars => StrandInv'
<1> SUFFICES ASSUME IInv, QueueInv, StrandInv, [Next]_vars PROVE StrandInv'
  OBVIOUS
<1>0. crashes \in Nat /\ Cardinality(Dropped) \in Nat
  BY OutboundAssumption, FS_CardinalityType DEF IInv, LedgerInv, TypeLedger, StrandInv
<1>1. CASE Crash
  <2>1. /\ pc' = "down" /\ crashes' = crashes + 1 /\ UNCHANGED <<rows, ledger>>
    BY <1>1 DEF Crash
  <2>2. PICK x : AtHand \subseteq {x}
    BY DEF AtHand
  <2>3. Dropped' \subseteq Dropped \union {x}
    BY <2>1, <2>2 DEF ledger, Dropped, Stranded, Created, Queued
  <2>4. IsFiniteSet(Dropped \union {x}) /\ Cardinality(Dropped \union {x}) <= Cardinality(Dropped) + 1
    BY <1>0, FS_AddElement DEF StrandInv
  <2>5. /\ IsFiniteSet(Dropped') /\ Cardinality(Dropped') <= Cardinality(Dropped \union {x})
        /\ Cardinality(Dropped') \in Nat /\ Cardinality(Dropped \union {x}) \in Nat
    BY <2>3, <2>4, FS_Subset, FS_CardinalityType
  <2> QED BY <1>0, <2>1, <2>4, <2>5 DEF StrandInv
<1>2. CASE ~Crash
  <2>1. Dropped' \subseteq Dropped
    BY <1>2, DroppedStep
  <2>2. /\ IsFiniteSet(Dropped') /\ Cardinality(Dropped') <= Cardinality(Dropped)
        /\ Cardinality(Dropped') \in Nat
    BY <2>1, FS_Subset, FS_CardinalityType DEF StrandInv
  <2>3. crashes' = crashes
    BY <1>2 DEF Next, Arrive, Sleep, JobStep, Claim, NotifyAccepted, NotAnnounced, Fallback, End,
       NotifyEnd, Retry, PassStep, GiveUp, Ask, RollUpParent, AfterFirstPass, Reschedule,
       Terminalize, RetryOver, Telegram, Take, Answered, AnswerLost, Refused, Recover, vars
  <2> QED BY <1>0, <2>2, <2>3 DEF StrandInv
<1> QED BY <1>1, <1>2

\* The worker never drops a notification with attempts to spare: when it is idle, a
\* notification no retry job waits for stands for a crash of its own.
THEOREM StrandedOnlyByCrash == Spec => []StrandedByCrash
<1>1. Init => QueueInv
  BY DEF Init, QueueInv, TakenInOrder, RetriesOK, Retries, ToldOnce, Created, Passing
<1>2. Init => StrandInv
  <2> SUFFICES ASSUME Init PROVE StrandInv
    OBVIOUS
  <2>1. Dropped = {}
    BY DEF Init, Dropped, Stranded, Created
  <2> QED BY <2>1, FS_EmptySet DEF StrandInv, Init
<1>3. QueueInv /\ StrandInv => StrandedByCrash
  <2> SUFFICES ASSUME StrandInv, pc = "idle" PROVE Cardinality(Stranded) <= crashes
    BY DEF StrandedByCrash
  <2>1. Dropped = Stranded
    BY DEF Dropped, AtHand, Passing
  <2> QED BY <2>1 DEF StrandInv
<1> QED BY <1>1, <1>2, <1>3, QueueStep, StrandStep, Invariance, PTL DEF Spec

-----------------------------------------------------------------------------
(* The splitter.                                                           *)

LEMMA Ceil ==
  ASSUME NEW n \in Nat, NEW d \in Nat \ {0}
  PROVE  /\ CeilDiv(n, d) \in Nat
         /\ CeilDiv(n, d) * d >= n
         /\ n > 0 => CeilDiv(n, d) > 0 /\ (CeilDiv(n, d) - 1) * d < n
<1> DEFINE m == n + d - 1
           q == m \div d
<1>1. m \in Nat
  OBVIOUS
<1>2. q \in Nat /\ q * d <= m /\ m < (q + 1) * d
  BY <1>1
<1> QED
  BY <1>2 DEF CeilDiv

LEMMA CeilMonotone ==
  ASSUME NEW n \in Nat \ {0}, NEW d \in Nat \ {0}, NEW e \in Nat \ {0}, d <= e
  PROVE  CeilDiv(n, e) <= CeilDiv(n, d)
<1> DEFINE p == CeilDiv(n, d)
           q == CeilDiv(n, e)
<1>0. n \in Nat /\ n > 0
  OBVIOUS
<1>1. /\ p \in Nat /\ p * d >= n
      /\ q \in Nat /\ q > 0 /\ (q - 1) * e < n
  <2>1. p \in Nat /\ p * d >= n
    BY <1>0, Ceil
  <2>2. q \in Nat /\ q > 0 /\ (q - 1) * e < n
    BY <1>0, Ceil
  <2> QED
    BY <2>1, <2>2
<1> HIDE DEF p, q
<1>2. p * e >= p * d
  BY <1>1
<1>3. ASSUME q > p PROVE FALSE
  <2>1. q - 1 >= p /\ q - 1 \in Nat
    BY <1>1, <1>3
  <2>2. (q - 1) * e >= p * e
    BY <1>1, <2>1
  <2> QED
    BY <1>1, <1>2, <2>2
<1> QED
  BY <1>1, <1>3 DEF p, q

LEMMA WidthsAgree ==
  ASSUME NEW len \in Nat, NEW size \in Nat, size > Reserved, len > size,
         Rough(len, size) < ManyChunks
  PROVE  /\ Adjusted(len, size) \in Nat \ {0}
         /\ Adjusted(len, size) = size - SuffixLength(Rough(len, size))
         /\ CeilDiv(len, Adjusted(len, size)) <= Rough(len, size)
<1> DEFINE e == size - Reserved
           r == Rough(len, size)
           w == Adjusted(len, size)
<1>1. e \in Nat \ {0} /\ AtLeastOne(e) = e /\ len \in Nat \ {0}
  BY DEF Reserved, AtLeastOne
<1>2. r = CeilDiv(len, e) /\ r \in Nat
  BY <1>1, Ceil DEF Rough
<1>3. SuffixLength(r) \in 0 .. Reserved
  BY <1>2 DEF SuffixLength, Digits, Reserved
<1>4. w = size - SuffixLength(r) /\ w \in Nat \ {0} /\ e <= w
  BY <1>3 DEF Adjusted, AtLeastOne, Reserved
<1> HIDE DEF e, r, w
<1>5. CeilDiv(len, w) <= CeilDiv(len, e)
  BY <1>1, <1>4, CeilMonotone
<1> QED
  BY <1>2, <1>4, <1>5 DEF r, w

LEMMA MarkersFit ==
  ASSUME NEW i \in Nat, NEW n \in Nat, NEW r \in Nat, i <= n, n <= r, r < ManyChunks
  PROVE  4 + Digits(i) + Digits(n) <= SuffixLength(r)
  BY DEF Digits, SuffixLength, ManyChunks

(* A text of any length is cut, for any size of a message that leaves room  *)
(* for a marker and as long as there are fewer than ManyChunks, into chunks *)
(* that carry it whole and in order and that fit with their markers,        *)
(* although the markers' width is only estimated (splitForTelegram).        *)
THEOREM SplitSound ==
  ASSUME NEW len \in Nat, NEW size \in Nat, size > Reserved, Rough(len, size) < ManyChunks
  PROVE  CarriesText(Split(len, size), len) /\ EachFits(Split(len, size), size)
<1>1. CASE len <= size
  <2>1. Split(len, size) = <<[from |-> 0, upto |-> len, marker |-> 0]>>
    BY <1>1 DEF Split
  <2> QED
    BY <1>1, <2>1 DEF CarriesText, EachFits
<1>2. CASE len > size
  <2> DEFINE r == Rough(len, size)
             w == Adjusted(len, size)
             n == CeilDiv(len, w)
             s == Split(len, size)
  <2>1. w \in Nat \ {0} /\ w = size - SuffixLength(r) /\ n <= r
    BY <1>2, WidthsAgree
  <2>2. r \in Nat
    <3>1. size - Reserved \in Nat \ {0} /\ AtLeastOne(size - Reserved) = size - Reserved
      BY DEF Reserved, AtLeastOne
    <3> QED
      BY <3>1, Ceil DEF Rough
  <2>3. n \in Nat /\ n * w >= len /\ n > 0 /\ (n - 1) * w < len
    BY <1>2, <2>1, Ceil
  <2>4. s = [i \in 1 .. n |-> ChunkAt(i, n, w, len)]
    BY <1>2 DEF Split
  <2> HIDE DEF r, w, n, s
  <2>5. Len(s) = n /\ DOMAIN s = 1 .. n /\ s # <<>>
    BY <2>3, <2>4
  <2>6. ASSUME NEW i \in 1 .. n
        PROVE  /\ s[i].from = (i - 1) * w
               /\ s[i].upto = IF i * w < len THEN i * w ELSE len
               /\ s[i].marker = 4 + Digits(i) + Digits(n)
               /\ (i - 1) * w < len
               /\ i * w = (i - 1) * w + w /\ i * w \in Nat /\ (i - 1) * w \in Nat
    <3>1. s[i] = ChunkAt(i, n, w, len)
      BY <2>4
    <3>2. /\ s[i].from = (i - 1) * w
          /\ s[i].upto = IF i * w < len THEN i * w ELSE len
          /\ s[i].marker = 4 + Digits(i) + Digits(n)
      <4> DEFINE a == (i - 1) * w
                 b == IF i * w < len THEN i * w ELSE len
                 c == 4 + Digits(i) + Digits(n)
      <4>1. s[i] = [from |-> a, upto |-> b, marker |-> c]
        BY <3>1 DEF ChunkAt
      <4> HIDE DEF a, b, c
      <4>2. s[i].from = a /\ s[i].upto = b /\ s[i].marker = c
        BY <4>1
      <4> QED
        BY <4>2, Zenon DEF a, b, c
    <3>3. (i - 1) * w <= (n - 1) * w /\ (n - 1) * w \in Nat
      BY <2>1, <2>3
    <3>4. i * w = (i - 1) * w + w /\ i * w \in Nat /\ (i - 1) * w \in Nat
      BY <2>1, <2>3
    <3> QED
      BY <2>3, <3>2, <3>3, <3>4
  <2>7. CarriesText(s, len)
    <3>1. s[1].from = 0
      <4>1. 1 \in 1 .. n /\ (1 - 1) * w = 0
        BY <2>1, <2>3
      <4> QED
        BY <2>6, <4>1
    <3>2. s[n].upto = len
      BY <2>3, <2>6
    <3>3. ASSUME NEW i \in 1 .. n - 1 PROVE s[i].upto = s[i + 1].from
      <4>1. i \in 1 .. n /\ i + 1 \in 1 .. n /\ (i + 1) - 1 = i
        BY <2>3
      <4>2. i * w < len
        BY <2>6, <4>1
      <4> QED
        BY <2>6, <4>1, <4>2
    <3>4. ASSUME NEW i \in 1 .. n PROVE s[i].from <= s[i].upto
      BY <2>1, <2>6
    <3> QED
      BY <2>5, <3>1, <3>2, <3>3, <3>4 DEF CarriesText
  <2>8. EachFits(s, size)
    <3>1. ASSUME NEW i \in 1 .. n PROVE s[i].upto - s[i].from + s[i].marker <= size
      <4>1. s[i].upto - s[i].from <= w /\ s[i].upto - s[i].from \in Int
        BY <2>1, <2>6
      <4>2. s[i].marker = 4 + Digits(i) + Digits(n)
        BY <2>6
      <4>3. s[i].marker <= SuffixLength(r) /\ s[i].marker \in Nat /\ SuffixLength(r) \in Nat
        <5>1. r < ManyChunks
          BY DEF r
        <5>2. s[i].marker <= SuffixLength(r)
          BY <2>1, <2>2, <2>3, <4>2, <5>1, MarkersFit
        <5> QED
          BY <4>2, <5>2 DEF Digits, SuffixLength
      <4> QED
        BY <2>1, <4>1, <4>3
    <3> QED
      BY <2>5, <3>1 DEF EachFits
  <2> QED
    BY <2>7, <2>8 DEF s
<1> QED
  BY <1>1, <1>2

-----------------------------------------------------------------------------
(* The bytes, and the lines they are decoded to.                           *)

Chars == [line : Nat, part : {"a1", "a2", "b", "newline"}]

(* The three characters of line i + 1.                                     *)
LEMMA Characters ==
  ASSUME NEW i \in Nat
  PROVE  /\ Character(3 * i + 1) = [line |-> i + 1, part |-> "a2"]
         /\ Character(3 * i + 2) = [line |-> i + 1, part |-> "b"]
         /\ Character(3 * i + 3) = [line |-> i + 1, part |-> "newline"]
<1>1. ASSUME NEW r \in {1, 2, 3}
      PROVE  Character(3 * i + r) = [line |-> 1 + i, part |-> Parts[1 + r]]
  <2>1. (3 * i + r - 1) \div 3 = i /\ (3 * i + r - 1) % 3 = r - 1
    OBVIOUS
  <2>2. Character(3 * i + r) = Byte(4 * i + 2 + (r - 1))
    BY <2>1 DEF Character
  <2>3. (4 * i + 2 + (r - 1) - 1) \div 4 = i /\ (4 * i + 2 + (r - 1) - 1) % 4 = r
    OBVIOUS
  <2> QED BY <2>2, <2>3 DEF Byte
<1>2. Parts[2] = "a2" /\ Parts[3] = "b" /\ Parts[4] = "newline"
  BY DEF Parts
<1>3. 1 + i = i + 1
  OBVIOUS
<1> QED
  <2>1. Character(3 * i + 1) = [line |-> 1 + i, part |-> Parts[1 + 1]]
    BY <1>1
  <2>2. Character(3 * i + 2) = [line |-> 1 + i, part |-> Parts[1 + 2]]
    BY <1>1
  <2>3. Character(3 * i + 3) = [line |-> 1 + i, part |-> Parts[1 + 3]]
    BY <1>1
  <2> QED BY <1>2, <1>3, <2>1, <2>2, <2>3

LEMMA InThrees == ASSUME NEW k \in Nat \ {0} PROVE \E i \in Nat : \E r \in {1, 2, 3} : k = 3 * i + r
<1>1. (k - 1) \div 3 \in Nat /\ k = 3 * ((k - 1) \div 3) + ((k - 1) % 3) + 1 /\ (k - 1) % 3 \in 0 .. 2
  OBVIOUS
<1>2. ((k - 1) % 3) + 1 \in {1, 2, 3}
  BY <1>1
<1> QED BY <1>1, <1>2

LEMMA CharacterType == ASSUME NEW k \in Nat \ {0} PROVE Character(k) \in Chars
<1> PICK i \in Nat, r \in {1, 2, 3} : k = 3 * i + r
  BY InThrees
<1> PICK l \in Nat : l = i + 1
  OBVIOUS
<1>0. \A part \in {"a2", "b", "newline"} : [line |-> l, part |-> part] \in Chars
  BY DEF Chars
<1>1. /\ Character(3 * i + 1) \in Chars /\ Character(3 * i + 2) \in Chars
      /\ Character(3 * i + 3) \in Chars
  BY <1>0, Characters
<1>2. k = 3 * i + 1 \/ k = 3 * i + 2 \/ k = 3 * i + 3
  OBVIOUS
<1> QED BY <1>1, <1>2

LEMMA DecodableType == ASSUME NEW p \in Nat PROVE Decodable(p) \in Nat
  BY DEF Decodable

LEMMA DecodableGrows ==
  ASSUME NEW p \in Nat, NEW q \in Nat, p <= q PROVE Decodable(p) <= Decodable(q)
  BY DEF Decodable

LEMMA DecodableInFours ==
  ASSUME NEW i \in Nat
  PROVE  /\ Decodable(4 * i) = 3 * i /\ Decodable(4 * i + 1) = 3 * i
         /\ Decodable(4 * i + 2) = 3 * i + 1 /\ Decodable(4 * i + 3) = 3 * i + 2
<1>1. /\ (4 * i) \div 4 = i /\ (4 * i) % 4 = 0 /\ (4 * i + 1) \div 4 = i /\ (4 * i + 1) % 4 = 1
      /\ (4 * i + 2) \div 4 = i /\ (4 * i + 2) % 4 = 2 /\ (4 * i + 3) \div 4 = i /\ (4 * i + 3) % 4 = 3
  OBVIOUS
<1> QED BY <1>1 DEF Decodable

-----------------------------------------------------------------------------
(* What the CLI wrote does not change.                                     *)

CliInv ==
  /\ cli.lines \in [Streams -> Seq(Lines)] /\ cli.cut \in [Streams -> 0 .. 3]
  /\ \A s \in Streams : cli.lines[s] = <<>> => cli.cut[s] = 0

LEMMA Bytes ==
  ASSUME CliInv, NEW s \in Streams, NEW n, n = Len(cli.lines[s])
  PROVE  /\ n \in Nat /\ Written(s) \in Nat
         /\ n = 0 => Decodable(Written(s)) = 0
         /\ n > 0 /\ cli.cut[s] = 0 => Decodable(Written(s)) = 3 * n
         /\ n > 0 /\ cli.cut[s] = 1 => Decodable(Written(s)) = 3 * n - 1
         /\ n > 0 /\ cli.cut[s] = 2 => Decodable(Written(s)) = 3 * n - 2
         /\ n > 0 /\ cli.cut[s] = 3 => Decodable(Written(s)) = 3 * n - 3
<1>1. n \in Nat /\ cli.cut[s] \in 0 .. 3 /\ (n = 0 => cli.cut[s] = 0)
  BY DEF CliInv
<1>2. Written(s) = 4 * n - cli.cut[s]
  BY DEF Written
<1>3. CASE n = 0
  <2>1. Written(s) = 0
    BY <1>1, <1>2, <1>3
  <2>2. Decodable(0) = 0
    BY DEF Decodable
  <2> QED BY <1>1, <1>3, <2>1, <2>2
<1>4. CASE n > 0
  <2> PICK m : m = n - 1
    OBVIOUS
  <2>0. m \in Nat /\ n = m + 1
    BY <1>1, <1>4
  <2>1. CASE cli.cut[s] = 0
    <3>1. Written(s) = 4 * n
      BY <1>1, <1>2, <2>1
    <3> QED BY <1>1, <1>4, <2>1, <3>1, DecodableInFours
  <2>2. CASE cli.cut[s] = 1
    <3>1. Written(s) = 4 * m + 3
      BY <1>1, <1>2, <2>0, <2>2
    <3>2. Decodable(4 * m + 3) = 3 * m + 2
      BY <2>0, DecodableInFours
    <3> QED BY <1>1, <1>4, <2>0, <2>2, <3>1, <3>2
  <2>3. CASE cli.cut[s] = 2
    <3>1. Written(s) = 4 * m + 2
      BY <1>1, <1>2, <2>0, <2>3
    <3>2. Decodable(4 * m + 2) = 3 * m + 1
      BY <2>0, DecodableInFours
    <3> QED BY <1>1, <1>4, <2>0, <2>3, <3>1, <3>2
  <2>4. CASE cli.cut[s] = 3
    <3>1. Written(s) = 4 * m + 1
      BY <1>1, <1>2, <2>0, <2>4
    <3>2. Decodable(4 * m + 1) = 3 * m
      BY <2>0, DecodableInFours
    <3> QED BY <1>1, <1>4, <2>0, <2>4, <3>1, <3>2
  <2> QED BY <1>1, <2>1, <2>2, <2>3, <2>4
<1> QED BY <1>1, <1>3, <1>4

(* LinesWritten, line by line.                                             *)
LEMMA Given ==
  ASSUME CliInv, NEW s \in Streams, NEW n, n = Len(cli.lines[s]), NEW w, w = LinesWritten(s)
  PROVE  /\ n = 0 => Len(w) = 0
         /\ n > 0 => \A i \in 1 .. n - 1 : w[i] = LineChars(i)
         /\ n > 0 /\ cli.cut[s] \in {0, 1} => Len(w) = n /\ w[n] = LineChars(n)
         /\ n > 0 /\ cli.cut[s] = 2 => Len(w) = n /\ w[n] = <<[line |-> n, part |-> "a2"]>>
         /\ n > 0 /\ cli.cut[s] = 3 => Len(w) = n - 1
<1>1. n \in Nat /\ cli.cut[s] \in 0 .. 3
  BY DEF CliInv
<1>2. CASE n = 0
  BY <1>1, <1>2 DEF LinesWritten
<1>3. CASE n > 0
  <2> DEFINE full == [i \in 1 .. n - 1 |-> LineChars(i)]
             end == LastWritten(s)
             T == Seq([line : Nat, part : {"a2", "b"}])
  <2>1. w = full \o end
    BY <1>1, <1>3 DEF LinesWritten
  <2>4. /\ LineChars(n) \in T /\ LineChars(n)[1] = [line |-> n, part |-> "a2"]
        /\ <<[line |-> n, part |-> "a2"]>> \in T
    BY <1>1 DEF LineChars
  <2>2. full \in Seq(T) /\ Len(full) = n - 1 /\ \A i \in 1 .. n - 1 : full[i] = LineChars(i)
    <3>1. \A i \in 1 .. n - 1 : LineChars(i) \in T
      BY <1>1 DEF LineChars
    <3> HIDE DEF T
    <3> QED BY <1>1, <1>3, <3>1
  <2>3. /\ cli.cut[s] \in {0, 1} => end = <<LineChars(n)>>
        /\ cli.cut[s] = 2 => end = <<<<[line |-> n, part |-> "a2"]>>>>
        /\ cli.cut[s] = 3 => end = <<>>
    BY <2>4 DEF LastWritten
  <2> HIDE DEF full, end, T
  <2>6. ASSUME NEW e \in T, end = <<e>> PROVE Len(w) = n /\ w[n] = e /\ \A i \in 1 .. n - 1 : w[i] = LineChars(i)
    BY <1>1, <1>3, <2>1, <2>2, <2>6
  <2>7. ASSUME end = <<>> PROVE Len(w) = n - 1 /\ \A i \in 1 .. n - 1 : w[i] = LineChars(i)
    BY <1>1, <1>3, <2>1, <2>2, <2>7
  <2> QED BY <1>1, <1>3, <2>3, <2>4, <2>6, <2>7
<1> QED BY <1>1, <1>2, <1>3

(* A line that was written is named by its first character.                *)
LEMMA Named ==
  ASSUME CliInv, NEW s \in Streams, NEW i \in 1 .. Len(LinesWritten(s))
  PROVE  /\ i \in 1 .. Len(cli.lines[s]) /\ cli.lines[s][i] \in Lines
         /\ LinesWritten(s)[i] \in Seq(Chars) /\ LinesWritten(s)[i] # <<>>
         /\ LinesWritten(s)[i][1].line = i
<1> PICK n : n = Len(cli.lines[s])
  OBVIOUS
<1> PICK w : w = LinesWritten(s)
  OBVIOUS
<1>0. n \in Nat /\ cli.lines[s] \in Seq(Lines) /\ cli.cut[s] \in 0 .. 3
  BY DEF CliInv
<1>1. /\ n = 0 => Len(w) = 0
      /\ n > 0 => \A j \in 1 .. n - 1 : w[j] = LineChars(j)
      /\ n > 0 /\ cli.cut[s] \in {0, 1} => Len(w) = n /\ w[n] = LineChars(n)
      /\ n > 0 /\ cli.cut[s] = 2 => Len(w) = n /\ w[n] = <<[line |-> n, part |-> "a2"]>>
      /\ n > 0 /\ cli.cut[s] = 3 => Len(w) = n - 1
  BY Given
<1>2. /\ i \in Nat /\ i \in 1 .. n
      /\ w[i] = LineChars(i) \/ w[i] = <<[line |-> i, part |-> "a2"]>>
  BY <1>0, <1>1
<1>3. [line |-> i, part |-> "a2"] \in Chars /\ [line |-> i, part |-> "b"] \in Chars
  BY <1>2 DEF Chars
<1>4. ASSUME NEW a \in Chars, NEW b \in Chars
      PROVE  /\ <<a, b>> \in Seq(Chars) /\ <<a, b>> # <<>> /\ <<a, b>>[1] = a
             /\ <<a>> \in Seq(Chars) /\ <<a>> # <<>> /\ <<a>>[1] = a
  OBVIOUS
<1>5. [line |-> i, part |-> "a2"].line = i
  OBVIOUS
<1>6. w[i] \in Seq(Chars) /\ w[i] # <<>> /\ w[i][1] = [line |-> i, part |-> "a2"]
  BY <1>2, <1>3, <1>4, Zenon DEF LineChars
<1>7. cli.lines[s][i] \in Lines
  BY <1>0, <1>2
<1> QED BY <1>2, <1>5, <1>6, <1>7

-----------------------------------------------------------------------------
(* The invariant.                                                          *)

Event == [stream : Streams, chars : Seq(Chars)]
Count(s) == Cardinality(LinesRead(s, Len(events)))

(* The k-th event is the next line of its stream.                          *)
Placed(k) ==
  LET s == events[k].stream
      n == Cardinality(LinesRead(s, k))
  IN  n \in 1 .. Len(LinesWritten(s)) /\ events[k].chars = LinesWritten(s)[n]

EventsInv == events \in Seq(Event) /\ \A k \in DOMAIN events : Placed(k)

(* The reader that has read p bytes and handed on m lines holds b: what was *)
(* decoded and is in no event.                                             *)
Held(b, m, p) ==
  /\ 3 * m <= Decodable(p) /\ Len(b) = Decodable(p) - 3 * m
  /\ \A k \in 1 .. Len(b) : b[k] = Character(3 * m + k)

Holds(s) == Held(buffer[s], Count(s), read[s])

ReaderInv ==
  /\ read \in [Streams -> Nat] /\ buffer \in [Streams -> Seq(Chars)] /\ ended \subseteq Streams
  /\ \A s \in Streams :
       /\ read[s] <= Written(s)
       /\ s \notin ended => Holds(s)
       /\ s \in ended => buffer[s] = <<>> /\ Count(s) = Len(LinesWritten(s))

TextsInv ==
  /\ length \in Nat /\ texts \in Seq(Nat)
  /\ \A k \in DOMAIN texts : texts[k] \in DOMAIN events /\ Delta(events[texts[k]]) > 0
  /\ length > 0 => \E k \in DOMAIN events : Delta(events[k]) > 0

ResultInv ==
  /\ result.status # "none" =>
       /\ ended = Streams /\ result.size \in Sizes /\ result.len \in Nat
       /\ result.chunks = Split(result.len, result.size)
  /\ result.status = "parsed" => ParserStatus = "parsed"

AnswerInv == CliInv /\ EventsInv /\ ReaderInv /\ TextsInv /\ ResultInv

LEMMA CountType ==
  ASSUME EventsInv, NEW s, NEW k \in Nat
  PROVE  IsFiniteSet(LinesRead(s, k)) /\ Cardinality(LinesRead(s, k)) \in Nat
<1>1. IsFiniteSet(1 .. k)
  BY FS_Interval
<1>2. LinesRead(s, k) \subseteq 1 .. k
  BY DEF LinesRead
<1>3. IsFiniteSet(LinesRead(s, k))
  BY <1>1, <1>2, FS_Subset
<1> QED BY <1>3, FS_CardinalityType

LEMMA CountIsNat == ASSUME EventsInv, NEW s PROVE Count(s) \in Nat
<1>1. Len(events) \in Nat
  BY DEF EventsInv
<1> QED BY <1>1, CountType DEF Count

LEMMA DeltaType ==
  ASSUME CliInv, NEW s \in Streams, NEW i \in 1 .. Len(LinesWritten(s)), NEW e,
         e = [stream |-> s, chars |-> LinesWritten(s)[i]]
  PROVE  Delta(e) \in Nat
<1>1. cli.lines[s][i] \in Lines /\ LinesWritten(s)[i][1].line = i
  BY Named
<1>2. cli.lines[s][i].len \in Nat
  BY <1>1, AnswerAssumption
<1>3. e.stream = s /\ e.chars[1].line = i
  BY <1>1
<1> QED BY <1>2, <1>3 DEF Delta

(* A line is handed on.                                                    *)
LEMMA Pushed ==
  ASSUME CliInv, EventsInv, TextsInv, NEW s \in Streams, NEW chars, Push(s, chars), cli' = cli,
         Count(s) + 1 <= Len(LinesWritten(s)), chars = LinesWritten(s)[Count(s) + 1]
  PROVE  /\ EventsInv' /\ TextsInv' /\ Count(s)' = Count(s) + 1
         /\ \A t \in Streams : t # s => Count(t)' = Count(t)
<1> PICK n : n = Len(events) + 1
  OBVIOUS
<1> PICK c : c = Count(s) + 1
  OBVIOUS
<1> PICK e : e = [stream |-> s, chars |-> chars]
  OBVIOUS
<1>0. /\ events \in Seq(Event) /\ n \in Nat /\ c \in Nat /\ Count(s) \in Nat
      /\ c \in 1 .. Len(LinesWritten(s))
  BY CountIsNat DEF EventsInv
<1>1. e \in Event /\ e.stream = s /\ e.chars = LinesWritten(s)[c]
  <2>1. chars \in Seq(Chars)
    BY <1>0, Named
  <2> QED BY <2>1 DEF Event
<1>2. Delta(e) \in Nat
  BY <1>0, DeltaType
<1>3. /\ events' = Append(events, e) /\ length' = length + Delta(e)
      /\ Delta(e) > 0 => texts' = Append(texts, n)
      /\ ~(Delta(e) > 0) => texts' = texts
  BY DEF Push
<1>4. /\ events' \in Seq(Event) /\ Len(events') = n /\ events'[n] = e
      /\ \A k \in 1 .. Len(events) : events'[k] = events[k]
  BY <1>0, <1>1, <1>3
<1>5. ASSUME NEW t, NEW k \in 0 .. Len(events) PROVE LinesRead(t, k)' = LinesRead(t, k)
  BY <1>0, <1>4 DEF LinesRead
<1>6. LinesRead(s, n)' = LinesRead(s, Len(events)) \cup {n} /\ n \notin LinesRead(s, Len(events))
  BY <1>0, <1>1, <1>4 DEF LinesRead
<1>7. ASSUME NEW t, t # s PROVE LinesRead(t, n)' = LinesRead(t, Len(events))
  BY <1>0, <1>1, <1>4, <1>7 DEF LinesRead
<1>8. Cardinality(LinesRead(s, n)') = c
  <2>1. IsFiniteSet(LinesRead(s, Len(events)))
    BY <1>0, CountType
  <2> QED BY <1>6, <2>1, FS_AddElement DEF Count
<1>9. Count(s)' = c /\ \A t \in Streams : t # s => Count(t)' = Count(t)
  BY <1>4, <1>7, <1>8 DEF Count
<1>10. EventsInv'
  <2>1. ASSUME NEW k \in 1 .. n PROVE Placed(k)'
    <3>1. CASE k = n
      <4>1. events'[k].stream = s /\ events'[k].chars = LinesWritten(s)[c]
        BY <1>1, <1>4, <3>1
      <4>2. Cardinality(LinesRead(s, k)') = c
        BY <1>8, <3>1
      <4>3. LinesWritten(s)' = LinesWritten(s)
        BY DEF LinesWritten, LastWritten
      <4> QED BY <1>0, <4>1, <4>2, <4>3 DEF Placed
    <3>2. CASE k # n
      <4>1. k \in 1 .. Len(events) /\ events'[k] = events[k] /\ Placed(k)
        BY <1>0, <1>4, <3>2 DEF EventsInv
      <4>2. \A t : LinesRead(t, k)' = LinesRead(t, k)
        BY <1>5, <4>1
      <4>3. \A t : LinesWritten(t)' = LinesWritten(t)
        BY DEF LinesWritten, LastWritten
      <4> QED BY <4>1, <4>2, <4>3 DEF Placed
    <3> QED BY <3>1, <3>2
  <2> QED BY <1>4, <2>1 DEF EventsInv
<1>11. TextsInv'
  <2>0. length \in Nat /\ texts \in Seq(Nat)
    BY DEF TextsInv
  <2>1. \A x : Delta(x)' = Delta(x)
    BY DEF Delta, Kind
  <2> PICK d \in Nat : d = Delta(e)
    BY <1>2
  <2>2. length' \in Nat /\ texts' \in Seq(Nat)
    <3>1. length' = length + d /\ (texts' = texts \/ texts' = Append(texts, n))
      BY <1>3
    <3>2. length' \in Nat
      BY <2>0, <3>1
    <3>3. Append(texts, n) \in Seq(Nat)
      BY <1>0, <2>0
    <3> QED BY <2>0, <3>1, <3>2, <3>3
  <2>3. ASSUME NEW k \in DOMAIN texts' PROVE texts'[k] \in 1 .. n /\ Delta(events'[texts'[k]]) > 0
    <3>1. CASE k \in DOMAIN texts /\ texts'[k] = texts[k]
      <4>1. texts[k] \in 1 .. Len(events) /\ Delta(events[texts[k]]) > 0
        BY <1>0, <3>1 DEF TextsInv
      <4> QED BY <1>0, <1>4, <3>1, <4>1
    <3>2. CASE texts'[k] = n /\ Delta(e) > 0
      BY <1>0, <1>4, <3>2
    <3>3. CASE texts' = texts
      BY <2>3, <3>1, <3>3
    <3>4. CASE texts' = Append(texts, n) /\ Delta(e) > 0
      <4>1. k \in DOMAIN texts \/ k = Len(texts) + 1
        BY <1>0, <2>0, <2>3, <3>4
      <4>2. k \in DOMAIN texts => texts'[k] = texts[k]
        BY <1>0, <2>0, <3>4
      <4>3. texts'[Len(texts) + 1] = n
        BY <1>0, <2>0, <3>4
      <4> QED BY <3>1, <3>2, <3>4, <4>1, <4>2, <4>3
    <3> QED BY <1>3, <3>3, <3>4
  <2>4. ASSUME length' > 0 PROVE \E k \in 1 .. n : Delta(events'[k]) > 0
    <3>1. CASE Delta(e) > 0
      BY <1>0, <1>4, <3>1
    <3>2. CASE ~(Delta(e) > 0)
      <4>1. length > 0
        <5>1. d = 0
          BY <3>2
        <5> QED BY <1>3, <2>0, <2>4, <5>1
      <4>2. PICK k \in 1 .. Len(events) : Delta(events[k]) > 0
        <5>1. DOMAIN events = 1 .. Len(events)
          BY <1>0
        <5> QED BY <4>1, <5>1 DEF TextsInv
      <4> QED BY <1>0, <1>4, <4>2
    <3> QED BY <3>1, <3>2
  <2>5. DOMAIN events' = 1 .. n
    BY <1>4
  <2> QED BY <2>1, <2>2, <2>3, <2>4, <2>5 DEF TextsInv
<1> QED BY <1>9, <1>10, <1>11

-----------------------------------------------------------------------------
(* The readers.                                                            *)

(* The reader of s moves on, and the others see nothing of it.              *)
LEMMA ReaderMoves ==
  ASSUME ReaderInv, NEW s \in Streams, cli' = cli,
         NEW p \in Nat, NEW b \in Seq(Chars), NEW x \in {{}, {s}},
         read' = [read EXCEPT ![s] = p], buffer' = [buffer EXCEPT ![s] = b], ended' = ended \cup x,
         p <= Written(s), s \notin ended' => Holds(s)',
         s \in ended' => b = <<>> /\ Count(s)' = Len(LinesWritten(s)),
         \A t \in Streams : t # s => Count(t)' = Count(t)
  PROVE  ReaderInv'
<1>1. /\ read' \in [Streams -> Nat] /\ buffer' \in [Streams -> Seq(Chars)] /\ ended' \subseteq Streams
      /\ read'[s] = p /\ buffer'[s] = b
      /\ \A t \in Streams : t # s => read'[t] = read[t] /\ buffer'[t] = buffer[t] /\ (t \in ended' <=> t \in ended)
  BY DEF ReaderInv
<1>2. \A t : LinesWritten(t)' = LinesWritten(t) /\ Written(t)' = Written(t)
  BY DEF LinesWritten, LastWritten, Written
<1>3. ASSUME NEW t \in Streams
      PROVE  /\ read'[t] <= Written(t)'
             /\ t \notin ended' => Holds(t)'
             /\ t \in ended' => buffer'[t] = <<>> /\ Count(t)' = Len(LinesWritten(t)')
  <2>1. CASE t = s
    BY <1>1, <1>2, <2>1
  <2>2. CASE t # s
    <3>1. Holds(t)' <=> Holds(t)
      BY <1>1, <2>2 DEF Holds
    <3> QED BY <1>1, <1>2, <2>2, <3>1 DEF ReaderInv
  <2> QED BY <2>1, <2>2
<1> QED BY <1>1, <1>3 DEF ReaderInv

LEMMA DecodedType ==
  ASSUME NEW p \in Nat, NEW q \in Nat, p <= q
  PROVE  /\ Decoded(p, q) \in Seq(Chars) /\ Len(Decoded(p, q)) = Decodable(q) - Decodable(p)
         /\ \A k \in 1 .. Decodable(q) - Decodable(p) : Decoded(p, q)[k] = Character(Decodable(p) + k)
<1>1. Decodable(p) \in Nat /\ Decodable(q) \in Nat /\ Decodable(p) <= Decodable(q)
  BY DecodableType, DecodableGrows
<1>2. \A k \in 1 .. Decodable(q) - Decodable(p) : Character(Decodable(p) + k) \in Chars
  BY <1>1, CharacterType
<1> PICK n \in Nat : n = Decodable(q) - Decodable(p)
  BY <1>1
<1>3. Decoded(p, q) = [k \in 1 .. n |-> Character(Decodable(p) + k)]
  BY DEF Decoded
<1> QED BY <1>1, <1>2, <1>3

LEMMA Shifted ==
  ASSUME NEW m \in Nat, NEW p \in Nat, NEW q \in Nat, NEW k \in Nat, NEW h, 3 * m <= p,
         h = p - 3 * m, k > h, k <= q - 3 * m
  PROVE  k - h \in 1 .. q - p /\ p + (k - h) = 3 * m + k
  OBVIOUS

LEMMA Glued ==
  ASSUME NEW S, NEW x \in Seq(S), NEW y \in Seq(S)
  PROVE  /\ x \o y \in Seq(S) /\ Len(x \o y) \in Nat /\ Len(x \o y) = Len(x) + Len(y)
         /\ \A k \in 1 .. Len(x) : (x \o y)[k] = x[k]
         /\ \A k \in Len(x) + 1 .. Len(x \o y) : (x \o y)[k] = y[k - Len(x)]
  OBVIOUS

(* What the reader holds and what it reads make up what it holds then.      *)
LEMMA ReadOn ==
  ASSUME NEW m \in Nat, NEW p \in Nat, NEW q \in Nat, p <= q, NEW x \in Seq(Chars),
         Held(x, m, p), NEW b, b = x \o Decoded(p, q)
  PROVE  b \in Seq(Chars) /\ Held(b, m, q)
<1> PICK y : y = Decoded(p, q)
  OBVIOUS
<1> DEFINE f == Decodable(p)
           t == Decodable(q)
<1>1. y \in Seq(Chars) /\ Len(y) = t - f /\ \A k \in 1 .. t - f : y[k] = Character(f + k)
  BY DecodedType
<1>2. f \in Nat /\ t \in Nat /\ f <= t
  BY DecodableType, DecodableGrows
<1>3. 3 * m <= f /\ Len(x) = f - 3 * m /\ \A k \in 1 .. Len(x) : x[k] = Character(3 * m + k)
  BY DEF Held
<1> HIDE DEF f, t
<1>4. /\ x \o y \in Seq(Chars) /\ Len(x \o y) \in Nat /\ Len(x \o y) = Len(x) + Len(y)
      /\ \A k \in 1 .. Len(x) : (x \o y)[k] = x[k]
      /\ \A k \in Len(x) + 1 .. Len(x \o y) : (x \o y)[k] = y[k - Len(x)]
  <2>1. y \in Seq(Chars)
    BY <1>1
  <2> QED BY <2>1, Glued
<1>5. b = x \o y
  OBVIOUS
<1>6. /\ b \in Seq(Chars) /\ Len(b) \in Nat /\ Len(b) = Len(x) + Len(y)
      /\ \A k \in 1 .. Len(x) : b[k] = x[k]
      /\ \A k \in Len(x) + 1 .. Len(b) : b[k] = y[k - Len(x)]
  BY <1>4, <1>5, Zenon
<1> PICK h \in Nat : h = Len(x)
  OBVIOUS
<1> PICK l \in Nat : l = Len(b)
  BY <1>6
<1>7. l = t - 3 * m /\ h = f - 3 * m /\ 3 * m <= t
  <2>1. l = h + Len(y) /\ Len(y) = t - f /\ h = f - 3 * m /\ 3 * m <= f
    BY <1>1, <1>3, <1>6
  <2> QED BY <1>2, <2>1
<1>8. ASSUME NEW k \in Nat, 1 <= k, k <= h PROVE b[k] = Character(3 * m + k)
  BY <1>3, <1>6, <1>8
<1>9. ASSUME NEW k \in Nat, k > h, k <= l PROVE b[k] = Character(3 * m + k)
  <2>1. k - h \in 1 .. t - f /\ f + (k - h) = 3 * m + k
    BY <1>2, <1>7, <1>9
  <2>2. b[k] = y[k - h]
    <3>1. k \in h + 1 .. l
      BY <1>9
    <3> QED BY <1>6, <3>1
  <2> QED BY <1>1, <2>1, <2>2
<1>10. \A k \in 1 .. l : b[k] = Character(3 * m + k)
  <2>1. \A k \in 1 .. l : k \in Nat /\ 1 <= k /\ k <= l /\ (k <= h \/ k > h)
    OBVIOUS
  <2> QED BY <1>8, <1>9, <2>1
<1> QED BY <1>6, <1>7, <1>10 DEF t, Held

LEMMA ReadKeeps == ASSUME AnswerInv, NEW s \in Streams, Read(s) PROVE AnswerInv'
<1> PICK m : m = Count(s)
  OBVIOUS
<1> PICK p : p = read[s]
  OBVIOUS
<1>1. PICK q \in p + 1 .. Written(s) :
        /\ read' = [read EXCEPT ![s] = q]
        /\ buffer' = [buffer EXCEPT ![s] = buffer[s] \o Decoded(p, q)]
  BY DEF Read, AnswerInv, ReaderInv
<1>2. UNCHANGED <<cli, ended, events, texts, length, result>> /\ s \notin ended
  BY DEF Read, assembler
<1>3. /\ CliInv /\ EventsInv /\ ReaderInv /\ m \in Nat /\ p \in Nat /\ Written(s) \in Nat
      /\ q \in Nat /\ p <= q /\ q <= Written(s)
  <2>1. CliInv /\ EventsInv /\ ReaderInv
    BY DEF AnswerInv
  <2>2. m \in Nat /\ p \in Nat /\ Written(s) \in Nat
    BY <2>1, CountIsNat, Bytes DEF ReaderInv
  <2> QED BY <2>1, <2>2
<1> PICK x : x = buffer[s]
  OBVIOUS
<1> PICK b : b = x \o Decoded(p, q)
  OBVIOUS
<1>4. x \in Seq(Chars) /\ Held(x, m, p)
  BY <1>2, <1>3 DEF ReaderInv, Holds
<1>5. m \in Nat /\ p \in Nat /\ q \in Nat /\ p <= q
  BY <1>3
<1>6. b \in Seq(Chars) /\ Held(b, m, q)
  BY <1>4, <1>5, ReadOn, Zenon
<1>8. \A t : Count(t)' = Count(t)
  BY <1>2 DEF Count, LinesRead
<1>9. ReaderInv'
  <2>1. buffer' = [buffer EXCEPT ![s] = b] /\ ended' = ended \cup {} /\ s \notin ended'
    BY <1>1, <1>2
  <2>2. read'[s] = q /\ buffer'[s] = b
    BY <1>1, <1>3, <2>1 DEF ReaderInv
  <2>3. Holds(s)'
    BY <1>6, <1>8, <2>2 DEF Holds
  <2> QED BY <1>1, <1>2, <1>3, <1>6, <1>8, <2>1, <2>3, ReaderMoves
<1>10. CliInv' /\ EventsInv' /\ TextsInv' /\ ResultInv'
  <2>1. CliInv'
    BY <1>2, <1>3 DEF CliInv
  <2>2. EventsInv'
    BY <1>2, <1>3 DEF EventsInv, Placed, LinesRead, LinesWritten, LastWritten
  <2>3. TextsInv'
    BY <1>2 DEF AnswerInv, TextsInv, Delta, Kind
  <2>4. ResultInv'
    BY <1>2 DEF AnswerInv, ResultInv, ParserStatus, SawEnd, Kind
  <2> QED BY <2>1, <2>2, <2>3, <2>4
<1> QED BY <1>9, <1>10 DEF AnswerInv

LEMMA CharacterParts ==
  ASSUME NEW i \in Nat
  PROVE  /\ Character(3 * i + 1).part = "a2" /\ Character(3 * i + 2).part = "b"
         /\ Character(3 * i + 3).part = "newline"
<1>1. /\ [line |-> i + 1, part |-> "a2"].part = "a2" /\ [line |-> i + 1, part |-> "b"].part = "b"
      /\ [line |-> i + 1, part |-> "newline"].part = "newline"
  OBVIOUS
<1>2. Character(3 * i + 1).part = "a2"
  BY <1>1, Characters
<1>3. Character(3 * i + 2).part = "b"
  BY <1>1, Characters
<1>4. Character(3 * i + 3).part = "newline"
  BY <1>1, Characters
<1> QED BY <1>2, <1>3, <1>4

LEMMA SameSeq ==
  ASSUME NEW S, NEW c \in Seq(S), NEW d \in Seq(S), Len(c) = Len(d), \A i \in 1 .. Len(c) : c[i] = d[i]
  PROVE  c = d
  OBVIOUS

LEMMA TwoOf ==
  ASSUME NEW S, NEW b \in Seq(S), Len(b) >= 2 PROVE SubSeq(b, 1, 2) = <<b[1], b[2]>>
<1> PICK c : c = SubSeq(b, 1, 2)
  OBVIOUS
<1> PICK d : d = <<b[1], b[2]>>
  OBVIOUS
<1>1. c \in Seq(S) /\ Len(c) = 2 /\ c[1] = b[1] /\ c[2] = b[2]
  OBVIOUS
<1>2. d \in Seq(S) /\ Len(d) = 2 /\ d[1] = b[1] /\ d[2] = b[2]
  OBVIOUS
<1>3. \A i \in 1 .. 2 : c[i] = d[i]
  <2>1. \A i \in 1 .. 2 : i = 1 \/ i = 2
    OBVIOUS
  <2> QED BY <1>1, <1>2, <2>1
<1>4. c = d
  BY <1>1, <1>2, <1>3, SameSeq
<1> QED BY <1>4

(* The first newline a reader holds ends the next line of its stream.       *)
LEMMA FirstNewline ==
  ASSUME NEW b \in Seq(Chars), NEW m \in Nat, \A k \in 1 .. Len(b) : b[k] = Character(3 * m + k)
  PROVE  /\ \A k \in Newlines(b) : k \in Nat /\ k >= 3
         /\ Len(b) >= 3 => 3 \in Newlines(b)
<1>1. Len(b) \in Nat /\ DOMAIN b = 1 .. Len(b)
  OBVIOUS
<1>2. ASSUME NEW k \in Newlines(b) PROVE k \in Nat /\ k >= 3
  <2>1. k \in 1 .. Len(b) /\ b[k].part = "newline" /\ b[k] = Character(3 * m + k)
    BY <1>1 DEF Newlines
  <2>2. Character(3 * m + 1).part = "a2" /\ Character(3 * m + 2).part = "b"
    BY CharacterParts
  <2>3. k # 1 /\ k # 2
    BY <2>1, <2>2
  <2> QED BY <1>1, <2>1, <2>3
<1>3. ASSUME Len(b) >= 3 PROVE 3 \in Newlines(b)
  <2>1. 3 \in 1 .. Len(b)
    BY <1>1, <1>3
  <2>2. Character(3 * m + 3).part = "newline"
    BY CharacterParts
  <2> QED BY <1>1, <2>1, <2>2 DEF Newlines
<1> QED BY <1>2, <1>3

(* The next line has been decoded to its end: it was written.              *)
LEMMA NextWritten ==
  ASSUME CliInv, NEW s \in Streams, NEW p \in Nat, p <= Written(s), NEW m \in Nat,
         3 * m + 3 <= Decodable(p)
  PROVE  m + 1 <= Len(LinesWritten(s)) /\ LinesWritten(s)[m + 1] = LineChars(m + 1)
<1> PICK n : n = Len(cli.lines[s])
  OBVIOUS
<1> PICK w : w = LinesWritten(s)
  OBVIOUS
<1> PICK d : d = Decodable(Written(s))
  OBVIOUS
<1>1. /\ n \in Nat /\ Written(s) \in Nat /\ cli.cut[s] \in 0 .. 3
      /\ n = 0 => d = 0
      /\ n > 0 /\ cli.cut[s] = 0 => d = 3 * n
      /\ n > 0 /\ cli.cut[s] = 1 => d = 3 * n - 1
      /\ n > 0 /\ cli.cut[s] = 2 => d = 3 * n - 2
      /\ n > 0 /\ cli.cut[s] = 3 => d = 3 * n - 3
  BY Bytes DEF CliInv
<1>2. /\ n = 0 => Len(w) = 0
      /\ n > 0 => \A i \in 1 .. n - 1 : w[i] = LineChars(i)
      /\ n > 0 /\ cli.cut[s] \in {0, 1} => Len(w) = n /\ w[n] = LineChars(n)
      /\ n > 0 /\ cli.cut[s] = 2 => Len(w) = n /\ w[n] = <<[line |-> n, part |-> "a2"]>>
      /\ n > 0 /\ cli.cut[s] = 3 => Len(w) = n - 1
  BY Given
<1>3. 3 * m + 3 <= d /\ d \in Nat
  <2>1. Decodable(p) <= d /\ Decodable(p) \in Nat /\ d \in Nat
    BY <1>1, DecodableGrows, DecodableType
  <2> QED BY <2>1
<1>4. n > 0 /\ m + 1 <= n
  BY <1>1, <1>3
<1>5. CASE cli.cut[s] = 0
  BY <1>1, <1>2, <1>4, <1>5
<1>6. CASE cli.cut[s] # 0
  <2>1. m + 1 <= n - 1
    BY <1>1, <1>3, <1>4, <1>6
  <2>2. n - 1 <= Len(w)
    BY <1>1, <1>2, <1>4
  <2>3. w[m + 1] = LineChars(m + 1)
    BY <1>1, <1>2, <1>4, <2>1
  <2>4. Len(w) = n \/ Len(w) = n - 1
    BY <1>1, <1>2, <1>4
  <2> QED BY <1>1, <2>1, <2>3, <2>4
<1> QED BY <1>5, <1>6

LEMMA YieldKeeps == ASSUME AnswerInv, NEW s \in Streams, Yield(s) PROVE AnswerInv'
<1> PICK m : m = Count(s)
  OBVIOUS
<1> PICK b : b = buffer[s]
  OBVIOUS
<1>1. CliInv /\ EventsInv /\ ReaderInv /\ TextsInv /\ ResultInv
  BY DEF AnswerInv
<1>2. UNCHANGED <<cli, read, ended, result>> /\ Newlines(b) # {}
  BY DEF Yield
<1>3. /\ m \in Nat /\ b \in Seq(Chars) /\ read[s] \in Nat /\ read[s] <= Written(s)
      /\ Decodable(read[s]) \in Nat /\ Len(b) \in Nat
  BY <1>1, CountIsNat, DecodableType DEF ReaderInv
<1>4. s \notin ended
  <2>1. Newlines(<<>>) = {}
    BY DEF Newlines
  <2> QED BY <1>1, <1>2, <2>1 DEF ReaderInv
<1>5. /\ 3 * m <= Decodable(read[s]) /\ Len(b) = Decodable(read[s]) - 3 * m
      /\ \A k \in 1 .. Len(b) : b[k] = Character(3 * m + k)
  BY <1>1, <1>4 DEF ReaderInv, Holds, Held
<1>6. /\ \A k \in Newlines(b) : k \in Nat /\ k >= 3
      /\ Len(b) >= 3 => 3 \in Newlines(b)
  BY <1>3, <1>5, FirstNewline
<1>7. Len(b) >= 3
  <2>1. PICK k : k \in Newlines(b)
    BY <1>2
  <2>2. k \in 1 .. Len(b)
    BY <1>3, <2>1 DEF Newlines
  <2> QED BY <1>3, <1>6, <2>1, <2>2
<1>8. 3 = CHOOSE k \in Newlines(b) : \A j \in Newlines(b) : k <= j
  <2>1. 3 \in Newlines(b) /\ \A j \in Newlines(b) : 3 <= j
    BY <1>6, <1>7
  <2>2. ASSUME NEW k \in Newlines(b), \A j \in Newlines(b) : k <= j PROVE k = 3
    BY <1>6, <2>1, <2>2
  <2> QED BY <2>1, <2>2
<1> PICK r : r = SubSeq(b, 4, Len(b))
  OBVIOUS
<1>9. Push(s, SubSeq(b, 1, 2)) /\ buffer' = [buffer EXCEPT ![s] = r]
  <2> DEFINE Stop == CHOOSE k \in Newlines(b) : \A j \in Newlines(b) : k <= j
  <2>1. Push(s, SubSeq(b, 1, Stop - 1)) /\ buffer' = [buffer EXCEPT ![s] = SubSeq(b, Stop + 1, Len(b))]
    BY <1>1 DEF Yield, ReaderInv
  <2>2. Stop = 3
    BY <1>8
  <2> HIDE DEF Stop
  <2>3. Stop - 1 = 2 /\ Stop + 1 = 4
    BY <2>2
  <2> QED BY <2>1, <2>3
<1>10. SubSeq(b, 1, 2) = LineChars(m + 1)
  <2>1. SubSeq(b, 1, 2) = <<b[1], b[2]>>
    <3>1. Len(b) >= 2
      BY <1>3, <1>7
    <3> QED BY <1>3, <3>1, TwoOf
  <2>2. b[1] = Character(3 * m + 1) /\ b[2] = Character(3 * m + 2)
    BY <1>5, <1>3, <1>7
  <2> QED BY <1>3, <2>1, <2>2, Characters DEF LineChars
<1>11. m + 1 <= Len(LinesWritten(s)) /\ LinesWritten(s)[m + 1] = LineChars(m + 1)
  <2>1. 3 * m + 3 <= Decodable(read[s])
    BY <1>3, <1>5, <1>7
  <2> QED BY <1>1, <1>3, <2>1, NextWritten
<1>12. /\ EventsInv' /\ TextsInv' /\ Count(s)' = m + 1
       /\ \A t \in Streams : t # s => Count(t)' = Count(t)
  <2>1. Push(s, LineChars(m + 1))
    BY <1>9, <1>10
  <2> QED BY <1>1, <1>2, <1>11, <2>1, Pushed
<1>13. ReaderInv'
  <2>1. r \in Seq(Chars) /\ Len(r) = Len(b) - 3 /\ \A k \in 1 .. Len(r) : r[k] = b[k + 3]
    BY <1>3, <1>7
  <2>2. ASSUME NEW k \in 1 .. Len(r) PROVE r[k] = Character(3 * (m + 1) + k)
    <3>1. k + 3 \in 1 .. Len(b) /\ 3 * m + (k + 3) = 3 * (m + 1) + k
      BY <1>3, <1>7, <2>1
    <3> QED BY <1>5, <2>1, <3>1
  <2>3. 3 * (m + 1) <= Decodable(read[s]) /\ Len(r) = Decodable(read[s]) - 3 * (m + 1)
    BY <1>3, <1>5, <1>7, <2>1
  <2>4. buffer'[s] = r /\ read' = [read EXCEPT ![s] = read[s]] /\ ended' = ended \cup {} /\ s \notin ended'
    BY <1>1, <1>2, <1>4, <1>9 DEF ReaderInv
  <2>5. Holds(s)'
    BY <1>2, <1>12, <2>2, <2>3, <2>4 DEF Holds, Held
  <2> QED BY <1>1, <1>2, <1>3, <1>9, <1>12, <2>1, <2>4, <2>5, ReaderMoves
<1>14. CliInv' /\ ResultInv'
  <2>1. result.status = "none"
    BY <1>1, <1>4 DEF ResultInv
  <2> QED BY <1>1, <1>2, <2>1 DEF CliInv, ResultInv
<1> QED BY <1>12, <1>13, <1>14 DEF AnswerInv

LEMMA PairIs == ASSUME NEW S, NEW b \in Seq(S), Len(b) = 2 PROVE b = <<b[1], b[2]>>
<1> PICK d : d = <<b[1], b[2]>>
  OBVIOUS
<1>1. d \in Seq(S) /\ Len(d) = 2 /\ d[1] = b[1] /\ d[2] = b[2]
  OBVIOUS
<1>2. \A i \in 1 .. 2 : b[i] = d[i]
  <2>1. \A i \in 1 .. 2 : i = 1 \/ i = 2
    OBVIOUS
  <2> QED BY <1>1, <2>1
<1>3. b = d
  BY <1>1, <1>2, SameSeq
<1> QED BY <1>3

LEMMA OneIs == ASSUME NEW S, NEW b \in Seq(S), Len(b) = 1 PROVE b = <<b[1]>>
<1> PICK d : d = <<b[1]>>
  OBVIOUS
<1>1. d \in Seq(S) /\ Len(d) = 1 /\ d[1] = b[1]
  OBVIOUS
<1>2. \A i \in 1 .. 1 : b[i] = d[i]
  <2>1. \A i \in 1 .. 1 : i = 1
    OBVIOUS
  <2> QED BY <1>1, <2>1
<1>3. b = d
  BY <1>1, <1>2, SameSeq
<1> QED BY <1>3

(* What is left without a newline is the last line as it was written, and   *)
(* nothing is left only if no line is.                                     *)
LEMMA Remainder ==
  ASSUME CliInv, NEW s \in Streams, NEW m \in Nat, NEW b \in Seq(Chars), Held(b, m, Written(s)),
         Newlines(b) = {}
  PROVE  /\ b = <<>> => m = Len(LinesWritten(s))
         /\ b # <<>> => m + 1 = Len(LinesWritten(s)) /\ b = LinesWritten(s)[m + 1]
<1> PICK n : n = Len(cli.lines[s])
  OBVIOUS
<1> PICK w : w = LinesWritten(s)
  OBVIOUS
<1> PICK l \in Nat : l = Len(b)
  OBVIOUS
<1> PICK d : d = Decodable(Written(s))
  OBVIOUS
<1>1. /\ n \in Nat /\ Written(s) \in Nat /\ cli.cut[s] \in 0 .. 3
      /\ n = 0 => d = 0
      /\ n > 0 /\ cli.cut[s] = 0 => d = 3 * n
      /\ n > 0 /\ cli.cut[s] = 1 => d = 3 * n - 1
      /\ n > 0 /\ cli.cut[s] = 2 => d = 3 * n - 2
      /\ n > 0 /\ cli.cut[s] = 3 => d = 3 * n - 3
  BY Bytes DEF CliInv
<1>2. /\ n = 0 => Len(w) = 0
      /\ n > 0 => \A i \in 1 .. n - 1 : w[i] = LineChars(i)
      /\ n > 0 /\ cli.cut[s] \in {0, 1} => Len(w) = n /\ w[n] = LineChars(n)
      /\ n > 0 /\ cli.cut[s] = 2 => Len(w) = n /\ w[n] = <<[line |-> n, part |-> "a2"]>>
      /\ n > 0 /\ cli.cut[s] = 3 => Len(w) = n - 1
  BY Given
<1>3. /\ 3 * m <= d /\ l = d - 3 * m /\ d \in Nat
      /\ \A k \in 1 .. l : b[k] = Character(3 * m + k)
  BY <1>1, DecodableType DEF Held
<1>4. l = 0 \/ l = 1 \/ l = 2
  <2>1. ~(Len(b) >= 3)
    BY <1>3, FirstNewline
  <2>2. ~(l >= 3)
    BY <2>1
  <2> QED BY <2>2
<1>5. CASE l = 0
  <2>1. d = 3 * m
    BY <1>3, <1>5
  <2>2. m = Len(w)
    <3>1. CASE n = 0
      BY <1>1, <1>2, <2>1, <3>1
    <3>2. CASE n > 0 /\ cli.cut[s] = 0
      BY <1>1, <1>2, <2>1, <3>2
    <3>3. CASE n > 0 /\ cli.cut[s] = 1
      BY <1>1, <2>1, <3>3
    <3>4. CASE n > 0 /\ cli.cut[s] = 2
      BY <1>1, <2>1, <3>4
    <3>5. CASE n > 0 /\ cli.cut[s] = 3
      BY <1>1, <1>2, <2>1, <3>5
    <3> QED BY <1>1, <3>1, <3>2, <3>3, <3>4, <3>5
  <2>3. b = <<>>
    <3>1. Len(b) = 0
      BY <1>5
    <3> QED BY <3>1
  <2> QED BY <2>2, <2>3
<1>6. CASE l = 1
  <2>1. d = 3 * m + 1
    <3>1. d \in Nat /\ d - 3 * m = 1
      BY <1>3, <1>6
    <3> QED BY <3>1
  <2>2. n > 0 /\ cli.cut[s] = 2 /\ n = m + 1
    BY <1>1, <2>1
  <2>3. b[1] = [line |-> m + 1, part |-> "a2"]
    <3>1. b[1] = Character(3 * m + 1)
      BY <1>3, <1>6
    <3> QED BY <3>1, Characters
  <2>4. b = <<[line |-> n, part |-> "a2"]>> /\ b # <<>>
    BY <1>6, <2>2, <2>3, OneIs
  <2> QED BY <1>2, <2>2, <2>4
<1>7. CASE l = 2
  <2>1. d = 3 * m + 2
    <3>1. d \in Nat /\ d - 3 * m = 2
      BY <1>3, <1>7
    <3> QED BY <3>1
  <2>2. n > 0 /\ cli.cut[s] = 1 /\ n = m + 1
    BY <1>1, <2>1
  <2>3. b[1] = [line |-> m + 1, part |-> "a2"] /\ b[2] = [line |-> m + 1, part |-> "b"]
    <3>1. b[1] = Character(3 * m + 1) /\ b[2] = Character(3 * m + 2)
      BY <1>3, <1>7
    <3> QED BY <3>1, Characters
  <2>4. b = LineChars(n) /\ b # <<>>
    BY <1>7, <2>2, <2>3, PairIs DEF LineChars
  <2> QED BY <1>2, <2>2, <2>4
<1> QED BY <1>4, <1>5, <1>6, <1>7

LEMMA StreamEndsKeeps == ASSUME AnswerInv, NEW s \in Streams, StreamEnds(s) PROVE AnswerInv'
<1> PICK m : m = Count(s)
  OBVIOUS
<1> PICK b : b = buffer[s]
  OBVIOUS
<1>1. CliInv /\ EventsInv /\ ReaderInv /\ TextsInv /\ ResultInv
  BY DEF AnswerInv
<1>2. /\ UNCHANGED <<cli, read, result>> /\ s \notin ended /\ Newlines(b) = {}
      /\ read[s] = Written(s) /\ LastLine(s) /\ ended' = ended \cup {s}
      /\ buffer' = [buffer EXCEPT ![s] = <<>>]
  BY DEF StreamEnds
<1>3. m \in Nat /\ b \in Seq(Chars) /\ Held(b, m, Written(s)) /\ read[s] \in Nat
  BY <1>1, <1>2, CountIsNat DEF ReaderInv, Holds
<1>4. /\ b = <<>> => m = Len(LinesWritten(s))
      /\ b # <<>> => m + 1 = Len(LinesWritten(s)) /\ b = LinesWritten(s)[m + 1]
  BY <1>1, <1>2, <1>3, Remainder
<1>5. /\ EventsInv' /\ TextsInv' /\ Count(s)' = Len(LinesWritten(s))
      /\ \A t \in Streams : t # s => Count(t)' = Count(t)
  <2>1. CASE b # <<>>
    <3>1. Push(s, b)
      BY <1>2, <2>1 DEF LastLine
    <3>2. m + 1 <= Len(LinesWritten(s))
      BY <1>3, <1>4, <2>1
    <3>3. /\ EventsInv' /\ TextsInv' /\ Count(s)' = m + 1
          /\ \A t \in Streams : t # s => Count(t)' = Count(t)
      BY <1>1, <1>2, <1>4, <2>1, <3>1, <3>2, Pushed
    <3> QED BY <1>4, <2>1, <3>3
  <2>2. CASE b = <<>>
    <3>1. UNCHANGED <<events, texts, length>>
      BY <1>2, <2>2 DEF LastLine, assembler
    <3>2. \A t : Count(t)' = Count(t)
      BY <3>1 DEF Count, LinesRead
    <3>3. EventsInv'
      BY <1>1, <1>2, <3>1 DEF EventsInv, Placed, LinesRead, LinesWritten, LastWritten
    <3>4. TextsInv'
      BY <1>1, <1>2, <3>1 DEF TextsInv, Delta, Kind
    <3> QED BY <1>4, <2>2, <3>2, <3>3, <3>4
  <2> QED BY <2>1, <2>2
<1>6. ReaderInv'
  <2>1. <<>> \in Seq(Chars) /\ {s} \in {{}, {s}}
    OBVIOUS
  <2>2. read' = [read EXCEPT ![s] = read[s]] /\ s \in ended'
    BY <1>1, <1>2 DEF ReaderInv
  <2>3. read[s] <= Written(s)
    BY <1>1 DEF ReaderInv
  <2> QED BY <1>1, <1>2, <1>3, <1>5, <2>1, <2>2, <2>3, ReaderMoves
<1>7. CliInv' /\ ResultInv'
  <2>1. result.status = "none"
    BY <1>1, <1>2 DEF ResultInv
  <2> QED BY <1>1, <1>2, <2>1 DEF CliInv, ResultInv
<1> QED BY <1>5, <1>6, <1>7 DEF AnswerInv

(* What the assembler has is left alone.                                   *)
LEMMA SameAnswer ==
  ASSUME AnswerInv, UNCHANGED <<cli, read, buffer, ended, events, texts, length>>
  PROVE  CliInv' /\ EventsInv' /\ ReaderInv' /\ TextsInv' /\ ParserStatus' = ParserStatus
<1>1. CliInv /\ EventsInv /\ ReaderInv /\ TextsInv
  BY DEF AnswerInv
<1>2. \A t : Written(t)' = Written(t) /\ LinesWritten(t)' = LinesWritten(t) /\ Count(t)' = Count(t)
  BY DEF Written, LinesWritten, LastWritten, Count, LinesRead
<1>3. CliInv' /\ EventsInv'
  BY <1>1 DEF CliInv, EventsInv, Placed, LinesRead, LinesWritten, LastWritten
<1>4. ReaderInv'
  BY <1>1, <1>2 DEF ReaderInv, Holds
<1>5. TextsInv'
  BY <1>1 DEF TextsInv, Delta, Kind
<1>6. ParserStatus' = ParserStatus
  BY DEF ParserStatus, SawEnd, Kind
<1> QED BY <1>3, <1>4, <1>5, <1>6

LEMMA FinishKeeps == ASSUME AnswerInv, Finish PROVE AnswerInv'
<1>1. PICK size \in Sizes :
        result' = [status |-> ParserStatus, session |-> SessionFrom, size |-> size,
                   len |-> NotificationLength, chunks |-> Split(NotificationLength, size)]
  BY DEF Finish
<1>2. UNCHANGED <<cli, read, buffer, ended, events, texts, length>> /\ ended = Streams
  BY DEF Finish, reader, assembler
<1>3. CliInv' /\ EventsInv' /\ ReaderInv' /\ TextsInv' /\ ParserStatus' = ParserStatus
  BY <1>2, SameAnswer
<1>4. NotificationLength \in Nat
  <2>1. length \in Nat /\ EmptyNote \in Nat /\ Footer \in Nat
    BY AnswerAssumption DEF AnswerInv, TextsInv
  <2> QED BY <2>1 DEF NotificationLength
<1>5. /\ result'.status = ParserStatus /\ result'.size = size /\ result'.len = NotificationLength
      /\ result'.chunks = Split(NotificationLength, size)
  BY <1>1
<1>6. ResultInv'
  BY <1>2, <1>3, <1>4, <1>5 DEF ResultInv
<1> QED BY <1>3, <1>6 DEF AnswerInv

LEMMA AnswerStutter == ASSUME AnswerInv, UNCHANGED answerVars PROVE AnswerInv'
<1>1. UNCHANGED <<cli, read, buffer, ended, events, texts, length, result>>
  BY DEF answerVars, reader, assembler
<1>2. CliInv' /\ EventsInv' /\ ReaderInv' /\ TextsInv' /\ ParserStatus' = ParserStatus
  BY <1>1, SameAnswer
<1>3. ResultInv'
  BY <1>1, <1>2 DEF AnswerInv, ResultInv
<1> QED BY <1>2, <1>3 DEF AnswerInv

LEMMA AnswerStarts == ASSUME AnswerInit PROVE AnswerInv
<1>1. CliInv
  <2>1. /\ cli.lines \in [Streams -> BoundedSeq(Lines, MaxLines["stdout"])] /\ cli.cut \in [Streams -> 0 .. 3]
        /\ \A s \in Streams : cli.lines[s] = <<>> => cli.cut[s] = 0
    BY DEF AnswerInit
  <2>2. BoundedSeq(Lines, MaxLines["stdout"]) \subseteq Seq(Lines)
    <3>1. MaxLines["stdout"] \in Nat
      BY AnswerAssumption DEF Streams
    <3>2. ASSUME NEW x \in BoundedSeq(Lines, MaxLines["stdout"]) PROVE x \in Seq(Lines)
      <4>1. PICK m \in Nat : x \in [1 .. m -> Lines]
        BY <3>1 DEF BoundedSeq, SeqOf
      <4> QED BY <4>1
    <3> QED BY <3>2
  <2> QED BY <2>1, <2>2 DEF CliInv
<1>2. /\ read = [s \in Streams |-> 0] /\ buffer = [s \in Streams |-> <<>>] /\ ended = {}
      /\ events = <<>> /\ texts = <<>> /\ length = 0 /\ result.status = "none"
  BY DEF AnswerInit
<1>3. EventsInv
  BY <1>2 DEF EventsInv
<1>4. \A s \in Streams : Count(s) = 0
  <2>1. ASSUME NEW s \in Streams PROVE LinesRead(s, Len(events)) = {}
    BY <1>2 DEF LinesRead
  <2> QED BY <2>1, FS_EmptySet DEF Count
<1>5. ReaderInv
  <2>1. ASSUME NEW s \in Streams PROVE read[s] <= Written(s) /\ Holds(s)
    <3>1. Decodable(0) = 0
      BY DEF Decodable
    <3>2. read[s] = 0 /\ buffer[s] = <<>> /\ Count(s) = 0 /\ Written(s) \in Nat
      BY <1>1, <1>2, <1>4, Bytes
    <3> QED BY <3>1, <3>2 DEF Holds, Held
  <2>2. read \in [Streams -> Nat] /\ buffer \in [Streams -> Seq(Chars)] /\ ended = {}
    BY <1>2
  <2> QED BY <2>1, <2>2 DEF ReaderInv
<1>6. TextsInv
  BY <1>2 DEF TextsInv
<1>7. ResultInv
  BY <1>2 DEF ResultInv
<1> QED BY <1>1, <1>3, <1>5, <1>6, <1>7 DEF AnswerInv

(* Readers hold what was decoded and not handed on, and events are the      *)
(* lines of their streams in order, however the pipes are read.            *)
THEOREM AnswerInvariance == AnswerSpec => []AnswerInv
<1>1. AnswerInv /\ [AnswerNext]_answerVars => AnswerInv'
  <2> SUFFICES ASSUME AnswerInv, [AnswerNext]_answerVars PROVE AnswerInv'
    OBVIOUS
  <2> QED BY ReadKeeps, YieldKeeps, StreamEndsKeeps, FinishKeeps, AnswerStutter DEF AnswerNext
<1> QED BY <1>1, AnswerStarts, PTL DEF AnswerSpec

LEMMA LinesMeant == AnswerInv => LinesAsWritten
<1> SUFFICES ASSUME AnswerInv PROVE LinesAsWritten
  OBVIOUS
<1>1. ASSUME NEW k \in DOMAIN events, NEW s, s = events[k].stream, NEW n, n = Cardinality(LinesRead(s, k))
      PROVE  n <= Len(LinesWritten(s)) /\ events[k].chars = LinesWritten(s)[n]
  <2>1. Placed(k)
    BY DEF AnswerInv, EventsInv
  <2>2. n \in 1 .. Len(LinesWritten(s)) /\ events[k].chars = LinesWritten(s)[n]
    BY <1>1, <2>1 DEF Placed
  <2> QED BY <2>2
<1>2. \A s \in ended : Cardinality(LinesRead(s, Len(events))) = Len(LinesWritten(s))
  BY DEF AnswerInv, ReaderInv, Count
<1> QED BY <1>1, <1>2 DEF LinesAsWritten

LEMMA ChunksMeant == AnswerInv => ChunksAreSound
<1> SUFFICES ASSUME AnswerInv, result.status # "none", Rough(result.len, result.size) < ManyChunks
             PROVE  /\ CarriesText(result.chunks, result.len)
                    /\ EachFits(result.chunks, result.size)
  BY DEF ChunksAreSound
<1>1. result.size \in Sizes /\ result.len \in Nat /\ result.chunks = Split(result.len, result.size)
  BY DEF AnswerInv, ResultInv
<1>2. result.size \in Nat /\ result.size > Reserved
  BY <1>1, AnswerAssumption
<1> QED BY <1>1, <1>2, SplitSound

LEMMA CleanMeant == AnswerInv => UnmarkedIsClean
<1> SUFFICES ASSUME AnswerInv, result.status = "parsed" PROVE UnmarkedIsClean
  BY DEF UnmarkedIsClean
<1>1. EventsInv /\ TextsInv /\ CliInv /\ ParserStatus = "parsed"
  BY DEF AnswerInv, ResultInv
<1>2. /\ \A k \in DOMAIN events : Kind(events[k]) \notin {"plain", "list"}
      /\ cli.code = "zero" /\ ~SawEnd => \A k \in DOMAIN events : Kind(events[k]) = "blank"
  BY <1>1 DEF ParserStatus
<1>3. ASSUME NEW k \in DOMAIN texts, NEW e, e = events[texts[k]]
      PROVE  Whole(e.chars) /\ cli.lines[e.stream][e.chars[1].line].kind = "text"
  <2>1. texts[k] \in DOMAIN events /\ Delta(e) > 0
    BY <1>1, <1>3 DEF TextsInv
  <2>2. Kind(e) # "plain"
    BY <1>2, <1>3, <2>1
  <2>3. Kind(e) = "text"
    BY <2>1, <2>2 DEF Delta
  <2> QED BY <2>2, <2>3 DEF Kind
<1>4. ASSUME cli.code = "zero", length > 0
      PROVE  \E s \in Streams : \E i \in DOMAIN cli.lines[s] :
               cli.lines[s][i].kind = "end" /\ <<s, i>> \in
                 {<<events[k].stream, events[k].chars[1].line>> : k \in DOMAIN events}
  <2>1. PICK k \in DOMAIN events : Delta(events[k]) > 0
    BY <1>1, <1>4 DEF TextsInv
  <2>2. Kind(events[k]) # "blank"
    BY <2>1 DEF Delta
  <2>3. SawEnd
    BY <1>2, <1>4, <2>2
  <2>4. PICK j \in DOMAIN events : Kind(events[j]) = "end"
    BY <2>3 DEF SawEnd
  <2> PICK s : s = events[j].stream
    OBVIOUS
  <2> PICK i : i = Cardinality(LinesRead(s, j))
    OBVIOUS
  <2>5. s \in Streams /\ i \in 1 .. Len(LinesWritten(s)) /\ events[j].chars = LinesWritten(s)[i]
    <3>1. events[j] \in Event
      BY <1>1 DEF EventsInv
    <3>2. Placed(j)
      BY <1>1 DEF EventsInv
    <3> QED BY <3>1, <3>2 DEF Event, Placed
  <2>6. i \in 1 .. Len(cli.lines[s]) /\ events[j].chars[1].line = i
    BY <1>1, <2>5, Named
  <2>7. cli.lines[s][i].kind = "end"
    BY <2>4, <2>6 DEF Kind
  <2>8. i \in DOMAIN cli.lines[s]
    <3>1. cli.lines[s] \in Seq(Lines)
      BY <1>1, <2>5 DEF CliInv
    <3> QED BY <2>6, <3>1
  <2> QED BY <2>5, <2>6, <2>7, <2>8
<1> QED BY <1>3, <1>4 DEF UnmarkedIsClean

(* However the bytes of a pipe are cut into reads, in the middle of a line   *)
(* or of a character, and the two pipes interleaved, the parser is handed    *)
(* the lines as they were written (readLines).                              *)
THEOREM LinesRestored == AnswerSpec => []LinesAsWritten
  BY AnswerInvariance, LinesMeant, PTL

(* An answer that is not marked as a fallback has no raw output in it, and    *)
(* was seen to its end if the CLI's exit code says it succeeded              *)
(* (StreamAssembler.finish).                                                *)
THEOREM NoRawOutput == AnswerSpec => []UnmarkedIsClean
  BY AnswerInvariance, CleanMeant, PTL

(* Whatever the answer's length and the size of a message, the chunks a user *)
(* is sent carry the whole text and fit (splitForTelegram).                 *)
THEOREM AnswerFits == AnswerSpec => []ChunksAreSound
  BY AnswerInvariance, ChunksMeant, PTL
=============================================================================
