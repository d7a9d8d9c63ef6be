------------------------------- MODULE SdCard -------------------------------
(***************************************************************************)
(* The SD driver (sd.c over spi.c) and the card it talks to.  The driver   *)
(* never waits without limit and never asks whether the card is busy: it   *)
(* counts polls, and a busy card, which holds the line low, looks like one *)
(* that answers 0.  Two processes: the driver, in the order of its code,   *)
(* and the card, which may take any time to program or erase.              *)
(*                                                                         *)
(* The card is not part of the repository.  It is taken to follow the      *)
(* protocol: it does not listen while busy, it answers a frame it listened *)
(* to within the polls of sd_cmd(), it may refuse any command but not      *)
(* misunderstand one, and a new command ends the one before it.  A sector  *)
(* of payload is one value and is never mistaken for a command.            *)
(***************************************************************************)
EXTENDS Integers

CONSTANTS
    BLOCK,       \* bytes of a sector: 512
    LastSector,  \* the last sector of a card
    Lbas,        \* sectors that the program uses
    Data,        \* payloads
    Kinds,       \* cards: "v1" and "sc" have byte addresses, "hc" has not
    R1Polls, TokenPolls, ReadyPolls,  \* polls: 8, 200 and 50000 in the code
    IdleTries, OpTries                \* tries of CMD0 and ACMD41: 10 and 1000

ASSUME CardAssumption == /\ BLOCK \in Nat \ {0} /\ LastSector \in Nat
                         /\ Lbas \subseteq 0 .. LastSector
                         /\ Kinds \subseteq {"v1", "sc", "hc"}
ASSUME PollAssumption == {R1Polls, TokenPolls, ReadyPolls, IdleTries, OpTries} \subseteq Nat \ {0}

VARIABLES
    pc,        \* where the driver is; "none" if no function of it is called
    call,      \* the function called: op, lba, last (of sd_erase), data
    cmd,       \* the command of the frame in progress
    r1,        \* the variable r1
    polls,     \* polls done in the loop in progress
    tries,     \* tries of CMD0 or ACMD41 done
    sdhc,      \* sd_state.sdhc
    result,    \* what the function returns
    buf,       \* the sector read
    up,        \* the boot passed sd_init()
    trusted,   \* history: the last sd_init() was successful
    kind,      \* the card in the slot
    phase,     \* the card: "off" (not in SPI mode), "idle" or "ready"
    busy,      \* the card holds the line low
    reply,     \* the R1 the card will send, or None
    job,       \* the transaction the card is in
    content    \* the sectors of the card

callVars == <<call, up>>
loopVars == <<cmd, r1, polls, tries>>
cardVars == <<kind, phase, busy, reply, job, content>>
hostVars == <<sdhc, result, buf, trusted>>
vars == <<pc, callVars, loopVars, hostVars, cardVars>>

Sectors  == 0 .. LastSector
Contents == Data \cup {"old", "blank"}
None     == 255               \* a high line reads as 0xFF
NoCall   == [op |-> "none", lba |-> 0, last |-> 0, data |-> "old"]
Job(op, first, last) == [op |-> op, first |-> first, last |-> last]
NoJob    == Job("none", 0, 0)

Init ==
    /\ pc = "none" /\ call = NoCall /\ up = FALSE
    /\ cmd = 0 /\ r1 = None /\ polls = 0 /\ tries = 0
    /\ sdhc = FALSE /\ result = "none" /\ buf = "old" /\ trusted = FALSE
    /\ kind \in Kinds /\ phase = "off" /\ busy = FALSE /\ reply = None
    /\ job = NoJob /\ content = [s \in Sectors |-> "old"]

-----------------------------------------------------------------------------
(* The card *)

\* Programming or erasing ends.
CardReady ==
    /\ busy /\ busy' = FALSE
    /\ UNCHANGED <<pc, callVars, loopVars, hostVars, kind, phase, reply, job, content>>

\* Another card is put in the slot, between two calls (in command mode).
Swap ==
    /\ pc = "none"
    /\ kind' \in Kinds /\ phase' = "off" /\ busy' = FALSE /\ reply' = None /\ job' = NoJob
    /\ content' = [s \in Sectors |-> "old"]
    /\ UNCHANGED <<pc, callVars, loopVars, hostVars>>

\* The sector that an address means to the card, and whether it is one.
SectorOf(arg) == IF kind = "hc" THEN arg ELSE arg \div BLOCK
Valid(arg)    == SectorOf(arg) \in Sectors /\ (kind = "hc" \/ arg % BLOCK = 0)

\* It is busy, or not yet in SPI mode; CMD0 may take several attempts.
Ignores(c) ==
    /\ busy \/ phase = "off" \/ c = 0
    /\ reply' = None
    /\ UNCHANGED <<phase, busy, job, content>>

Listens(c) == ~ busy /\ (phase # "off" \/ c = 0)

Refuses(c) ==
    /\ Listens(c) /\ c # 0
    /\ reply' = 4 /\ job' = NoJob
    /\ UNCHANGED <<phase, busy, content>>

Takes(c, new_phase, r) ==
    /\ Listens(c)
    /\ phase' = new_phase /\ reply' = r
    /\ job' = IF c = 55 THEN Job("app", 0, 0) ELSE NoJob
    /\ UNCHANGED <<busy, content>>

\* The commands of the start: reset, version, application command, operating
\* conditions, OCR, block length, CRC.
Starts(c) ==
    \/ c = 0 /\ Takes(c, "idle", 1)
    \/ c = 8 /\ kind # "v1" /\ Takes(c, phase, 1)
    \/ c = 55 /\ Takes(c, phase, IF phase = "idle" THEN 1 ELSE 0)
    \/ c = 41 /\ job.op = "app" /\ Takes(c, "ready", 0)
    \/ c = 41 /\ job.op = "app" /\ phase = "idle" /\ Takes(c, "idle", 1)
    \/ c \in {58, 16, 59} /\ phase = "ready" /\ Takes(c, phase, 0)

\* Read, write, and erase in its three steps.
Works(c, arg) ==
    /\ Listens(c) /\ phase = "ready" /\ (c = 38 \/ Valid(arg))
    /\ reply' = 0 /\ UNCHANGED phase
    /\ \/ c = 17 /\ job' = Job("read", SectorOf(arg), SectorOf(arg)) /\ UNCHANGED <<busy, content>>
       \/ c = 24 /\ job' = Job("write", SectorOf(arg), SectorOf(arg)) /\ UNCHANGED <<busy, content>>
       \/ c = 32 /\ job' = Job("from", SectorOf(arg), 0) /\ UNCHANGED <<busy, content>>
       \/ /\ c = 33 /\ job.op = "from"
          /\ job' = Job("range", job.first, SectorOf(arg))
          /\ UNCHANGED <<busy, content>>
       \/ /\ c = 38 /\ job.op = "range"
          /\ job' = NoJob /\ busy' = TRUE
          /\ content' \in {content, [s \in Sectors |-> IF job.first <= s /\ s <= job.last
                                                        THEN "blank" ELSE content[s]]}

CardTakesFrame(c, arg) ==
    /\ Ignores(c) \/ Refuses(c) \/ Starts(c) \/ Works(c, arg)
    /\ UNCHANGED kind

-----------------------------------------------------------------------------
(* sd_cmd() *)

\* (Names that start with Mut are mistakes one could make in the definition
\* that follows; each shows that a property notices it.)
MutByteAddress(lba) == lba * BLOCK

\* sd_lba_arg()
Arg(lba) == IF sdhc THEN lba ELSE lba * BLOCK

Argument == IF cmd = 33 THEN Arg(call.last) ELSE Arg(call.lba)

\* The six bytes of the frame.
SendFrame ==
    /\ pc = "send"
    /\ CardTakesFrame(cmd, Argument)
    /\ pc' = "r1" /\ polls' = 0
    /\ UNCHANGED <<callVars, cmd, r1, tries, hostVars>>

\* One poll for the answer: the first byte that is not 0xFF, or give up.
PollR1 ==
    /\ pc = "r1"
    /\ \/ /\ busy \/ reply # None
          /\ r1' = (IF busy THEN 0 ELSE reply) /\ reply' = None
          /\ pc' = "got" /\ UNCHANGED polls
       \/ /\ ~ busy /\ (reply = None \/ polls + 1 < R1Polls)
          /\ polls' = polls + 1
          /\ IF polls + 1 < R1Polls THEN UNCHANGED <<pc, r1>> ELSE pc' = "got" /\ r1' = None
          /\ UNCHANGED reply
    /\ UNCHANGED <<callVars, cmd, tries, hostVars, kind, phase, busy, job, content>>

\* The next command of the function, or its return.
Send(c, t) ==
    /\ cmd' = c /\ tries' = t /\ pc' = "send" /\ r1' = r1 /\ polls' = 0
    /\ UNCHANGED <<result, trusted>>
Return(res) ==
    /\ pc' = "done" /\ result' = res
    /\ trusted' = IF call.op = "init" THEN res = "ok" ELSE trusted
    /\ cmd' = 0 /\ r1' = None /\ polls' = 0 /\ tries' = 0

-----------------------------------------------------------------------------
(* sd_init() *)

After(c) == pc = "got" /\ cmd = c
initRest == <<callVars, buf, cardVars>>

TryIdle(limit) ==
    /\ After(0)
    /\ IF r1 = 1 THEN Send(8, 0)
       ELSE IF tries + 1 < limit THEN Send(0, tries + 1)
       ELSE Return("error")
    /\ UNCHANGED <<initRest, sdhc>>

MutOnceMore == TryIdle(IdleTries + 1)

\* CMD0 until the card is in idle state.
InitIdle == TryIdle(IdleTries)

\* CMD8: a card that knows it echoes the pattern, rightly or not.
InitVersion ==
    /\ After(8)
    /\ \/ Send(55, 0)
       \/ r1 = 1 /\ Return("error")
    /\ UNCHANGED <<initRest, sdhc>>

\* sd_acmd(41): CMD55, and if it was answered CMD41, until the card is ready.
InitOpCond ==
    /\ After(55) \/ After(41)
    /\ IF cmd = 55 /\ r1 # None THEN Send(41, tries)
       ELSE IF cmd = 41 /\ r1 = 0 THEN Send(58, 0)
       ELSE IF tries + 1 < OpTries THEN Send(55, tries + 1)
       ELSE Return("error")
    /\ UNCHANGED <<initRest, sdhc>>

ReadOcr(checked) ==
    /\ After(58)
    /\ IF checked => r1 = 0
         THEN /\ sdhc' = (r1 # 0 \/ kind = "hc")
              /\ Send(IF sdhc' THEN 59 ELSE 16, 0)
         ELSE Return("error") /\ UNCHANGED sdhc
    /\ UNCHANGED initRest

MutOcrUnchecked == ReadOcr(FALSE)

\* CMD58: the capacity bit of the OCR.  (Without an answer the line is high,
\* and the bit would read as 1.)
InitOcr == ReadOcr(TRUE)

\* CMD16 for byte-addressed cards.
InitBlockLen ==
    /\ After(16)
    /\ IF r1 = 0 THEN Send(59, 0) ELSE Return("error")
    /\ UNCHANGED <<initRest, sdhc>>

\* CMD59, whatever it answers.
InitCrc ==
    /\ After(59)
    /\ Return("ok")
    /\ UNCHANGED <<initRest, sdhc>>

-----------------------------------------------------------------------------
(* sd_read_sector() *)

ReadStart ==
    /\ After(17)
    /\ IF r1 = 0
         THEN pc' = "token" /\ polls' = 0 /\ UNCHANGED <<cmd, r1, tries, result, trusted>>
         ELSE Return("error")
    /\ UNCHANGED <<callVars, sdhc, buf, cardVars>>

\* What the line can hold while the driver waits for the data token.
TokenBytes == IF busy THEN {"low"}
              ELSE IF job.op = "read" THEN {"high", "start", "error"} ELSE {"high"}

WaitToken(good) ==
    /\ pc = "token"
    /\ \E tok \in TokenBytes :
          IF tok \in good
            THEN /\ buf' = (IF tok = "start" THEN content[job.first] ELSE "garbage")
                 /\ job' = NoJob
                 /\ Return("ok")
            ELSE /\ IF polls + 1 < TokenPolls
                      THEN polls' = polls + 1 /\ UNCHANGED <<pc, cmd, r1, tries, result, trusted>>
                      ELSE Return("error")
                 /\ job' = (IF tok = "error" THEN NoJob ELSE job)
                 /\ UNCHANGED buf
    /\ UNCHANGED <<callVars, sdhc, kind, phase, busy, reply, content>>

MutAnyToken == WaitToken({"start", "error", "low"})

\* One poll for 0xFE; with it the sector is read.
PollToken == WaitToken({"start"})

-----------------------------------------------------------------------------
(* sd_write_sector(), sd_write_sector_zc(), sd_write_zero_sector() *)

\* The response to a block, from a card that waits for one and from another.
BlockResponse(resp) ==
    \/ /\ ~ busy /\ job.op = "write" /\ job' = NoJob
       /\ \/ /\ resp = "accepted" /\ busy' \in BOOLEAN
             /\ content' = [content EXCEPT ![job.first] = call.data]
          \/ resp = "rejected" /\ UNCHANGED <<busy, content>>
    \/ /\ resp = IF busy THEN "low" ELSE "high"
       /\ busy \/ job.op # "write"
       /\ UNCHANGED <<busy, job, content>>

SendBlock(good) ==
    /\ After(24)
    /\ IF r1 # 0
         THEN Return("error") /\ UNCHANGED <<busy, job, content>>
         ELSE \E resp \in {"accepted", "rejected", "low", "high"} :
                /\ BlockResponse(resp)
                /\ IF resp \in good
                     THEN pc' = "busy" /\ polls' = 0
                          /\ UNCHANGED <<cmd, r1, tries, result, trusted>>
                     ELSE Return("error")
    /\ UNCHANGED <<callVars, sdhc, buf, kind, phase, reply>>

MutLowAccepted == SendBlock({"accepted", "low"})

\* Data token, payload and CRC, then the data response: sd_write_finish() up to
\* sd_wait_ready().
WriteBlock == SendBlock({"accepted"})

-----------------------------------------------------------------------------
(* sd_erase(): the answers are ignored *)

EraseStep ==
    /\ pc = "got" /\ cmd \in {32, 33, 38}
    /\ IF cmd = 38
         THEN pc' = "busy" /\ polls' = 0 /\ UNCHANGED <<cmd, r1, tries, result, trusted>>
         ELSE Send(IF cmd = 32 THEN 33 ELSE 38, 0)
    /\ UNCHANGED <<callVars, sdhc, buf, cardVars>>

-----------------------------------------------------------------------------
(* sd_wait_ready(), the end of a write or an erase, and the callers *)

WaitReady(limit) ==
    /\ pc = "busy"
    /\ IF ~ busy THEN Return("ok")
       ELSE IF polls + 1 < limit
         THEN polls' = polls + 1 /\ UNCHANGED <<pc, cmd, r1, tries, result, trusted>>
       ELSE Return(IF call.op = "erase" THEN "ok" ELSE "error")
    /\ UNCHANGED <<callVars, sdhc, buf, cardVars>>

MutWaitForEver ==
    /\ pc = "busy"
    /\ IF busy THEN UNCHANGED <<pc, loopVars, result, trusted>> ELSE Return("ok")
    /\ UNCHANGED <<callVars, sdhc, buf, cardVars>>

PollReady == WaitReady(ReadyPolls)

First == [init |-> 0, read |-> 17, write |-> 24, erase |-> 32]

\* The boot calls sd_init(); after it every function may be called.
Call ==
    /\ pc = "none"
    /\ \E op \in DOMAIN First, lba, last \in Lbas, data \in Data :
          /\ up \/ op = "init"
          /\ lba <= last /\ (op = "erase" \/ lba = last)
          /\ call' = [op |-> op, lba |-> lba, last |-> last, data |-> data]
          /\ cmd' = First[op]
    /\ pc' = "send" /\ result' = "none"
    /\ UNCHANGED <<up, r1, polls, tries, sdhc, buf, trusted, cardVars>>

\* Back to the caller; error_halt() if the first sd_init() failed.
Back ==
    /\ pc = "done"
    /\ pc' = IF up \/ result = "ok" THEN "none" ELSE "halt"
    /\ up' = (up \/ result = "ok")
    /\ call' = NoCall /\ result' = "none" /\ buf' = "old"
    /\ UNCHANGED <<loopVars, sdhc, trusted, cardVars>>

InitStep  == InitIdle \/ InitVersion \/ InitOpCond \/ InitOcr \/ InitBlockLen \/ InitCrc
Driver    == SendFrame \/ PollR1 \/ InitStep \/ ReadStart \/ PollToken \/ WriteBlock
             \/ EraseStep \/ PollReady \/ Back

Next == Driver \/ Call \/ CardReady \/ Swap

Spec == Init /\ [][Next]_vars

\* The driver is the main program.  Nothing is assumed of the card.
FairSpec == Spec /\ WF_vars(Driver)

-----------------------------------------------------------------------------
(* Properties *)

\* The types of the variables; CMD0 and ACMD41 are tried no more often than
\* the code says.
TypeOK ==
    /\ pc \in {"none", "send", "r1", "got", "token", "busy", "done", "halt"}
    /\ call.lba \in Sectors /\ call.last \in Sectors
    /\ r1 \in {0, 1, 4, None} /\ polls \in Nat
    /\ tries \in Nat /\ (tries < IdleTries \/ tries < OpTries)
    /\ {sdhc, up, trusted, busy} \subseteq BOOLEAN
    /\ kind \in Kinds /\ phase \in {"off", "idle", "ready"} /\ reply \in {0, 1, 4, None}
    /\ job.first \in Sectors /\ job.last \in Sectors
    /\ content \in [Sectors -> Contents]

Done(op) == pc = "done" /\ call.op = op /\ result = "ok"

\* A write that returned SD_OK is on the card, in its sector; although a busy
\* card answers 0 to a command it has not heard, and whatever an earlier call
\* that timed out has left behind.
WriteTruth == Done("write") /\ trusted => content[call.lba] = call.data

\* A read that returned SD_OK gave what is in the sector.
ReadTruth == Done("read") /\ trusted => buf = content[call.lba]

\* A card that is ready is addressed in its own unit, also after a swap and
\* after calls that failed, if the last sd_init() did not fail half way; and
\* sd_init() returns SD_OK only for a card that is ready.
AddressingAgrees ==
    /\ trusted /\ call.op # "init" /\ phase = "ready" => sdhc = (kind = "hc")
    /\ Done("init") => phase = "ready"

\* No sector changes but the one that is written, or those to be erased.  In
\* particular an erase whose answers are ignored never works on a range put
\* together from two calls.
OnlyAddressed ==
    [][\A s \in Sectors : pc # "none" /\ trusted /\ content'[s] # content[s] =>
          /\ call.op \in {"write", "erase"}
          /\ call.lba <= s /\ s <= call.last]_vars

\* Every call returns, if the card is busy for ever too.
CallsReturn == pc = "send" ~> pc \in {"none", "halt"}

=============================================================================
