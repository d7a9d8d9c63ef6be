---------------------------- MODULE SdCard_proofs ----------------------------
(***************************************************************************)
(* Theorems about SdCard, for every number of polls and tries, any cards   *)
(* and any sectors.                                                        *)
(*                                                                         *)
(* The driver cannot tell an answer from a card that is busy, so what it   *)
(* knows at a point of sd.c is little.  The invariant says what is true    *)
(* all the same: a card that is busy is in no transaction (QuietInv), one  *)
(* that answered CMD0 is not busy for the rest of sd_init() (InitInv), and *)
(* the transaction it is in is of this call, not of an earlier one, by the *)
(* time the driver relies on it (JobInv).  What it gave or took is where   *)
(* it belongs (DataInv).                                                   *)
(***************************************************************************)
EXTENDS SdCard, TLAPS

InCommand == pc \in {"send", "r1", "got"}
InitCmds  == {0, 8, 16, 41, 55, 58, 59}
Agrees    == sdhc <=> kind = "hc"

\* Which commands a function sends, and where it can be.
CallInv ==
    /\ call.op \in {"none", "init", "read", "write", "erase"} /\ call.data \in Contents
    /\ call.lba <= call.last
    /\ pc = "none" => call = NoCall
    /\ InCommand => \/ call.op = "init" /\ cmd \in InitCmds
                    \/ call.op = "read" /\ cmd = 17
                    \/ call.op = "write" /\ cmd = 24
                    \/ call.op = "erase" /\ cmd \in {32, 33, 38}
    /\ pc = "token" => call.op = "read"
    /\ pc = "busy" => call.op \in {"write", "erase"}

\* A card that does not listen is in no transaction.
QuietInv == busy \/ phase = "off" => job.op = "none"

\* sd_init(): from the answer to CMD0 on the card listens, and once CMD58 was
\* answered with 0 it is ready and its unit known.
InitInv ==
    InCommand /\ call.op = "init" =>
        /\ cmd # 0 => ~ busy /\ phase # "off"
        /\ cmd = 0 /\ pc = "r1" /\ reply = 1 => ~ busy /\ phase # "off"
        /\ cmd = 0 /\ pc = "got" /\ r1 = 1 => ~ busy /\ phase # "off"
        /\ cmd = 58 /\ pc = "r1" /\ reply = 0 => phase = "ready"
        /\ cmd = 58 /\ pc = "got" /\ r1 = 0 => phase = "ready"
        /\ cmd \in {16, 59} => phase = "ready" /\ Agrees

TrustInv ==
    /\ trusted /\ call.op # "init" /\ phase = "ready" => Agrees
    /\ Done("init") => phase = "ready" /\ Agrees
    /\ pc = "done" /\ call.op = "init" /\ trusted => result = "ok"

\* The transaction in progress is on the sectors of this call.
JobInv ==
    trusted =>
      /\ call.op = "read" /\ pc \in {"r1", "got", "token"} /\ job.op = "read" => job.first = call.lba
      /\ call.op = "write" /\ pc \in {"r1", "got"} /\ job.op = "write" => job.first = call.lba
      /\ call.op = "erase" /\ job.op = "from"
           /\ ((cmd = 32 /\ pc \in {"r1", "got"}) \/ (cmd = 33 /\ pc = "send")) => job.first = call.lba
      /\ call.op = "erase" /\ job.op = "range"
           /\ ((cmd = 33 /\ pc \in {"r1", "got"}) \/ (cmd = 38 /\ pc = "send"))
           => job.first = call.lba /\ job.last = call.last

\* What was accepted is on the card while the driver waits, and what was read
\* is in the buffer.
DataInv ==
    trusted => /\ call.op = "write" /\ (\/ pc = "busy" \/ Done("write")) => content[call.lba] = call.data
               /\ Done("read") => buf = content[call.lba]

\* The types of the driver's variables and of the card's.
LoopType ==
    /\ pc \in {"none", "send", "r1", "got", "token", "busy", "done", "halt"}
    /\ r1 \in {0, 1, 4, None} /\ polls \in Nat
    /\ tries \in Nat /\ (tries < IdleTries \/ tries < OpTries)
    /\ trusted \in BOOLEAN
HostType == call.lba \in Sectors /\ call.last \in Sectors /\ sdhc \in BOOLEAN /\ up \in BOOLEAN
CardType ==
    /\ kind \in Kinds /\ phase \in {"off", "idle", "ready"} /\ reply \in {0, 1, 4, None}
    /\ busy \in BOOLEAN
    /\ job.first \in Sectors /\ job.last \in Sectors
    /\ content \in [Sectors -> Contents]

SdInv == TypeOK /\ CallInv /\ QuietInv /\ InitInv /\ TrustInv

-----------------------------------------------------------------------------
(* Addresses *)

\* sd_lba_arg(): in the card's unit the argument means the sector.
LEMMA ArgExact ==
    ASSUME NEW lba \in Nat, Agrees
    PROVE  SectorOf(Arg(lba)) = lba
  <1>1. CASE sdhc
    BY <1>1 DEF Arg, SectorOf, Agrees
  <1>2. CASE ~ sdhc
    <2>1. (lba * BLOCK) \div BLOCK = lba
      BY CardAssumption
    <2>2. QED BY <1>2, <2>1 DEF Arg, SectorOf, Agrees
  <1>3. QED BY <1>1, <1>2

-----------------------------------------------------------------------------
(* Types *)

\* Nothing is called and nothing is known at first.
LEMMA SdInitially == Init => SdInv /\ JobInv /\ DataInv
  <1> SUFFICES ASSUME Init PROVE SdInv /\ JobInv /\ DataInv
    OBVIOUS
  <1>1. TypeOK
    <2>1. 0 \in Sectors
      BY CardAssumption DEF Sectors
    <2>2. call.lba \in Sectors /\ call.last \in Sectors
      BY <2>1 DEF Init, NoCall
    <2>3. job.first \in Sectors /\ job.last \in Sectors
      BY <2>1 DEF Init, NoJob, Job
    <2>4. polls \in Nat /\ tries \in Nat /\ (tries < IdleTries \/ tries < OpTries)
      BY PollAssumption DEF Init
    <2>5. {sdhc, up, trusted, busy} \subseteq BOOLEAN
      BY DEF Init
    <2>6. content \in [Sectors -> Contents]
      BY DEF Init, Contents
    <2>7. QED BY <2>2, <2>3, <2>4, <2>5, <2>6 DEF Init, TypeOK, None
  <1>2. CallInv /\ QuietInv /\ InitInv /\ TrustInv /\ JobInv /\ DataInv
    BY DEF Init, CallInv, QuietInv, InitInv, TrustInv, JobInv, DataInv, InCommand, Done, NoCall,
           NoJob, Job, Contents
  <1>3. QED BY <1>1, <1>2 DEF SdInv

\* A card that takes a frame keeps its types, and changes nothing of the host.
LEMMA FrameType ==
    ASSUME TypeOK, NEW c, NEW arg, CardTakesFrame(c, arg)
    PROVE  /\ phase' \in {"off", "idle", "ready"} /\ reply' \in {0, 1, 4, None}
           /\ busy' \in BOOLEAN
           /\ job'.first \in Sectors /\ job'.last \in Sectors
           /\ content' \in [Sectors -> Contents] /\ kind' = kind
  <1>0. 0 \in Sectors /\ NoJob.first = 0 /\ NoJob.last = 0
    BY CardAssumption DEF Sectors, NoJob, Job
  <1>1. CASE Ignores(c)
    BY <1>1 DEF CardTakesFrame, Ignores, TypeOK
  <1>2. CASE Refuses(c)
    BY <1>0, <1>2 DEF CardTakesFrame, Refuses, TypeOK
  <1>3. CASE Starts(c)
    <2>1. ASSUME NEW p \in {"off", "idle", "ready"}, NEW r \in {0, 1, 4}, Takes(c, p, r)
          PROVE  /\ phase' \in {"off", "idle", "ready"} /\ reply' \in {0, 1, 4, None}
                 /\ busy' \in BOOLEAN /\ job'.first \in Sectors /\ job'.last \in Sectors
                 /\ content' \in [Sectors -> Contents]
      BY <1>0, <2>1 DEF Takes, TypeOK, Job
    <2>2. QED BY <1>3, <2>1 DEF Starts, CardTakesFrame, TypeOK
  <1>4. CASE Works(c, arg)
    <2>1. phase' \in {"off", "idle", "ready"} /\ reply' \in {0, 1, 4, None}
      BY <1>4 DEF Works, TypeOK
    <2>2. CASE c = 38
      BY <1>0, <1>4, <2>1, <2>2 DEF Works, TypeOK, CardTakesFrame, Contents
    <2>3. CASE c # 38
      <3>1. SectorOf(arg) \in Sectors /\ UNCHANGED <<busy, content>>
        BY <1>4, <2>3 DEF Works, Valid
      <3>2. job'.first \in Sectors /\ job'.last \in Sectors
        BY <1>0, <1>4, <2>3, <3>1 DEF Works, Job, TypeOK
      <3>3. QED BY <2>1, <3>1, <3>2 DEF TypeOK, CardTakesFrame
    <2>4. QED BY <2>2, <2>3
  <1>5. QED BY <1>1, <1>2, <1>3, <1>4 DEF CardTakesFrame


\* The two parts of the type invariant.
LEMMA TypeParts == TypeOK <=> LoopType /\ HostType /\ CardType
  <1>1. {sdhc, up, trusted, busy} \subseteq BOOLEAN
        <=> sdhc \in BOOLEAN /\ up \in BOOLEAN /\ trusted \in BOOLEAN /\ busy \in BOOLEAN
    BY Zenon
  <1>2. QED BY <1>1 DEF TypeOK, LoopType, HostType, CardType

\* The same, after a step.
LEMMA TypePartsNext == TypeOK' <=> LoopType' /\ HostType' /\ CardType'
  <1>1. {sdhc', up', trusted', busy'} \subseteq BOOLEAN
        <=> sdhc' \in BOOLEAN /\ up' \in BOOLEAN /\ trusted' \in BOOLEAN /\ busy' \in BOOLEAN
    BY Zenon
  <1>2. QED BY <1>1 DEF TypeOK, LoopType, HostType, CardType

\* Sending the next command keeps the types, if the tries are within bounds.
LEMMA SendType ==
    ASSUME LoopType, NEW c, NEW t \in Nat, t < IdleTries \/ t < OpTries, Send(c, t)
    PROVE  LoopType'
  BY DEF LoopType, Send

\* So does returning.
LEMMA ReturnType ==
    ASSUME LoopType, NEW res, Return(res)
    PROVE  LoopType'
  <1>1. trusted' \in BOOLEAN
    <2>1. CASE call.op = "init"
      BY <2>1 DEF Return
    <2>2. CASE call.op # "init"
      BY <2>2 DEF Return, LoopType
    <2>3. QED BY <2>1, <2>2
  <1>2. QED BY <1>1, PollAssumption DEF LoopType, Return

\* And going on with the same command.
LEMMA StayType ==
    ASSUME LoopType, pc' \in {"token", "busy"}, polls' \in Nat, UNCHANGED <<cmd, r1, tries, result, trusted>>
    PROVE  LoopType'
  BY DEF LoopType

\* The driver's steps that send a frame and wait for its answer.
LEMMA CommandType ==
    ASSUME TypeOK, SendFrame \/ PollR1
    PROVE  TypeOK'
  <1>0. LoopType /\ HostType /\ CardType
    BY TypeParts
  <1>1. CASE SendFrame
    <2>1. CardTakesFrame(cmd, Argument)
      BY <1>1 DEF SendFrame
    <2>2. CardType'
      BY <1>0, <2>1, FrameType DEF CardType
    <2>3. LoopType' /\ HostType'
      BY <1>0, <1>1 DEF SendFrame, LoopType, HostType, hostVars, callVars
    <2>4. QED BY <2>2, <2>3, TypePartsNext
  <1>2. CASE PollR1
    <2>1. HostType' /\ CardType'
      BY <1>0, <1>2 DEF PollR1, HostType, CardType, hostVars, callVars
    <2>2. r1' \in {0, 1, 4, None} /\ pc' \in {"r1", "got"} /\ polls' \in Nat
      BY <1>0, <1>2 DEF PollR1, LoopType, CardType
    <2>3. LoopType'
      BY <1>0, <1>2, <2>2 DEF PollR1, LoopType, hostVars
    <2>4. QED BY <2>1, <2>3, TypePartsNext
  <1>3. QED BY <1>1, <1>2

\* The steps of sd_init().
LEMMA InitStepType ==
    ASSUME TypeOK, InitStep
    PROVE  TypeOK'
  <1>0. LoopType /\ HostType /\ CardType
    BY TypeParts
  <1>1. CardType' /\ call' = call /\ up' = up
    BY <1>0 DEF InitStep, InitIdle, TryIdle, InitVersion, InitOpCond, InitOcr, ReadOcr, InitBlockLen,
                InitCrc, initRest, callVars, cardVars, CardType
  <1>2. sdhc' \in BOOLEAN
    <2>1. CASE InitOcr
      <3>1. CASE r1 = 0
        BY <2>1, <3>1 DEF InitOcr, ReadOcr
      <3>2. CASE r1 # 0
        BY <1>0, <2>1, <3>2 DEF InitOcr, ReadOcr, HostType
      <3>3. QED BY <3>1, <3>2
    <2>2. CASE InitStep /\ ~ InitOcr
      BY <1>0, <2>2 DEF InitStep, InitIdle, TryIdle, InitVersion, InitOpCond, InitBlockLen, InitCrc,
                        HostType
    <2>3. QED BY <2>1, <2>2
  <1>3. LoopType'
    <2>1. PICK c : Send(c, 0) \/ (c = 0 /\ tries + 1 < IdleTries /\ Send(c, tries + 1))
                   \/ (c = 55 /\ tries + 1 < OpTries /\ Send(c, tries + 1))
                   \/ (c = 41 /\ Send(c, tries)) \/ Return("error") \/ Return("ok")
      BY DEF InitStep, InitIdle, TryIdle, InitVersion, InitOpCond, InitOcr, ReadOcr, InitBlockLen,
             InitCrc
    <2>2. tries \in Nat /\ tries + 1 \in Nat /\ (tries < IdleTries \/ tries < OpTries)
      BY <1>0 DEF LoopType
    <2>3. 0 \in Nat /\ 0 < IdleTries
      BY PollAssumption
    <2>4. QED BY <1>0, <2>1, <2>2, <2>3, SendType, ReturnType
  <1>4. QED BY <1>0, <1>1, <1>2, <1>3, TypePartsNext DEF HostType

\* The steps of a read.
LEMMA ReadType ==
    ASSUME TypeOK, ReadStart \/ PollToken
    PROVE  TypeOK'
  <1>0. LoopType /\ HostType /\ CardType
    BY TypeParts
  <1>1. HostType'
    BY <1>0 DEF ReadStart, PollToken, WaitToken, HostType, callVars
  <1>2. CardType'
    <2>1. 0 \in Sectors /\ NoJob.first = 0 /\ NoJob.last = 0
      BY CardAssumption DEF Sectors, NoJob, Job
    <2>2. job' = job \/ job' = NoJob
      BY DEF ReadStart, PollToken, WaitToken, cardVars
    <2>3. UNCHANGED <<kind, phase, busy, reply, content>>
      BY DEF ReadStart, PollToken, WaitToken, cardVars
    <2>4. QED BY <1>0, <2>1, <2>2, <2>3 DEF CardType
  <1>3. LoopType'
    <2>1. (\E res : Return(res))
          \/ (pc' = "token" /\ polls' = 0 /\ UNCHANGED <<cmd, r1, tries, result, trusted>>)
          \/ (pc = "token" /\ polls' = polls + 1 /\ UNCHANGED <<pc, cmd, r1, tries, result, trusted>>)
      BY DEF ReadStart, PollToken, WaitToken
    <2>2. polls + 1 \in Nat
      BY <1>0 DEF LoopType
    <2>3. QED BY <1>0, <2>1, <2>2, ReturnType, StayType
  <1>4. QED BY <1>1, <1>2, <1>3, TypePartsNext

\* The data block of a write.
LEMMA WriteType ==
    ASSUME TypeOK, call.data \in Contents, WriteBlock
    PROVE  TypeOK'
  <1>0. LoopType /\ HostType /\ CardType
    BY TypeParts
  <1>1. HostType'
    BY <1>0 DEF WriteBlock, SendBlock, HostType, callVars
  <1>2. CardType'
    <2>1. 0 \in Sectors /\ NoJob.first = 0 /\ NoJob.last = 0
      BY CardAssumption DEF Sectors, NoJob, Job
    <2>2. job' = job \/ job' = NoJob
      BY DEF WriteBlock, SendBlock, BlockResponse
    <2>3. busy' = busy \/ busy' \in BOOLEAN
      BY DEF WriteBlock, SendBlock, BlockResponse
    <2>4. content' = content \/ content' = [content EXCEPT ![job.first] = call.data]
      BY DEF WriteBlock, SendBlock, BlockResponse
    <2>5. UNCHANGED <<kind, phase, reply>>
      BY DEF WriteBlock, SendBlock
    <2>6. QED BY <1>0, <2>1, <2>2, <2>3, <2>4, <2>5 DEF CardType
  <1>3. LoopType'
    <2>1. (\E res : Return(res))
          \/ (pc' = "busy" /\ polls' = 0 /\ UNCHANGED <<cmd, r1, tries, result, trusted>>)
      BY DEF WriteBlock, SendBlock
    <2>2. QED BY <1>0, <2>1, ReturnType, StayType
  <1>4. QED BY <1>1, <1>2, <1>3, TypePartsNext

\* The steps of an erase, and the wait at the end of it and of a write.
LEMMA WaitType ==
    ASSUME TypeOK, EraseStep \/ PollReady
    PROVE  TypeOK'
  <1>0. LoopType /\ HostType /\ CardType
    BY TypeParts
  <1>1. HostType' /\ CardType'
    BY <1>0 DEF EraseStep, PollReady, WaitReady, HostType, CardType, callVars, cardVars
  <1>2. LoopType'
    <2>1. (\E res : Return(res))
          \/ Send(33, 0) \/ Send(38, 0)
          \/ (pc' = "busy" /\ polls' = 0 /\ UNCHANGED <<cmd, r1, tries, result, trusted>>)
          \/ (pc = "busy" /\ polls' = polls + 1 /\ UNCHANGED <<pc, cmd, r1, tries, result, trusted>>)
      BY DEF EraseStep, PollReady, WaitReady
    <2>2. polls + 1 \in Nat /\ 0 \in Nat /\ 0 < IdleTries
      BY <1>0, PollAssumption DEF LoopType
    <2>3. QED BY <1>0, <2>1, <2>2, SendType, ReturnType, StayType
  <1>3. QED BY <1>1, <1>2, TypePartsNext

\* Calls and returns.
LEMMA CallType ==
    ASSUME TypeOK, Call \/ Back
    PROVE  TypeOK'
  <1>0. LoopType /\ HostType /\ CardType
    BY TypeParts
  <1>1. CardType' /\ LoopType'
    BY <1>0 DEF Call, Back, LoopType, CardType, loopVars, cardVars
  <1>2. call'.lba \in Sectors /\ call'.last \in Sectors
    <2>1. CASE Call
      <3>1. PICK op \in DOMAIN First, lba \in Lbas, last \in Lbas, data \in Data :
              call' = [op |-> op, lba |-> lba, last |-> last, data |-> data]
        BY <2>1 DEF Call
      <3>2. QED BY <3>1, CardAssumption DEF Sectors
    <2>2. CASE Back
      BY <2>2, CardAssumption DEF Back, NoCall, Sectors
    <2>3. QED BY <2>1, <2>2
  <1>3. up' \in BOOLEAN /\ sdhc' \in BOOLEAN
    <2>1. CASE Call
      BY <1>0, <2>1 DEF Call, HostType
    <2>2. CASE Back
      <3>1. up' \in BOOLEAN
        BY <1>0, <2>2, Zenon DEF Back, HostType
      <3>2. QED BY <1>0, <2>2, <3>1 DEF Back, HostType
    <2>3. QED BY <2>1, <2>2
  <1>4. QED BY <1>1, <1>2, <1>3, TypePartsNext DEF HostType

\* Every step keeps the types.
LEMMA TypePreserved ==
    ASSUME TypeOK, CallInv, [Next]_vars
    PROVE  TypeOK'
  <1>0. LoopType /\ HostType /\ CardType
    BY TypeParts
  <1>1. CASE CardReady \/ Swap
    <2>1. CASE CardReady
      BY <1>0, <2>1, TypePartsNext DEF CardReady, LoopType, HostType, CardType, loopVars, hostVars,
                                       callVars
    <2>2. CASE Swap
      <3>1. 0 \in Sectors /\ NoJob.first = 0 /\ NoJob.last = 0
        BY CardAssumption DEF Sectors, NoJob, Job
      <3>2. CardType'
        BY <1>0, <2>2, <3>1 DEF Swap, CardType, Contents
      <3>3. QED BY <1>0, <2>2, <3>2, TypePartsNext DEF Swap, LoopType, HostType, loopVars, hostVars,
                                                      callVars
    <2>3. QED BY <1>1, <2>1, <2>2
  <1>2. CASE UNCHANGED vars
    BY <1>0, <1>2, TypePartsNext DEF vars, LoopType, HostType, CardType, loopVars, hostVars, callVars,
                                     cardVars
  <1>3. call.data \in Contents
    BY DEF CallInv
  <1>4. QED BY <1>1, <1>2, <1>3, CommandType, InitStepType, ReadType, WriteType, WaitType, CallType
            DEF Next, Driver

-----------------------------------------------------------------------------
(* The order of the commands *)

\* Every step keeps to the commands of the function that is called.
LEMMA CallPreserved ==
    ASSUME TypeOK, CallInv, [Next]_vars
    PROVE  CallInv'
  <1>1. CASE CardReady \/ Swap \/ SendFrame \/ PollR1 \/ UNCHANGED vars
    <2>1. UNCHANGED <<call, cmd>>
          /\ (pc' = pc \/ (pc \in {"send", "r1"} /\ pc' \in {"r1", "got"}))
      BY <1>1 DEF CardReady, Swap, SendFrame, PollR1, vars, callVars, loopVars
    <2>2. QED BY <2>1 DEF CallInv, InCommand
  <1>2. CASE InitStep
    <2>1. pc = "got" /\ cmd \in InitCmds /\ call' = call
      BY <1>2 DEF InitStep, InitIdle, TryIdle, InitVersion, InitOpCond, InitOcr, ReadOcr,
                  InitBlockLen, InitCrc, initRest, callVars, After, InitCmds
    <2>2. (pc' = "send" /\ cmd' \in InitCmds) \/ pc' = "done"
      BY <1>2 DEF InitStep, InitIdle, TryIdle, InitVersion, InitOpCond, InitOcr, ReadOcr,
                  InitBlockLen, InitCrc, Send, Return, InitCmds
    <2>3. QED BY <2>1, <2>2 DEF CallInv, InCommand, InitCmds
  <1>3. CASE ReadStart \/ PollToken \/ WriteBlock \/ EraseStep \/ PollReady
    <2>1. call' = call
      BY <1>3 DEF ReadStart, PollToken, WaitToken, WriteBlock, SendBlock, EraseStep, PollReady,
                  WaitReady, callVars
    <2>2. \/ pc' = "done"
          \/ pc' = pc /\ cmd' = cmd
          \/ pc = "got" /\ cmd = 17 /\ pc' = "token"
          \/ pc = "got" /\ cmd \in {24, 38} /\ pc' = "busy"
          \/ pc = "got" /\ cmd \in {32, 33} /\ pc' = "send" /\ cmd' \in {33, 38}
      BY <1>3 DEF ReadStart, PollToken, WaitToken, WriteBlock, SendBlock, EraseStep, PollReady,
                  WaitReady, Send, Return, After
    <2>3. QED BY <2>1, <2>2 DEF CallInv, InCommand, InitCmds
  <1>4. CASE Call
    <2>1. PICK op \in DOMAIN First, lba \in Lbas, last \in Lbas, data \in Data :
            /\ call' = [op |-> op, lba |-> lba, last |-> last, data |-> data]
            /\ cmd' = First[op] /\ lba <= last
      BY <1>4 DEF Call
    <2>2. pc' = "send"
      BY <1>4 DEF Call
    <2>3. QED BY <2>1, <2>2 DEF CallInv, InCommand, InitCmds, First, Contents
  <1>5. CASE Back
    BY <1>5 DEF Back, CallInv, InCommand, NoCall, Contents
  <1>6. QED BY <1>1, <1>2, <1>3, <1>4, <1>5 DEF Next, Driver

-----------------------------------------------------------------------------
(* The card and the driver *)

\* A card that takes a frame and then does not listen is in no transaction.
LEMMA FrameQuiet ==
    ASSUME TypeOK, QuietInv, NEW c, NEW arg, CardTakesFrame(c, arg)
    PROVE  QuietInv'
  <1>1. CASE Ignores(c) \/ Refuses(c)
    BY <1>1 DEF Ignores, Refuses, QuietInv, NoJob, Job
  <1>2. CASE Starts(c)
    <2>1. PICK p, r : Takes(c, p, r) /\ (c = 55 => p = phase)
      BY <1>2 DEF Starts
    <2>2. CASE c = 55
      <3>1. ~ busy /\ phase # "off" /\ phase' = phase /\ busy' = busy
        BY <2>1, <2>2 DEF Takes, Listens
      <3>2. QED BY <3>1 DEF QuietInv
    <2>3. CASE c # 55
      BY <2>1, <2>3 DEF Takes, QuietInv, NoJob, Job
    <2>4. QED BY <2>2, <2>3
  <1>3. CASE Works(c, arg)
    <2>1. CASE c = 38
      BY <1>3, <2>1 DEF Works, QuietInv, NoJob, Job
    <2>2. CASE c # 38
      <3>1. ~ busy /\ phase # "off" /\ phase' = phase /\ busy' = busy
        BY <1>3, <2>2 DEF Works, Listens
      <3>2. QED BY <3>1 DEF QuietInv
    <2>3. QED BY <2>1, <2>2
  <1>4. QED BY <1>1, <1>2, <1>3 DEF CardTakesFrame

\* A card that does not listen is in no transaction, after every step.
LEMMA QuietPreserved ==
    ASSUME TypeOK, CallInv, QuietInv, [Next]_vars
    PROVE  QuietInv'
  <1>1. CASE SendFrame
    BY <1>1, FrameQuiet DEF SendFrame
  <1>2. CASE PollToken \/ WriteBlock
    <2>1. phase' = phase
          /\ (job'.op = "none" \/ (job' = job /\ busy' = busy))
      BY <1>2 DEF PollToken, WaitToken, WriteBlock, SendBlock, BlockResponse, NoJob, Job
    <2>2. QED BY <2>1 DEF QuietInv
  <1>3. CASE CardReady
    BY <1>3 DEF CardReady, QuietInv
  <1>4. CASE Swap
    BY <1>4 DEF Swap, QuietInv, NoJob, Job
  <1>5. CASE PollR1 \/ InitStep \/ ReadStart \/ EraseStep \/ PollReady \/ Call \/ Back \/ UNCHANGED vars
    <2>1. UNCHANGED <<phase, busy, job>>
      BY <1>5 DEF PollR1, InitStep, InitIdle, TryIdle, InitVersion, InitOpCond, InitOcr, ReadOcr,
                  InitBlockLen, InitCrc, ReadStart, EraseStep, PollReady, WaitReady, Call, Back, vars,
                  initRest, cardVars
    <2>2. QED BY <2>1 DEF QuietInv
  <1>6. QED BY <1>1, <1>2, <1>3, <1>4, <1>5 DEF Next, Driver

\* During sd_init() a card that listens takes the frame and goes on listening.
LEMMA FrameInit ==
    ASSUME TypeOK, CallInv, InitInv, SendFrame, call.op = "init"
    PROVE  InitInv'
  <1>1. /\ pc = "send" /\ pc' = "r1" /\ UNCHANGED <<call, cmd, sdhc, kind>>
        /\ CardTakesFrame(cmd, Argument)
    BY DEF SendFrame, CardTakesFrame, callVars, hostVars
  <1>2. cmd \in InitCmds
    BY <1>1 DEF CallInv, InCommand
  <1>3. ~ Works(cmd, Argument)
    BY <1>2 DEF Works, InitCmds
  <1>4. CASE cmd = 0
    <2>1. reply' = 1 => ~ busy /\ busy' = busy /\ phase' = "idle"
      BY <1>1, <1>3, <1>4 DEF CardTakesFrame, Ignores, Refuses, Starts, Takes, Listens, None
    <2>2. QED BY <1>1, <1>4, <2>1 DEF InitInv
  <1>5. CASE cmd # 0
    <2>1. ~ busy /\ phase # "off" /\ (cmd \in {16, 59} => phase = "ready" /\ Agrees)
      BY <1>1, <1>5 DEF InitInv, InCommand
    <2>2. Refuses(cmd) \/ Starts(cmd)
      BY <1>1, <1>3, <1>5, <2>1 DEF CardTakesFrame, Ignores
    <2>3. busy' = busy /\ phase' # "off" /\ (cmd \in {16, 58, 59} => phase' = phase)
      BY <2>1, <2>2 DEF Refuses, Starts, Takes
    <2>4. cmd = 58 /\ reply' = 0 => phase' = "ready"
      BY <2>2 DEF Refuses, Starts, Takes
    <2>5. Agrees' <=> Agrees
      BY <1>1 DEF Agrees
    <2>6. QED BY <1>1, <1>5, <2>1, <2>3, <2>4, <2>5 DEF InitInv
  <1>6. QED BY <1>4, <1>5

\* What sd_init() knows of the card stays true.
LEMMA InitPreserved ==
    ASSUME TypeOK, CallInv, InitInv, [Next]_vars
    PROVE  InitInv'
  <1>1. CASE SendFrame
    <2>1. call.op # "init" => InitInv'
      BY <1>1 DEF SendFrame, InitInv, callVars
    <2>2. QED BY <1>1, <2>1, FrameInit
  <1>2. CASE PollR1
    <2>1. /\ pc = "r1" /\ pc' \in {"r1", "got"}
          /\ UNCHANGED <<call, cmd, sdhc, kind, phase, busy>>
          /\ pc' = "r1" => reply' = reply
          /\ pc' = "got" => r1' = None \/ (busy /\ r1' = 0) \/ (~ busy /\ r1' = reply)
      BY <1>2 DEF PollR1, callVars, hostVars
    <2>2. Agrees' <=> Agrees
      BY <2>1 DEF Agrees
    <2>3. QED BY <2>1, <2>2 DEF InitInv, InCommand, None
  <1>3. CASE InitStep
    <2>1. pc = "got" /\ cmd \in InitCmds /\ UNCHANGED <<call, kind, phase, busy>>
      BY <1>3 DEF InitStep, InitIdle, TryIdle, InitVersion, InitOpCond, InitOcr, ReadOcr,
                  InitBlockLen, InitCrc, initRest, callVars, cardVars, After, InitCmds
    <2>2. \/ pc' = "done"
          \/ /\ pc' = "send"
             /\ \/ cmd' = 0
                \/ cmd = 0 /\ r1 = 1 /\ cmd' = 8
                \/ cmd # 0 /\ cmd' \in {41, 55, 58}
                \/ cmd = 58 /\ r1 = 0 /\ cmd' \in {16, 59} /\ Agrees'
                \/ cmd = 16 /\ cmd' = 59 /\ sdhc' = sdhc
      <3>1. CASE InitOcr
        <4>1. CASE r1 = 0
          <5>1. sdhc' = (kind = "hc") /\ kind' = kind
            BY <2>1, <3>1, <4>1 DEF InitOcr, ReadOcr
          <5>2. Agrees'
            BY <5>1 DEF Agrees
          <5>3. QED BY <3>1, <4>1, <5>2 DEF InitOcr, ReadOcr, After, Send
        <4>2. CASE r1 # 0
          BY <3>1, <4>2 DEF InitOcr, ReadOcr, Return
        <4>3. QED BY <4>1, <4>2
      <3>2. CASE InitIdle \/ InitVersion \/ InitOpCond \/ InitBlockLen \/ InitCrc
        BY <3>2 DEF InitIdle, TryIdle, InitVersion, InitOpCond, InitBlockLen, InitCrc, Send, Return,
                    After
      <3>3. QED BY <1>3, <3>1, <3>2 DEF InitStep
    <2>3. sdhc' = sdhc => (Agrees' <=> Agrees)
      BY <2>1 DEF Agrees
    <2>4. call.op = "init"
      BY <2>1 DEF CallInv, InCommand, InitCmds
    <2>5. QED BY <2>1, <2>2, <2>3, <2>4 DEF InitInv, InCommand
  <1>4. CASE ReadStart \/ PollToken \/ WriteBlock \/ EraseStep \/ PollReady
    <2>1. call' = call /\ (pc \in {"token", "busy"} \/ (pc = "got" /\ cmd \in {17, 24, 32, 33, 38}))
      BY <1>4 DEF ReadStart, PollToken, WaitToken, WriteBlock, SendBlock, EraseStep, PollReady,
                  WaitReady, callVars, After
    <2>2. call.op # "init"
      BY <2>1 DEF CallInv, InCommand, InitCmds
    <2>3. QED BY <2>1, <2>2 DEF InitInv
  <1>5. CASE Call
    <2>1. PICK op \in DOMAIN First, lba \in Lbas, last \in Lbas, data \in Data :
            call' = [op |-> op, lba |-> lba, last |-> last, data |-> data] /\ cmd' = First[op]
      BY <1>5 DEF Call
    <2>2. pc' = "send" /\ (call'.op = "init" => cmd' = 0)
      BY <1>5, <2>1 DEF Call, First
    <2>3. QED BY <2>2 DEF InitInv
  <1>6. CASE Back \/ Swap
    <2>1. pc' \in {"none", "halt"}
      BY <1>6 DEF Back, Swap
    <2>2. QED BY <2>1 DEF InitInv, InCommand
  <1>7. CASE CardReady \/ UNCHANGED vars
    <2>1. UNCHANGED <<pc, call, cmd, r1, reply, phase>> /\ (busy' = FALSE \/ busy' = busy)
      BY <1>7 DEF CardReady, vars, callVars, loopVars, cardVars
    <2>2. Agrees' <=> Agrees
      BY <1>7 DEF CardReady, vars, hostVars, cardVars, Agrees
    <2>3. QED BY <2>1, <2>2 DEF InitInv, InCommand
  <1>8. QED BY <1>1, <1>2, <1>3, <1>4, <1>5, <1>6, <1>7 DEF Next, Driver

\* Addressing agrees with the card after every step, if the last sd_init() was
\* successful.
LEMMA TrustPreserved ==
    ASSUME TypeOK, CallInv, InitInv, TrustInv, [Next]_vars
    PROVE  TrustInv'
  <1>1. CASE SendFrame
    <2>1. UNCHANGED <<call, sdhc, kind, trusted, result>> /\ pc = "send" /\ pc' = "r1"
          /\ CardTakesFrame(cmd, Argument)
      BY <1>1 DEF SendFrame, CardTakesFrame, callVars, hostVars
    <2>2. call.op # "init" => phase' = phase
      <3>1. call.op # "init" => cmd \notin InitCmds
        BY <2>1 DEF CallInv, InCommand, InitCmds
      <3>2. QED BY <2>1, <3>1 DEF CardTakesFrame, Ignores, Refuses, Starts, Works, InitCmds
    <2>3. Agrees' <=> Agrees
      BY <2>1 DEF Agrees
    <2>4. QED BY <2>1, <2>2, <2>3 DEF TrustInv, Done
  <1>2. CASE InitStep
    <2>1. pc = "got" /\ cmd \in InitCmds /\ UNCHANGED <<call, kind, phase, busy>>
      BY <1>2 DEF InitStep, InitIdle, TryIdle, InitVersion, InitOpCond, InitOcr, ReadOcr,
                  InitBlockLen, InitCrc, initRest, callVars, cardVars, After, InitCmds
    <2>2. call.op = "init"
      BY <2>1 DEF CallInv, InCommand, InitCmds
    <2>3. \/ pc' = "send"
          \/ pc' = "done" /\ result' = "error" /\ trusted' = FALSE
          \/ pc' = "done" /\ result' = "ok" /\ cmd = 59 /\ sdhc' = sdhc
      <3>1. ASSUME Return("error") PROVE pc' = "done" /\ result' = "error" /\ trusted' = FALSE
        BY <2>2, <3>1 DEF Return
      <3>2. CASE InitCrc
        BY <3>2 DEF InitCrc, After, Return
      <3>3. CASE InitIdle \/ InitVersion \/ InitOpCond \/ InitOcr \/ InitBlockLen
        BY <3>1, <3>3 DEF InitIdle, TryIdle, InitVersion, InitOpCond, InitOcr, ReadOcr,
                          InitBlockLen, Send
      <3>4. QED BY <1>2, <3>2, <3>3 DEF InitStep
    <2>4. cmd = 59 => phase = "ready" /\ Agrees
      BY <2>1, <2>2 DEF InitInv, InCommand
    <2>5. sdhc' = sdhc => (Agrees' <=> Agrees)
      BY <2>1 DEF Agrees
    <2>6. QED BY <2>1, <2>2, <2>3, <2>4, <2>5 DEF TrustInv, Done
  <1>3. CASE ReadStart \/ PollToken \/ WriteBlock \/ EraseStep \/ PollReady
    <2>1. /\ UNCHANGED <<call, sdhc, kind, phase>>
          /\ pc \in {"token", "busy"} \/ (pc = "got" /\ cmd \in {17, 24, 32, 33, 38})
      BY <1>3 DEF ReadStart, PollToken, WaitToken, WriteBlock, SendBlock, EraseStep, PollReady,
                  WaitReady, callVars, cardVars, After
    <2>2. call.op # "init"
      BY <2>1 DEF CallInv, InCommand, InitCmds
    <2>3. trusted' = trusted
      BY <1>3, <2>2 DEF ReadStart, PollToken, WaitToken, WriteBlock, SendBlock, EraseStep, PollReady,
                        WaitReady, Send, Return
    <2>4. Agrees' <=> Agrees
      BY <2>1 DEF Agrees
    <2>5. QED BY <2>1, <2>2, <2>3, <2>4 DEF TrustInv, Done
  <1>4. CASE Call
    <2>1. pc = "none" /\ pc' = "send" /\ UNCHANGED <<sdhc, trusted, kind, phase>>
      BY <1>4 DEF Call, cardVars
    <2>2. Agrees' <=> Agrees
      BY <2>1 DEF Agrees
    <2>3. call.op # "init"
      BY <2>1 DEF CallInv, NoCall
    <2>4. QED BY <2>1, <2>2, <2>3 DEF TrustInv, Done
  <1>5. CASE Back
    <2>1. pc = "done" /\ pc' \in {"none", "halt"} /\ UNCHANGED <<sdhc, trusted, kind, phase>>
      BY <1>5 DEF Back, cardVars
    <2>2. Agrees' <=> Agrees
      BY <2>1 DEF Agrees
    <2>3. trusted /\ phase = "ready" => Agrees
      BY <2>1 DEF TrustInv, Done
    <2>4. QED BY <2>1, <2>2, <2>3 DEF TrustInv, Done
  <1>6. CASE Swap
    BY <1>6 DEF Swap, TrustInv, Done, hostVars, callVars
  <1>7. CASE PollR1 \/ CardReady \/ UNCHANGED vars
    <2>1. UNCHANGED <<call, sdhc, kind, phase, trusted, result>>
          /\ (pc' = pc \/ pc' \in {"r1", "got"})
      BY <1>7 DEF PollR1, CardReady, vars, callVars, hostVars, cardVars
    <2>2. Agrees' <=> Agrees
      BY <2>1 DEF Agrees
    <2>3. QED BY <2>1, <2>2 DEF TrustInv, Done
  <1>8. QED BY <1>1, <1>2, <1>3, <1>4, <1>5, <1>6, <1>7 DEF Next, Driver

-----------------------------------------------------------------------------
(* The transaction in progress *)

\* A frame of a read, a write or an erase that the card works on is about the
\* sectors of the call.
LEMMA FrameJob ==
    ASSUME SdInv, JobInv, SendFrame, trusted
    PROVE  JobInv'
  <1>1. /\ pc = "send" /\ pc' = "r1" /\ UNCHANGED <<call, cmd, trusted>>
        /\ CardTakesFrame(cmd, Argument)
    BY DEF SendFrame, callVars, hostVars
  <1>2. CASE call.op = "init"
    BY <1>1, <1>2 DEF JobInv
  <1>3. CASE call.op # "init"
    <2>1. cmd \in {17, 24, 32, 33, 38} /\ (call.op = "read" => cmd = 17)
          /\ (call.op = "write" => cmd = 24) /\ (call.op = "erase" => cmd \in {32, 33, 38})
      BY <1>1, <1>3 DEF SdInv, CallInv, InCommand
    <2>2. ~ Starts(cmd)
      BY <2>1 DEF Starts
    <2>3. CASE Ignores(cmd) \/ Refuses(cmd)
      <3>1. job'.op = "none"
        BY <2>1, <2>3 DEF Ignores, Refuses, NoJob, Job, SdInv, QuietInv
      <3>2. QED BY <3>1 DEF JobInv
    <2>4. CASE Works(cmd, Argument)
      <3>1. Agrees
        BY <1>3, <2>4 DEF Works, SdInv, TrustInv
      <3>2. call.lba \in Nat /\ call.last \in Nat
        BY DEF SdInv, TypeOK, Sectors
      <3>3. SectorOf(Argument) = IF cmd = 33 THEN call.last ELSE call.lba
        BY <3>1, <3>2, ArgExact DEF Argument
      <3>4. CASE cmd \in {17, 24, 32}
        <4>1. job'.first = call.lba
          BY <2>4, <3>3, <3>4 DEF Works, Job
        <4>2. job'.op = CASE cmd = 17 -> "read" [] cmd = 24 -> "write" [] cmd = 32 -> "from"
          BY <2>4, <3>4 DEF Works, Job
        <4>3. QED BY <1>1, <2>1, <3>4, <4>1, <4>2 DEF JobInv
      <3>5. CASE cmd = 33
        <4>1. job'.op = "range" /\ job'.first = call.lba /\ job'.last = call.last
          BY <1>1, <2>1, <2>4, <3>3, <3>5 DEF Works, Job, JobInv, SdInv, CallInv, InCommand,
                                               InitCmds
        <4>2. call'.op = "erase"
          BY <1>1, <3>5 DEF SdInv, CallInv, InCommand, InitCmds
        <4>3. QED BY <1>1, <4>1, <4>2 DEF JobInv
      <3>6. CASE cmd = 38
        BY <1>1, <2>1, <2>4, <3>6 DEF Works, NoJob, Job, JobInv
      <3>7. QED BY <2>1, <3>4, <3>5, <3>6
    <2>5. QED BY <1>1, <2>2, <2>3, <2>4 DEF CardTakesFrame
  <1>4. QED BY <1>2, <1>3

\* A transaction that the driver relies on is of this call.
LEMMA JobPreserved ==
    ASSUME SdInv, JobInv, [Next]_vars
    PROVE  JobInv'
  <1>1. CASE SendFrame
    <2>1. trusted' = trusted
      BY <1>1 DEF SendFrame, hostVars
    <2>2. ~ trusted => JobInv'
      BY <2>1 DEF JobInv
    <2>3. QED BY <1>1, <2>2, FrameJob
  <1>2. CASE InitStep
    <2>1. pc = "got" /\ cmd \in InitCmds /\ call' = call
      BY <1>2 DEF InitStep, InitIdle, TryIdle, InitVersion, InitOpCond, InitOcr, ReadOcr,
                  InitBlockLen, InitCrc, initRest, callVars, cardVars, After, InitCmds
    <2>2. call'.op = "init"
      BY <2>1 DEF SdInv, CallInv, InCommand, InitCmds
    <2>3. QED BY <2>2 DEF JobInv
  <1>3. CASE ReadStart \/ PollToken \/ WriteBlock \/ EraseStep \/ PollReady
    <2>1. /\ call' = call
          /\ job' = job \/ job'.op = "none"
          /\ pc \in {"token", "busy"} \/ (pc = "got" /\ cmd \in {17, 24, 32, 33, 38})
      BY <1>3 DEF ReadStart, PollToken, WaitToken, WriteBlock, SendBlock, BlockResponse, EraseStep,
                  PollReady, WaitReady, callVars, cardVars, After, NoJob, Job
    <2>2. call.op # "init"
      BY <2>1 DEF SdInv, CallInv, InCommand, InitCmds
    <2>3. trusted' = trusted
      BY <1>3, <2>2 DEF ReadStart, PollToken, WaitToken, WriteBlock, SendBlock, EraseStep, PollReady,
                        WaitReady, Send, Return
    <2>4. \/ pc' \in {"done", "busy"}
          \/ pc \in {"got", "token"} /\ pc' = "token"
          \/ pc = "got" /\ cmd \in {32, 33} /\ pc' = "send" /\ cmd' = (IF cmd = 32 THEN 33 ELSE 38)
      BY <1>3 DEF ReadStart, PollToken, WaitToken, WriteBlock, SendBlock, EraseStep, PollReady,
                  WaitReady, Send, Return, After
    <2>5. QED BY <2>1, <2>3, <2>4 DEF JobInv
  <1>4. CASE Call
    <2>1. PICK op \in DOMAIN First, lba \in Lbas, last \in Lbas, data \in Data :
            call' = [op |-> op, lba |-> lba, last |-> last, data |-> data] /\ cmd' = First[op]
      BY <1>4 DEF Call
    <2>2. pc' = "send" /\ cmd' \in {0, 17, 24, 32}
      BY <1>4, <2>1 DEF Call, First
    <2>3. QED BY <2>2 DEF JobInv
  <1>5. CASE Back \/ Swap
    <2>1. pc' \in {"none", "halt"}
      BY <1>5 DEF Back, Swap
    <2>2. QED BY <2>1 DEF JobInv
  <1>6. CASE PollR1 \/ CardReady \/ UNCHANGED vars
    <2>1. UNCHANGED <<call, cmd, job, trusted>> /\ (pc' = pc \/ (pc = "r1" /\ pc' = "got"))
      BY <1>6 DEF PollR1, CardReady, vars, callVars, loopVars, hostVars, cardVars
    <2>2. QED BY <2>1 DEF JobInv
  <1>7. QED BY <1>1, <1>2, <1>3, <1>4, <1>5, <1>6 DEF Next, Driver

\* What the card took for this call is on it, and what it gave is in the buffer.
LEMMA DataPreserved ==
    ASSUME SdInv, JobInv, DataInv, [Next]_vars
    PROVE  DataInv'
  <1>1. CASE SendFrame \/ Call \/ Back \/ Swap
    <2>1. pc' \in {"r1", "send", "none", "halt"}
      BY <1>1 DEF SendFrame, Call, Back, Swap
    <2>2. QED BY <2>1 DEF DataInv, Done
  <1>2. CASE InitStep
    <2>1. pc = "got" /\ cmd \in InitCmds /\ call' = call
      BY <1>2 DEF InitStep, InitIdle, TryIdle, InitVersion, InitOpCond, InitOcr, ReadOcr,
                  InitBlockLen, InitCrc, initRest, callVars, cardVars, After, InitCmds
    <2>2. call'.op = "init"
      BY <2>1 DEF SdInv, CallInv, InCommand, InitCmds
    <2>3. QED BY <2>2 DEF DataInv, Done
  <1>3. CASE WriteBlock
    <2>1. pc = "got" /\ cmd = 24 /\ call' = call /\ pc' \in {"busy", "done"}
      BY <1>3 DEF WriteBlock, SendBlock, callVars, After, Return
    <2>2. call.op = "write"
      BY <2>1 DEF SdInv, CallInv, InCommand, InitCmds
    <2>3. trusted' = trusted
      BY <1>3, <2>2 DEF WriteBlock, SendBlock, Return
    <2>4. pc' = "done" => result' = "error"
      BY <1>3 DEF WriteBlock, SendBlock, Return
    <2>5. pc' = "busy" => job.op = "write" /\ content' = [content EXCEPT ![job.first] = call.data]
      BY <1>3 DEF WriteBlock, SendBlock, BlockResponse, Return
    <2>6. trusted /\ job.op = "write" => job.first = call.lba
      BY <2>1, <2>2 DEF JobInv
    <2>7. call.lba \in Sectors /\ content \in [Sectors -> Contents]
      BY DEF SdInv, TypeOK
    <2>8. trusted /\ pc' = "busy" => content'[call.lba] = call.data
      BY <2>5, <2>6, <2>7
    <2>9. QED BY <2>1, <2>2, <2>3, <2>4, <2>8 DEF DataInv, Done
  <1>4. CASE PollToken
    <2>1. pc = "token" /\ UNCHANGED <<call, content>> /\ pc' \in {"token", "done"}
      BY <1>4 DEF PollToken, WaitToken, callVars, Return
    <2>2. call.op = "read"
      BY <2>1 DEF SdInv, CallInv
    <2>3. trusted' = trusted
      BY <1>4, <2>2 DEF PollToken, WaitToken, Return
    <2>4. pc' = "done" /\ result' = "ok" => job.op = "read" /\ buf' = content[job.first]
      BY <1>4 DEF PollToken, WaitToken, TokenBytes, Return
    <2>5. trusted /\ job.op = "read" => job.first = call.lba
      BY <2>1, <2>2 DEF JobInv
    <2>6. QED BY <2>1, <2>2, <2>3, <2>4, <2>5 DEF DataInv, Done
  <1>5. CASE ReadStart \/ EraseStep \/ PollReady
    <2>1. /\ UNCHANGED <<call, content>>
          /\ pc = "busy" \/ (pc = "got" /\ cmd \in {17, 32, 33, 38})
      BY <1>5 DEF ReadStart, EraseStep, PollReady, WaitReady, callVars, cardVars, After
    <2>2. call.op \notin {"init", "none"} /\ (call.op = "write" => pc = "busy")
          /\ (pc = "busy" => call.op # "read")
      BY <2>1 DEF SdInv, CallInv, InCommand, InitCmds
    <2>3. trusted' = trusted
      BY <1>5, <2>2 DEF ReadStart, EraseStep, PollReady, WaitReady, Send, Return
    <2>4. pc = "got" /\ pc' = "done" => result' = "error"
      BY <1>5 DEF ReadStart, EraseStep, PollReady, WaitReady, Send, Return
    <2>5. QED BY <2>1, <2>2, <2>3, <2>4 DEF DataInv, Done
  <1>6. CASE PollR1 \/ CardReady \/ UNCHANGED vars
    <2>1. UNCHANGED <<call, content, buf, trusted, result>> /\ (pc' = pc \/ pc' \in {"r1", "got"})
      BY <1>6 DEF PollR1, CardReady, vars, callVars, hostVars, cardVars
    <2>2. QED BY <2>1 DEF DataInv, Done
  <1>7. QED BY <1>1, <1>2, <1>3, <1>4, <1>5, <1>6 DEF Next, Driver

-----------------------------------------------------------------------------
(* Theorems *)

AllInv == SdInv /\ JobInv /\ DataInv

\* The invariant holds in every state of the driver and the card.
THEOREM SdInvariant == Spec => []AllInv
  <1>1. Init => AllInv
    BY SdInitially DEF AllInv
  <1>2. AllInv /\ [Next]_vars => AllInv'
    <2>1. SUFFICES ASSUME AllInv, [Next]_vars PROVE AllInv'
      OBVIOUS
    <2>2. TypeOK /\ CallInv /\ QuietInv /\ InitInv /\ TrustInv /\ JobInv /\ DataInv
      BY <2>1 DEF AllInv, SdInv
    <2>3. SdInv'
      BY <2>1, <2>2, TypePreserved, CallPreserved, QuietPreserved, InitPreserved, TrustPreserved
         DEF SdInv
    <2>4. JobInv' /\ DataInv'
      BY <2>1, <2>2, JobPreserved, DataPreserved DEF SdInv
    <2>5. QED BY <2>3, <2>4 DEF AllInv
  <1>3. QED BY <1>1, <1>2, PTL DEF Spec

\* The variables keep their types, and CMD0 and ACMD41 are tried no more often
\* than the loops of sd_init() say.
THEOREM TypeCorrect == Spec => []TypeOK
  <1>1. AllInv => TypeOK
    BY DEF AllInv, SdInv
  <1>2. QED BY <1>1, SdInvariant, PTL

\* After a successful sd_init(), sd_lba_arg() gives the addresses that the card
\* in the slot means, through failed calls and swaps.
THEOREM AddressingAgreesCorrect == Spec => []AddressingAgrees
  <1>1. AllInv => AddressingAgrees
    <2>1. SUFFICES ASSUME AllInv PROVE AddressingAgrees
      OBVIOUS
    <2>2. Agrees => sdhc = (kind = "hc")
      BY <2>1, Zenon DEF Agrees, AllInv, SdInv, TypeOK
    <2>3. QED BY <2>1, <2>2 DEF AllInv, SdInv, TrustInv, AddressingAgrees
  <1>2. QED BY <1>1, SdInvariant, PTL

\* SD_OK from sd_write_sector() means that the payload is in its sector of the
\* card, whatever the calls before it left behind.
THEOREM WriteTruthCorrect == Spec => []WriteTruth
  <1>1. AllInv => WriteTruth
    BY DEF AllInv, DataInv, Done, WriteTruth
  <1>2. QED BY <1>1, SdInvariant, PTL

\* SD_OK from sd_read_sector() means that the buffer holds the sector asked for.
THEOREM ReadTruthCorrect == Spec => []ReadTruth
  <1>1. AllInv => ReadTruth
    BY DEF AllInv, DataInv, Done, ReadTruth
  <1>2. QED BY <1>1, SdInvariant, PTL

\* No step changes a sector but the one being written or those being erased,
\* though sd_erase() ignores the answers to its three commands.
THEOREM OnlyAddressedCorrect == Spec => OnlyAddressed
  <1>1. AllInv /\ [Next]_vars =>
          [\A s \in Sectors : pc # "none" /\ trusted /\ content'[s] # content[s] =>
              /\ call.op \in {"write", "erase"}
              /\ call.lba <= s /\ s <= call.last]_vars
    <2>1. SUFFICES ASSUME AllInv, Next, NEW s \in Sectors, pc # "none", trusted,
                          content'[s] # content[s]
                   PROVE  call.op \in {"write", "erase"} /\ call.lba <= s /\ s <= call.last
      BY Zenon
    <2>2. CASE SendFrame
      <3>1. CardTakesFrame(cmd, Argument) /\ pc = "send"
        BY <2>2 DEF SendFrame
      <3>2. cmd = 38 /\ job.op = "range" /\ job.first <= s /\ s <= job.last
        BY <2>1, <3>1 DEF CardTakesFrame, Ignores, Refuses, Starts, Takes, Works
      <3>3. call.op = "erase"
        BY <2>1, <3>1, <3>2 DEF AllInv, SdInv, CallInv, InCommand, InitCmds
      <3>4. job.first = call.lba /\ job.last = call.last
        BY <2>1, <3>1, <3>2, <3>3 DEF AllInv, JobInv
      <3>5. QED BY <3>2, <3>3, <3>4
    <2>3. CASE WriteBlock
      <3>1. pc = "got" /\ cmd = 24 /\ job.op = "write"
            /\ content' = [content EXCEPT ![job.first] = call.data]
        BY <2>1, <2>3 DEF WriteBlock, SendBlock, BlockResponse, After
      <3>2. call.op = "write"
        BY <2>1, <3>1 DEF AllInv, SdInv, CallInv, InCommand, InitCmds
      <3>3. job.first = call.lba
        BY <2>1, <3>1, <3>2 DEF AllInv, JobInv
      <3>4. s = call.lba
        BY <2>1, <3>1, <3>3 DEF AllInv, SdInv, TypeOK
      <3>5. call.lba <= call.last /\ call.lba \in Nat
        BY <2>1 DEF AllInv, SdInv, CallInv, TypeOK, Sectors
      <3>6. QED BY <3>2, <3>4, <3>5
    <2>4. CASE Swap
      BY <2>1, <2>4 DEF Swap
    <2>5. CASE ~ (SendFrame \/ WriteBlock \/ Swap)
      <3>1. content' = content
        BY <2>1, <2>5 DEF Next, Driver, PollR1, InitStep, InitIdle, TryIdle, InitVersion, InitOpCond,
                          InitOcr, ReadOcr, InitBlockLen, InitCrc, ReadStart, PollToken, WaitToken,
                          EraseStep, PollReady, WaitReady, Back, Call, CardReady, initRest, cardVars
      <3>2. QED BY <2>1, <3>1
    <2>6. QED BY <2>2, <2>3, <2>4, <2>5
  <1>2. QED BY <1>1, SdInvariant, PTL DEF Spec, OnlyAddressed

=============================================================================
