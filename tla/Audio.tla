------------------------------- MODULE Audio -------------------------------
(***************************************************************************)
(* Sound.                                                                  *)
(*                                                                         *)
(* Playing a file: the player of the desktop (shell.c, fm_audio_show,      *)
(* fm_audio_pump, fm_handle_key), the front end (audio.c) and the two      *)
(* rings below it, the descriptor list of AC'97 (ac97.c) and the cyclic    *)
(* buffer of HD Audio (hda.c), with the converter playing between any two  *)
(* steps.  The samples of a file are its frames 1, 2, 3 ...; 0 is silence. *)
(*                                                                         *)
(* Bringing up HD Audio (hda.c).  The kind of hda says which part it is    *)
(* about: the command rings (hda_cmd), the walk through the widgets of a   *)
(* codec and the path it opens (hda_probe_codec), and the choice among     *)
(* controllers and codecs (hda_init, audio_init).                          *)
(***************************************************************************)
EXTENDS Integers, Sequences, FiniteSets, SequencesExt

CONSTANTS NBuf,     \* AUD_NBUF, HDA_NBUF
          Slot,     \* frames of a slot: AUD_BUF_FRAMES, HDA_FRAMES
          Chunk,    \* frames that one call of mp3_decode yields
          Start,    \* frames buffered before the converter is started (2048)
          Total,    \* frames of the file
          Keys,     \* times the space bar is pressed
          Opens,    \* files opened
          RingLen,  \* HDA_CORB_LEN, HDA_RIRB_LEN
          Verbs,    \* commands sent
          MaxDepth, \* of hda_find_dac
          Ctrls     \* controllers of class 0x0403

VARIABLES
    backend,  \* "hda" or "ac97": what audio_init() found
    dac,      \* the converter: run bit and position; civ, lvi, halted of AC'97
    mem,      \* the samples in the ring
    drv,      \* what the driver keeps of it
    player,   \* the variables fm_audio_* and fm_mp3_*, and where the pump is
    heard,    \* frames of the file played so far, or dropped by a pause
    sure,     \* the converter has not run dry, and started at the first slot
    early,    \* the player closed by itself before everything was played
    keys, opens,
    hda       \* what is brought up

Size == NBuf * Slot
Silence == [i \in 0..Size - 1 |-> 0]
Closed == [mode |-> "closed", src |-> 0, pending |-> 0, frames |-> 0, paused |-> FALSE,
           done |-> FALSE, pc |-> "idle", acc |-> 0]
Idle == [open |-> FALSE, on |-> FALSE, paused |-> FALSE, wpos |-> 0, fill |-> 0, off |-> 0,
         flight |-> 0, seen |-> 0]

PlayInit ==
  /\ backend \in {"hda", "ac97"}
  /\ dac = [run |-> FALSE, pos |-> 0, civ |-> 0, lvi |-> 0, halted |-> FALSE]
  /\ mem = Silence /\ drv = Idle /\ player = Closed
  /\ heard = 0 /\ sure = TRUE /\ early = FALSE /\ keys = 0 /\ opens = 0

Written == player.frames + player.acc
Ac97 == backend = "ac97"
\* Frames the converter may play: AC'97 sees whole slots only
Published == IF Ac97 THEN Written - drv.off ELSE Written
\* Nothing more will be written
Exhausted == player.done /\ player.pending = 0
-----------------------------------------------------------------------------
(* The converter (external).  It plays one frame; AC'97 halts behind the   *)
(* last valid slot, HD Audio goes round for ever.                          *)

Playhead == IF ~ Ac97 THEN dac.pos
            ELSE (IF dac.halted THEN (dac.civ + 1) * Slot ELSE dac.civ * Slot + dac.pos) % Size

Advanced ==
  IF ~ Ac97 THEN [dac EXCEPT !.pos = (@ + 1) % Size]
  ELSE IF dac.pos + 1 < Slot THEN [dac EXCEPT !.pos = @ + 1]
  ELSE IF dac.civ = dac.lvi THEN [dac EXCEPT !.pos = 0, !.halted = TRUE]
  ELSE [dac EXCEPT !.pos = 0, !.civ = (@ + 1) % NBuf]

Plays ==
  /\ dac.run /\ ~ dac.halted
  /\ dac' = Advanced
  /\ heard' = IF heard < Published THEN heard + 1 ELSE heard
  /\ sure' = (sure /\ (Exhausted \/ (heard < Published /\ ~ dac'.halted)))
  /\ UNCHANGED <<backend, mem, drv, player, early, keys, opens>>

\* A write of LVI lets a converter that has halted go on with the next slot
LviWritten(d, v) ==
  IF d.halted /\ d.run THEN [d EXCEPT !.lvi = v, !.halted = FALSE, !.civ = (@ + 1) % NBuf]
  ELSE [d EXCEPT !.lvi = v]
-----------------------------------------------------------------------------
(* audio_open, audio_close, audio_play, audio_pause, audio_queued: what    *)
(* each back end does with the driver's state and the converter            *)

\* ac97_close() frees the slots, hda_close() keeps its ring
ac97_close(d) == IF d.open THEN [d EXCEPT !.open = FALSE, !.on = FALSE, !.flight = 0] ELSE d
hda_close(d) == [d EXCEPT !.on = FALSE]
AudioClosed(d) == IF Ac97 THEN ac97_close(d) ELSE hda_close(d)
DacStopped(d) == [d EXCEPT !.run = FALSE]

\* The indices of AC'97 are not reset; the stream of HD Audio is
ac97_open(d) == [d EXCEPT !.run = FALSE, !.lvi = 0]
hda_stream_program(d) == [d EXCEPT !.run = FALSE, !.pos = 0]
hda_open(d) == hda_stream_program(d)
DacOpened(d) == IF Ac97 THEN ac97_open(d) ELSE hda_open(d)
DrvOpened == [Idle EXCEPT !.open = TRUE]

ac97_play ==
  IF ~ drv.open \/ drv.on THEN UNCHANGED <<dac, mem, drv, heard>>
  ELSE /\ drv' = [drv EXCEPT !.on = TRUE]
       /\ dac' = [dac EXCEPT !.run = TRUE]
       /\ UNCHANGED <<mem, heard>>
\* After a pause the stream is reset and the ring emptied: what was queued is lost
hda_play ==
  IF drv.on THEN UNCHANGED <<dac, mem, drv, heard>>
  ELSE IF drv.paused
  THEN /\ mem' = Silence /\ heard' = Written
       /\ drv' = [drv EXCEPT !.on = TRUE, !.paused = FALSE, !.wpos = 0]
       /\ dac' = [hda_stream_program(dac) EXCEPT !.run = TRUE]
  ELSE /\ drv' = [drv EXCEPT !.on = TRUE]
       /\ dac' = [dac EXCEPT !.run = TRUE]
       /\ UNCHANGED <<mem, heard>>
AudioPlay == IF Ac97 THEN ac97_play ELSE hda_play

ac97_pause == drv' = [drv EXCEPT !.on = FALSE]
hda_pause == drv' = [drv EXCEPT !.on = FALSE, !.paused = TRUE]
AudioPause ==
  /\ UNCHANGED <<mem, heard>>
  /\ IF ~ drv.on THEN UNCHANGED <<dac, drv>>
     ELSE /\ IF Ac97 THEN ac97_pause ELSE hda_pause
          /\ dac' = DacStopped(dac)

\* In frames; ac97_queued() takes in_flight as it was at the last write
hda_queued == (drv.wpos - dac.pos + Size) % Size
ac97_queued ==
  CASE ~ drv.open \/ (drv.on /\ dac.halted) -> 0
    [] drv.open /\ ~ drv.on -> drv.flight * Slot
    [] OTHER -> drv.flight * Slot - dac.pos
AudioQueued == IF Ac97 THEN ac97_queued ELSE hda_queued
-----------------------------------------------------------------------------
(* hda_write and ac97_write                                                *)

\* CIV tells how many slots were played since the last call
dma_reclaim ==
  IF ~ drv.on THEN drv
  ELSE IF dac.halted THEN [drv EXCEPT !.flight = 0, !.seen = dac.civ]
  ELSE LET gone == (dac.civ - drv.seen + NBuf) % NBuf
       IN [drv EXCEPT !.flight = IF gone > @ THEN 0 ELSE @ - gone, !.seen = dac.civ]

Put(at, n) == [i \in DOMAIN mem |->
  LET k == (i - at + Size) % Size IN IF k < n THEN Written + 1 + k ELSE mem[i]]
Least(a, b) == IF a < b THEN a ELSE b

\* Slots the writer may not touch: those in flight, and the one half filled
Claimed == drv.flight + (IF drv.off # 0 THEN 1 ELSE 0)

\* One turn of the loop of ac97_write(): up to the end of a slot, which is then published
FillAc97 ==
  /\ Ac97 /\ player.pc = "fill"
  /\ IF player.pending = player.acc \/ Claimed >= NBuf
     THEN player' = [player EXCEPT !.pc = "wrote"] /\ UNCHANGED <<dac, mem, drv>>
     ELSE LET n == Least(player.pending - player.acc, Slot - drv.off)
              full == drv.off + n = Slot
          IN /\ mem' = Put(drv.fill * Slot + drv.off, n)
             /\ player' = [player EXCEPT !.acc = @ + n]
             /\ drv' = IF full THEN [drv EXCEPT !.off = 0, !.fill = (@ + 1) % NBuf, !.flight = @ + 1]
                       ELSE [drv EXCEPT !.off = @ + n]
             /\ dac' = IF full THEN LviWritten(dac, drv.fill) ELSE dac
  /\ UNCHANGED <<backend, heard, sure, early, keys, opens>>

\* Mutant: the whole ring is filled
RoomAll(flight) == Size - flight
\* "never write into the slot the DAC is on (or is about to reach)"
Room(flight) == IF flight + Slot > Size THEN 0 ELSE Size - Slot - flight

FillHda ==
  /\ ~ Ac97 /\ player.pc = "fill"
  /\ LET n == Least(player.pending, Room(hda_queued)) IN
     /\ mem' = Put(drv.wpos, n)
     /\ drv' = [drv EXCEPT !.wpos = (@ + n) % Size]
     /\ player' = [player EXCEPT !.acc = n, !.pc = "wrote"]
  /\ UNCHANGED <<backend, dac, heard, sure, early, keys, opens>>
-----------------------------------------------------------------------------
(* The player                                                              *)

\* fm_audio_show(): it may fail before the stream is opened, or after
Show(how) ==
  /\ player.mode = "closed" /\ opens < Opens
  /\ opens' = opens + 1
  /\ player' = [Closed EXCEPT !.mode = IF how = "opened" THEN "audio" ELSE "failed"]
  /\ IF how = "early" THEN UNCHANGED <<dac, drv, mem, sure>>
     ELSE /\ dac' = DacOpened(dac)
          /\ drv' = IF how = "late" THEN AudioClosed(DrvOpened) ELSE DrvOpened
          /\ mem' = Silence
          /\ sure' = (~ Ac97 \/ (dac.civ = 0 /\ dac.pos = 0 /\ ~ dac.halted))
  /\ heard' = 0 /\ early' = FALSE
  /\ UNCHANGED <<backend, keys>>

\* fm_close_modal()
CloseModal ==
  /\ player' = Closed /\ dac' = DacStopped(dac) /\ drv' = AudioClosed(drv)
  /\ UNCHANGED <<backend, mem, heard, keys, opens>>

\* fm_audio_pump(): the player closes when everything was played, or decodes on
PumpClose ==
  /\ player.mode = "audio" /\ player.pc = "idle" /\ ~ player.paused /\ player.done
  /\ AudioQueued <= 0
  /\ early' = (sure /\ heard < Published)
  /\ CloseModal /\ UNCHANGED sure

Decoded == Least(Chunk, Total - player.src)

PumpFeed ==
  /\ player.mode = "audio" /\ player.pc \in {"idle", "feed"}
  /\ player.pc = "idle" => ~ player.paused /\ ~ player.done
  /\ IF player.pending = 0 /\ Decoded = 0
     THEN player' = [player EXCEPT !.done = TRUE, !.pc = "idle"] /\ drv' = drv
     ELSE /\ player' = [player EXCEPT !.pc = "fill", !.acc = 0,
                          !.pending = IF @ = 0 THEN Decoded ELSE @,
                          !.src = IF player.pending = 0 THEN @ + Decoded ELSE @]
          /\ drv' = IF Ac97 THEN dma_reclaim ELSE drv
  /\ UNCHANGED <<backend, dac, mem, heard, sure, early, keys, opens>>

\* The converter is started when enough is buffered; a ring that took nothing ends the turn
PumpWrote ==
  /\ player.pc = "wrote"
  /\ player' = [player EXCEPT !.pending = @ - player.acc, !.frames = @ + player.acc, !.acc = 0,
                              !.pc = IF player.acc = 0 THEN "idle" ELSE "feed"]
  /\ IF Written >= Start /\ ~ drv.on THEN AudioPlay ELSE UNCHANGED <<dac, mem, drv, heard>>
  /\ UNCHANGED <<backend, sure, early, keys, opens>>

\* fm_handle_key(): the space bar holds and resumes
Space ==
  /\ player.mode # "closed" /\ player.pc = "idle" /\ keys < Keys
  /\ keys' = keys + 1
  /\ player' = [player EXCEPT !.paused = ~ @]
  /\ IF ~ player.paused THEN AudioPause
     ELSE IF ~ player.done THEN AudioPlay
     ELSE UNCHANGED <<dac, mem, drv, heard>>
  /\ UNCHANGED <<backend, sure, early, opens>>

\* Any other key stops
StopKey ==
  /\ player.mode # "closed" /\ player.pc = "idle"
  /\ CloseModal /\ UNCHANGED <<sure, early>>

PlayNext ==
  \/ Plays \/ FillAc97 \/ FillHda
  \/ \E how \in {"opened", "early", "late"} : Show(how)
  \/ PumpClose \/ PumpFeed \/ PumpWrote
  \/ Space \/ StopKey
-----------------------------------------------------------------------------
(***************************************************************************)
(* What is queued between the converter and the writer is the rest of what *)
(* was written, frame by frame: nothing is overwritten before it is played,*)
(* repeated or left out, however the converter and the pump interleave,    *)
(* until the converter runs dry.                                           *)
(***************************************************************************)
QueueExact ==
  player.mode = "audio" /\ sure =>
    \A k \in 1..Written - heard : mem[(Playhead + k - 1) % Size] = heard + k

\* The converter runs only while the player is open, so never over freed slots
StoppedWhenClosed == dac.run => player.mode # "closed" /\ (Ac97 => drv.open)

\* A player that closes by itself has played every frame that was published
PlayedOut == ~ early
-----------------------------------------------------------------------------
(* hda_cmd and hda_cmd_imm.  A response carries the number of its command. *)

VerbInit ==
  hda = [kind |-> "verbs", corb |-> [i \in 0..RingLen - 1 |-> 0], corbwp |-> 0, corbrp |-> 0,
         rirb |-> [i \in 0..RingLen - 1 |-> 0], rirbwp |-> 0, last |-> 0, imm |-> FALSE,
         cmd |-> 0, waits |-> FALSE, got |-> 0, gave |-> FALSE]

\* Through the immediate registers the answer is that of the command, if there is one
hda_cmd_imm(n) == {0, n}

Issue ==
  /\ hda.kind = "verbs" /\ ~ hda.waits /\ hda.cmd < Verbs
  /\ IF hda.imm
     THEN \E r \in hda_cmd_imm(hda.cmd + 1) : hda' = [hda EXCEPT !.cmd = @ + 1, !.got = r]
     ELSE LET wp == (hda.corbwp + 1) % RingLen IN
          hda' = [hda EXCEPT !.cmd = @ + 1, !.got = 0, !.waits = TRUE,
                             !.corbwp = wp, !.corb[wp] = hda.cmd + 1]

\* The controller (external) fetches a command and writes the codec's response
Respond ==
  /\ hda.kind = "verbs" /\ hda.corbrp # hda.corbwp
  /\ LET rp == (hda.corbrp + 1) % RingLen  rw == (hda.rirbwp + 1) % RingLen IN
     hda' = [hda EXCEPT !.corbrp = rp, !.rirbwp = rw, !.rirb[rw] = hda.corb[rp]]

Take ==
  /\ hda.kind = "verbs" /\ hda.waits /\ hda.rirbwp # hda.last
  /\ hda' = [hda EXCEPT !.last = hda.rirbwp, !.got = hda.rirb[hda.rirbwp], !.waits = FALSE]

\* No response in time: the same verb once more, without DMA
Timeout ==
  /\ hda.kind = "verbs" /\ hda.waits /\ hda.rirbwp = hda.last
  /\ \E r \in hda_cmd_imm(hda.cmd) :
       hda' = [hda EXCEPT !.imm = r # 0, !.gave = @ \/ r = 0, !.got = r, !.waits = FALSE]

\* A verb that succeeds returns the response to itself, also when the rings gave out and
\* their late responses still arrive; not after a verb that was given up altogether.
AnswerOwn == hda.kind = "verbs" /\ ~ hda.gave /\ hda.got # 0 => hda.got = hda.cmd
-----------------------------------------------------------------------------
(* The widgets of a codec: two pins, 1 and 2, in one association, and      *)
(* others behind them.  conns are the connection lists.                    *)

Nodes == 1..5
Links == {<<a>> : a \in 3..5} \cup {<<a, b>> : a, b \in 3..5}

Codecs ==
  {[type |-> <<"pin", "pin", t[1], t[2], t[3]>>,
    conns |-> <<p, <<3>>, IF t[1] = "out" THEN <<>> ELSE c[1], c[2], <<>> >>] :
      t \in {"mix", "sel", "out"} \X {"mix", "sel"} \X {"out", "in"}, p \in Links, c \in Links \X Links}

ProbeInit == \E g \in Codecs : hda = [kind |-> "codec", g |-> g, outs |-> <<>>, regs |-> {}, state |-> "reset"]

\* hda_find_dac(), from the deepest level up: the path to the first converter, depth first
FirstOf(s) == LET full == SelectSeq(s, LAMBDA p : p # <<>>) IN IF full = <<>> THEN <<>> ELSE full[1]
Behind(g, deeper, n) ==
  FirstOf([i \in 1..Len(g.conns[n]) |->
    LET c == g.conns[n][i]  here == <<[nid |-> c, idx |-> i]>> IN
    CASE g.type[c] = "out" -> here
      [] g.type[c] \in {"mix", "sel"} -> IF deeper[c] = <<>> THEN <<>> ELSE here \o deeper[c]
      [] OTHER -> <<>>])
FindDac(g) ==
  FoldLeft(LAMBDA f, d : [n \in Nodes |-> Behind(g, f, n)], [n \in Nodes |-> <<>>], [d \in 1..MaxDepth |-> d])

\* hda_collect_outs()
Collect(g) == LET f == FindDac(g) IN
  SelectSeq([pin \in 1..2 |-> [pin |-> pin, path |-> f[pin]]], LAMBDA o : o.path # <<>>)

\* D0 and the output amplifier of a widget
Raised(n) == {<<"power", n>>, <<"amp", n>>}

\* Every widget of the path, the input of a mixer and the choice of a selector that lead on
hda_setup_path(regs, g, path) ==
  FoldLeft(LAMBDA r, k :
    LET n == path[k].nid  on == r \cup Raised(n)
    IN IF k = Len(path) THEN on
       ELSE IF g.type[n] = "mix" THEN on \cup {<<"in", n, path[k + 1].idx>>}
       ELSE {x \in on : ~ (x[1] = "select" /\ x[2] = n)} \cup {<<"select", n, path[k + 1].idx>>},
    regs, [k \in 1..Len(path) |-> k])

Jack(pin) == Raised(pin) \cup {<<"out", pin>>}
Opened(regs, g, o) == hda_setup_path(regs, g, o.path) \cup Jack(o.pin)
DacOf(o) == o.path[Len(o.path)].nid

\* The rest of hda_probe_codec(): the primary pin, then the others of its association
Probe ==
  /\ hda.kind = "codec" /\ hda.state = "reset"
  /\ LET outs == Collect(hda.g) IN
     hda' = IF outs = <<>> THEN [hda EXCEPT !.state = "none"]
            ELSE [hda EXCEPT !.state = "probed", !.outs = outs,
                    !.regs = FoldLeft(LAMBDA r, o : Opened(r, hda.g, o), {}, outs)
                             \cup {<<"dac", DacOf(outs[i])>> : i \in 1..Len(outs)}]

\* hda_open() chooses again at the last selector of the primary path
Selectors(g, path) == SelectSeq([k \in 1..Len(path) - 1 |-> k], LAMBDA k : g.type[path[k].nid] = "sel")
Open ==
  /\ hda.kind = "codec" /\ hda.state = "probed"
  /\ LET path == hda.outs[1].path  ks == Selectors(hda.g, path) IN
     hda' = [hda EXCEPT !.state = "open", !.regs =
       IF ks = <<>> THEN @
       ELSE LET k == ks[Len(ks)] IN
            {x \in @ : ~ (x[1] = "select" /\ x[2] = path[k].nid)}
              \cup {<<"select", path[k].nid, path[k + 1].idx>>}]

\* Widgets within MaxDepth connections of a pin, through mixers and selectors
Reach(g, pin) ==
  FoldLeft(LAMBDA s, d : s \cup UNION {ToSet(g.conns[n]) : n \in {m \in s : g.type[m] \in {"pin", "mix", "sel"}}},
           {pin}, [d \in 1..MaxDepth |-> d])

\* Whom a widget hears: a pin its first connection, as after the reset of the codec
Heard(g, regs, n) ==
  {g.conns[n][i] : i \in {j \in 1..Len(g.conns[n]) :
     CASE g.type[n] = "pin" -> j = 1
       [] g.type[n] = "mix" -> <<"in", n, j>> \in regs
       [] OTHER -> <<"select", n, j>> \in regs}}
On(regs, n) == <<"power", n>> \in regs /\ <<"amp", n>> \in regs
Hears(g, regs, pin) ==
  FoldLeft(LAMBDA s, d : s \cup UNION {{c \in Heard(g, regs, n) : On(regs, c)} : n \in s},
           {pin}, [d \in Nodes |-> d])

\* A pin gets a path exactly if a converter is within reach, and a path follows connections
\* through mixers and selectors only.
PathsFound ==
  hda.kind = "codec" /\ hda.state # "reset" =>
    /\ \A pin \in 1..2 :
         (\E i \in 1..Len(hda.outs) : hda.outs[i].pin = pin)
           <=> (\E n \in Reach(hda.g, pin) : hda.g.type[n] = "out")
    /\ \A i \in 1..Len(hda.outs) : LET o == hda.outs[i] IN
         \A k \in 1..Len(o.path) :
           LET before == IF k = 1 THEN o.pin ELSE o.path[k - 1].nid IN
           /\ hda.g.conns[before][o.path[k].idx] = o.path[k].nid
           /\ (k = Len(o.path)) <=> (hda.g.type[o.path[k].nid] = "out")

\* Once the stream is open every output hears a converter that carries it, through widgets
\* that are powered and not muted, though the paths of several pins share mixers and
\* selectors; outputs whose path leaves the pin by its first connection.
Audible ==
  hda.kind = "codec" /\ hda.state = "open" =>
    \A i \in 1..Len(hda.outs) : LET o == hda.outs[i] IN
      o.path[1].idx = 1 =>
        /\ Jack(o.pin) \subseteq hda.regs
        /\ \E d \in Hears(hda.g, hda.regs, o.pin) : <<"dac", d>> \in hda.regs
-----------------------------------------------------------------------------
(* hda_init.  A codec: the strictest policy under which it yields an       *)
(* output (3: none, 4: it does not answer), and whether it is analog.  A   *)
(* controller fails before its codecs are probed, after, or not at all.    *)

CodecKinds == [level : 0..4, analog : BOOLEAN]
CtrlKinds == [fails : {"early", "late", "no"}, codecs : {<<c>> : c \in CodecKinds} \cup
               {<<c, d>> : c \in CodecKinds, d \in {k \in CodecKinds : k.level \in {2, 3}}}]

InitInit ==
  \E cs \in {<<c>> : c \in CtrlKinds} \cup
            ({c \in CtrlKinds : Len(c.codecs) = 1} \X CtrlKinds) :
    /\ Len(cs) <= Ctrls
    /\ hda = [kind |-> "init", cs |-> cs, at |-> 1, bar |-> 0, codec |-> <<0, 0>>, ok |-> FALSE,
              stash |-> <<>>, backend |-> "none"]

\* The loop over policies 2, 1, 0 and addresses: the codec found, 0 if there is none
Lowest(S) == CHOOSE k \in S : \A j \in S : k <= j
Found(cs) ==
  LET at(p) == {k \in 1..Len(cs) : cs[k].level \in p..2}
      policies == {p \in 0..2 : at(p) # {}}
  IN IF policies = {} THEN 0 ELSE Lowest(at(CHOOSE p \in policies : \A q \in policies : q <= p))
\* vendor, pin, dac ... are those of the last codec that answered
Probed(i) ==
  LET cs == hda.cs[i].codecs  answered == {k \in 1..Len(cs) : cs[k].level # 4} IN
  IF Found(cs) # 0 THEN <<i, Found(cs)>>
  ELSE IF answered = {} THEN hda.codec
  ELSE <<i, CHOOSE k \in answered : \A j \in answered : j <= k>>

Works(i) == hda.cs[i].fails = "no" /\ Found(hda.cs[i].codecs) # 0
Analog(i) == hda.cs[i].codecs[Found(hda.cs[i].codecs)].analog

\* The window shows the registers of the controller that is tried
hda_try_controller(i) ==
  [hda EXCEPT !.bar = i, !.codec = IF hda.cs[i].fails = "early" THEN @ ELSE Probed(i),
              !.ok = @ \/ Works(i)]

hda_stash(h) == <<h.bar, h.codec>>
hda_restore(h) == [h EXCEPT !.bar = h.stash[1], !.codec = h.stash[2]]

\* The loop of hda_init(): an analog codec ends it, the first other one is put by
TryController ==
  /\ hda.kind = "init" /\ hda.at \in 1..Len(hda.cs)
  /\ LET i == hda.at  tried == hda_try_controller(i) IN
     hda' = IF ~ Works(i) THEN [tried EXCEPT !.at = i + 1]
            ELSE IF Analog(i) THEN [tried EXCEPT !.at = 0, !.backend = "hda"]
            ELSE [tried EXCEPT !.at = i + 1, !.stash = IF @ = <<>> THEN hda_stash(tried) ELSE @]

\* audio_init(): without a usable controller, AC'97
Settle ==
  /\ hda.kind = "init" /\ hda.at = Len(hda.cs) + 1
  /\ IF hda.stash # <<>> THEN hda' = [hda_restore(hda) EXCEPT !.at = 0, !.backend = "hda"]
     ELSE \E b \in {"ac97", "none"} : hda' = [hda EXCEPT !.at = 0, !.backend = b]

First(i, P(_)) == P(i) /\ \A j \in 1..i - 1 : ~ P(j)

\* "keep the first ANALOG codec", the first other one only if there is none; the window and
\* the codec's data are then those of the chosen controller, whatever was tried after it.
BestChosen ==
  hda.kind = "init" /\ hda.at = 0 =>
    /\ (hda.backend = "hda") <=> \E i \in 1..Len(hda.cs) : Works(i)
    /\ hda.backend = "hda" =>
         /\ hda.codec = <<hda.bar, Found(hda.cs[hda.bar].codecs)>>
         /\ IF \E i \in 1..Len(hda.cs) : Works(i) /\ Analog(i)
            THEN First(hda.bar, LAMBDA i : Works(i) /\ Analog(i))
            ELSE First(hda.bar, Works)
-----------------------------------------------------------------------------
HdaInit == VerbInit \/ ProbeInit \/ InitInit
HdaNext == Issue \/ Respond \/ Take \/ Timeout \/ Probe \/ Open \/ TryController \/ Settle
=============================================================================
