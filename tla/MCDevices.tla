----------------------------- MODULE MCDevices -----------------------------
(***************************************************************************)
(* The devices for TLC: the network drivers (E1000, Rtl8111, Rtl8139) and  *)
(* the ARP cache above them (Arp), the disks (Block) and the USB bus (Usb);*)
(* what comes over them, packages (Pkg) and their decoders (Codec); and    *)
(* sound (Audio).  `part` says which of them a behaviour is about;         *)
(* the variables of the others are 0.  The network drivers share the names *)
(* of their variables: a machine has one controller.                       *)
(***************************************************************************)
EXTENDS Integers, Sequences

VARIABLES part,
    buf, nic, pc, frame, wire, filled, ok, rbuf, rnic, arrived, lost, up,
    dd, tail, idx, rdd, head, rtail, poll,
    own, ncur, rown, rcur, n,
    ring, cbr, capr, len, taken, tsd, pending,
    cache, victim, aring, stack, busy, drain, want, tries, agot, now,
    media, win, slot, op, mbr, asked, before, calls, bfaults, late, hw, boot,
    world, dev, ignored, td, bound, ps2, silent, at, left, plugs, faults,
    deps, disk, list, status, index, todo, astray, broken, given, text, feed, tape, reader,
    codec,
    backend, dac, mem, drv, player, heard, sure, early, keys, opens, hda

descVars == <<buf, nic, pc, wire, filled, rbuf, rnic, lost>>
intelVars == <<dd, tail, idx, rdd, head, rtail, poll>>
gigaVars == <<own, rown, rcur>>
fastVars == <<ring, cbr, capr, len, taken, tsd, pending>>
nicVars == <<descVars, intelVars, gigaVars, fastVars, frame, ok, arrived, up, ncur, n>>
arpVars == <<cache, victim, aring, stack, busy, drain, want, tries, agot, now>>
blockVars == <<media, win, slot, op, mbr, asked, before, calls, bfaults, late, hw, boot>>
usbVars == <<world, dev, ignored, td, bound, ps2, silent, at, left, plugs, faults>>
dpkgVars == <<deps, disk, list, status, index, todo, astray, broken, given>>
pkgVars == <<dpkgVars, text, feed, tape, reader, codec>>
playVars == <<backend, dac, mem, drv, player, heard, sure, early, keys, opens>>
soundVars == <<playVars, hda>>
all == <<part, nicVars, arpVars, blockVars, usbVars, pkgVars, soundVars>>

Intel == INSTANCE E1000 WITH NTx <- 2, NRx <- 3, Sends <- 5, Arrivals <- 6

Giga == INSTANCE Rtl8111 WITH
    NTx <- 3, NRx <- 2, Sends <- 5, Arrivals <- 4, Budget <- 3, cur <- ncur

Fast == INSTANCE Rtl8139 WITH
    R <- 24, Lens <- {5, 8, 11}, Pad <- 16, W <- 64, Arrivals <- 4, MaxPacket <- 6,
    Budget <- 2, NTx <- 1, Sends <- 2, cur <- ncur

Cache == INSTANCE Arp WITH
    Slots <- 2, Hosts <- 3, Timeout <- 1, W <- 8, Retries <- 2, Ring <- 1, TMax <- 2,
    ring <- aring, got <- agot

\* Five sectors, transfers of two, one failing command
Disk == INSTANCE Block WITH
    N <- 5, W <- 8, Xfer <- 2, MinStart <- 2, Calls <- 2, MaxFaults <- 1,
    table <- mbr, faults <- bfaults

\* Three slots, hubs of one port, ports refilled between two polls
Bus == INSTANCE Usb WITH
    NSlots <- 3, NPorts <- 1, Probes <- 2, Kinds <- {"kbd", "mute", "hub", "other"},
    MaxPlugs <- 4, MaxFaults <- 1, Swaps <- TRUE

\* Three packages, the plan two deep; lists of two files
Packages == INSTANCE Pkg WITH
    Cap <- 2, Depth <- 2, Commands <- 4, TextLen <- 7, ParaMax <- 6, Entries <- 2

Decoder == INSTANCE Codec WITH
    Keep <- 3, Window <- 6, Output <- 8, MaxBits <- 3, Alphabet <- 4, TableLog <- 5, Weights <- 5,
    MaxWeight <- 3, StreamBytes <- 20, Reads <- 2, Frames <- 2

\* Four slots of two frames, a file that does not fill its last slot
Sound == INSTANCE Audio WITH
    NBuf <- 4, Slot <- 2, Chunk <- 3, Start <- 4, Total <- 11, Keys <- 2, Opens <- 2,
    RingLen <- 4, Verbs <- 7, MaxDepth <- 3, Ctrls <- 2

NoMusic == /\ backend = 0 /\ dac = 0 /\ mem = 0 /\ drv = 0 /\ player = 0 /\ heard = 0 /\ sure = 0
           /\ early = 0 /\ keys = 0 /\ opens = 0
NoPackages == /\ deps = 0 /\ disk = 0 /\ list = 0 /\ status = 0 /\ index = 0 /\ todo = 0
              /\ astray = 0 /\ broken = 0 /\ given = 0
NoUsb == /\ world = 0 /\ dev = 0 /\ ignored = 0 /\ td = 0 /\ bound = 0 /\ ps2 = 0 /\ silent = 0
         /\ at = 0 /\ left = 0 /\ plugs = 0 /\ faults = 0
NoDesc == buf = 0 /\ nic = 0 /\ pc = 0 /\ wire = 0 /\ filled = 0 /\ rbuf = 0 /\ rnic = 0 /\ lost = 0
NoIntel == dd = 0 /\ tail = 0 /\ idx = 0 /\ rdd = 0 /\ head = 0 /\ rtail = 0 /\ poll = 0
NoGiga == own = 0 /\ rown = 0 /\ rcur = 0
NoFast == ring = 0 /\ cbr = 0 /\ capr = 0 /\ len = 0 /\ taken = 0 /\ tsd = 0 /\ pending = 0
NoNic == /\ NoDesc /\ NoIntel /\ NoGiga /\ NoFast
         /\ frame = 0 /\ ok = 0 /\ arrived = 0 /\ up = 0 /\ ncur = 0 /\ n = 0

NoArp == /\ cache = 0 /\ victim = 0 /\ aring = 0 /\ stack = 0 /\ busy = 0 /\ drain = 0 /\ want = 0
         /\ tries = 0 /\ agot = 0 /\ now = 0
NoCalls == /\ media = 0 /\ win = 0 /\ slot = 0 /\ op = 0 /\ mbr = 0 /\ asked = 0 /\ before = 0
           /\ calls = 0 /\ bfaults = 0 /\ late = 0

NicInit ==
    CASE part = "e1000" -> Intel!Init /\ NoGiga /\ NoFast /\ ncur = 0 /\ n = 0
      [] part = "rtl8111" -> Giga!Init /\ NoIntel /\ NoFast
      [] part = "rtl8139" -> Fast!Init /\ NoDesc /\ NoIntel /\ NoGiga
      [] OTHER -> NoNic

DevicesInit ==
    /\ part \in {"e1000", "rtl8111", "rtl8139", "arp", "block", "boot", "usb",
                "packages", "index", "archive", "decoder", "player", "hda"}
    /\ NicInit
    /\ IF part = "arp" THEN Cache!Init ELSE NoArp
    /\ IF part = "block" THEN Disk!CallInit ELSE NoCalls
    /\ IF part = "boot" THEN Disk!BootInit ELSE hw = 0 /\ boot = 0
    /\ IF part = "usb" THEN Bus!Init ELSE NoUsb
    /\ IF part = "packages" THEN Packages!PkgInit ELSE NoPackages
    /\ IF part = "index" THEN Packages!FeedInit ELSE text = 0 /\ feed = 0
    /\ IF part = "archive" THEN Packages!TapeInit ELSE tape = 0 /\ reader = 0
    /\ IF part = "decoder" THEN Decoder!CodecInit ELSE codec = 0
    /\ IF part = "player" THEN Sound!PlayInit ELSE NoMusic
    /\ IF part = "hda" THEN Sound!HdaInit ELSE hda = 0

Driving ==
    /\ \/ part = "e1000" /\ Intel!Next /\ UNCHANGED <<gigaVars, fastVars, ncur, n>>
       \/ part = "rtl8111" /\ Giga!Next /\ UNCHANGED <<intelVars, fastVars>>
       \/ part = "rtl8139" /\ Fast!Next /\ UNCHANGED <<descVars, intelVars, gigaVars>>
    /\ UNCHANGED <<part, arpVars, blockVars, usbVars, pkgVars, soundVars>>
Resolving == part = "arp" /\ Cache!Next /\ UNCHANGED <<part, nicVars, blockVars, usbVars, pkgVars, soundVars>>
Transferring ==
    /\ \/ part = "block" /\ Disk!CallNext
       \/ part = "boot" /\ Disk!BootNext
    /\ UNCHANGED <<part, nicVars, arpVars, usbVars, pkgVars, soundVars>>
Plugging == part = "usb" /\ Bus!Next /\ UNCHANGED <<part, nicVars, arpVars, blockVars, pkgVars, soundVars>>
Installing ==
    /\ \/ part = "packages" /\ Packages!PkgNext /\ UNCHANGED <<text, feed, tape, reader>>
       \/ part = "index" /\ (Packages!Feed \/ Packages!FeedFinish) /\ UNCHANGED <<dpkgVars, tape, reader>>
       \/ part = "archive" /\ Packages!Iterate /\ UNCHANGED <<dpkgVars, text, feed>>
    /\ UNCHANGED <<part, nicVars, arpVars, blockVars, usbVars, codec, soundVars>>
Decoding ==
    /\ part = "decoder" /\ Decoder!CodecNext
    /\ UNCHANGED <<part, nicVars, arpVars, blockVars, usbVars, dpkgVars, text, feed, tape, reader, soundVars>>
Sounding ==
    /\ \/ part = "player" /\ Sound!PlayNext /\ UNCHANGED hda
       \/ part = "hda" /\ Sound!HdaNext /\ UNCHANGED playVars
    /\ UNCHANGED <<part, nicVars, arpVars, blockVars, usbVars, pkgVars>>
DevicesSpec ==
    DevicesInit /\ [][Driving \/ Resolving \/ Transferring \/ Plugging \/ Installing \/ Decoding
                     \/ Sounding]_all
-----------------------------------------------------------------------------
(* Properties. *)

\* A frame given to the controller leaves once and in order, or is still in its
\* descriptor, and a send that returns 0 has put its frame on the wire, also after
\* waits that timed out.  Every frame that found room is handed up once, whole and in
\* order of arrival, however polls, interrupts and arrivals interleave, and the read
\* offset of the RTL8139 stays at the header of the oldest frame ("would desync CAPR
\* from the hardware write pointer").  An address that arp_resolve returns was announced
\* by its host within ARP_TIMEOUT_MS, and no frame is dispatched inside the dispatch of
\* another ("each level burns ~4KB of stack").
FramesExact ==
  CASE part = "e1000" -> Intel!TypeOK /\ Intel!WireExact /\ Intel!OkIsSent /\ Intel!UpExact
    [] part = "rtl8111" -> Giga!TypeOK /\ Giga!WireExact /\ Giga!OkIsSent /\ Giga!UpExact
    [] part = "rtl8139" -> Fast!TypeOK /\ Fast!UpExact /\ Fast!InStep
    [] part = "arp" -> Cache!TypeOK /\ Cache!OneEntry /\ Cache!NoNesting /\ Cache!Fresh
    [] OTHER -> TRUE

\* Reads and writes of disks that share one window touch only the sectors asked for
\* and move exactly their content until a command times out; and the boot always
\* finds a root file system, without two disks on the same command list
\* (blkdev_read, ahci_rw, fs_init).
BlocksExact ==
  /\ part = "block" => Disk!WritesInRange /\ Disk!TransfersExact
  /\ part = "boot" => Disk!BootSound

\* No USB device outlives its hub, every descriptor belongs to one running pipe, and
\* the PS/2 keyboard is silenced exactly while a running USB keyboard is heard, in
\* whatever order devices come, go, fail and take each other's place.
UsbSound == part = "usb" => Bus!TreeSound /\ Bus!ConsoleOwned

\* Files that a list names exist and nothing else stays behind, whatever was installed,
\* failed half-way or was removed; and "the final state after the loop is consistent":
\* what an installed package depends on is installed (kilget_install, dpkg_remove).
PackagesSound ==
  part = "packages" => Packages!ListedExist /\ Packages!NoLeftovers /\ Packages!Consistent

\* The index read as a stream has the paragraphs of its text, an archive gives the
\* entries that were put into it, and the decoders compute what the formats define: the
\* window, the Huffman and FSE tables, the reverse bit reader, the repeat offsets
\* (index_feed, tar_iterate, inflate.c, zstd.c).
DecodedExact ==
  CASE part = "index" -> Packages!ParagraphsExact
    [] part = "archive" -> Packages!ArchiveExact
    [] part = "decoder" ->
         /\ Decoder!WindowExact /\ Decoder!HuffmanExact /\ Decoder!LengthsExact /\ Decoder!FseExact
         /\ Decoder!CountsExact /\ Decoder!WeightsExact /\ Decoder!ReaderExact /\ Decoder!FramesDecoded
         /\ Decoder!BitsExact /\ Decoder!StreamsCover
    [] OTHER -> TRUE

\* What is queued for the converter is what was decoded, frame by frame, and the player
\* closes only when all of it was played (ac97.c, hda.c, fm_audio_pump).  The answer to a
\* verb is its own, every output of the codec hears the stream, and the controller that is
\* kept is the first analog one (hda_cmd, hda_probe_codec, hda_init).
PlaybackExact ==
  /\ part = "player" => Sound!QueueExact /\ Sound!StoppedWhenClosed /\ Sound!PlayedOut
  /\ part = "hda" => Sound!AnswerOwn /\ Sound!PathsFound /\ Sound!Audible /\ Sound!BestChosen
=============================================================================
