# Verification of the iPod Video firmware "core"

`core` is a firmware for the iPod Video (5.5G): one ARM core, no operating system, a cooperative main
loop, a 100 Hz tick interrupt and a DMA completion interrupt, and a disk that is parked most of the time.
What goes wrong in such a program goes wrong between two of its steps: an interrupt between a copy and a
publish, a power cut between two sector writes, a frequency switch that is refused because audio is playing,
a track that ends while the next one cannot be opened. Unit tests (`core/tests`) check each function on
given inputs; this directory checks the orders.

Everything is translated from the C source. Names are the source's where TLA+ allows it. `PROJECT.json` lists, for every
definition, the lines it stands for.

## The system

| Part | State it keeps | Operations and who calls them | Hard behaviour | Properties | Where |
|---|---|---|---|---|---|
| PCM ring (`kernel/pcm_ring.c`) | two wrapping word indices and the slots | write (foreground), read (DMA interrupt), fill, free, init | either side runs between any two steps of the other; indices wrap | in order, complete, exact count | `PcmRing`, `FrameFifo` |
| Audio output (`hal/hw/audio.c`, `dma.c`) | two buffers, the active one, where it was kicked and cut | init, start, stop, close; completion interrupt | pause in mid-buffer, short reads, cut between last frame and interrupt | heard in order, refill never under the DMA, clocks held, quiet when stopped | `AudioHal` |
| Playback engine (`player/player.c`) | queue, decoder, ring, the queued hand-over, transport | pump (each pass), play, stop, pause, next, previous, jump, seek, modes | gapless hand-over, change of rate, tracks that fail, interrupt drains meanwhile | right rate, title and cover with the sound, nothing skipped, never silent for good | `Player` |
| Read pipeline (`codecs/diskbuf.c`, `readahead.c`, `fat_src_*` of `player.c`) | anti-skip window, watermarks, latched error; a cursor in every layer; checkpoints | pump (each pass), read, seek (codec) | lazy moves, eviction, retries across passes, an access that fails half way | the bytes are the file's, a failure shows, a burst ends | `ReadPipe`, `ByteSource` |
| File system (`fs/fat32.c`) | geometry, a stream's cursor | mount, list, read, stream, skip, address of a cluster | cyclic and cut chains, failing lookups, 32-bit geometry | listings and reads follow the chain, an address is exact or refused | `Fat32` |
| ATA (`hal/hw/ata.c`) | parked flag, the command in progress | read, write and flush, standby, wake-up | spin-up, time-outs against late answers, errors between blocks, physical sectors | success is exact, every call returns, the drive is left clean | `Ata`; the hold in `PowerPolicy`, the flag in `Duty` |
| Settings store (`kernel/config.c`) | two slots on disk, sequence word, the newest slot | load, save | power loss, torn writes, drive cache, errors, wrap | settings survive; only the file is written | `ConfigStore`, `SettingsRegister` |
| Duties of the loop (`main.c`) | pending save, resume place, open and end counters, idle time | a pass: edges, input, debounced save, idle park; suspend, boot | a save held back while the drive rests, counters compared on edges, three notions of a parked drive | what is clean is saved, a finished queue is forgotten, changes reach the disk, the platters rest | `Duty` |
| Clock driver (`kernel/clock.c`) | PLL, bus timing, boost count, deferred switch | boost, unboost, audio DMA on/off, set frequency | order of register writes, PLL that does not lock, refusal under DMA | bus never too fast, no request lost, nothing moves under DMA | `Clock` |
| Power policy (`main.c`, `ata.c`) | backlight, idle boost, PLAY hold, suspend | one pass of the loop, `suspend_to_ram` | every stretch may block on the disk; counted boosts | commands and playback at full speed, no boost leaked, idles slow | `PowerPolicy` |
| Click wheel (`hal/hw/clickwheel.c`) | latched buttons, accumulated motion, Hold edge, bring-up flag | sample (tick), drain (loop, suspend) | Hold flipped at any moment; bring-up deferred to the drain | motion conserved, unlock carries no input, a press is seen | `Clickwheel` |
| Album list and covers (`ui/artcache.c`, `main.c`) | ways by age, given-up and retried albums; what the panel shows | scroll, open, repaint whole or in part, load a few covers | eviction during a draw, repaints that skip rows, reads that fail | a row shows its own album, no visible cover is evicted, no visible row starves | `AlbumList` |
| Scheduler, tick, interrupts | tasks, tick count, masks | yield, sleep, tick | register read-modify-write against the tick | | the tick in `Clickwheel`, the completion interrupt in `AudioHal`, `Player` |
| Tag parsing, playlists' text, screens, LCD, battery, codec registers, boot, faults | little | straight-line | I/O | none of state | not modelled |
| Command-line tool (`core/cli`) | on-disk cache, binary files | fetch, cache, build, read | partial writes | hits with attribution, round trips | not modelled |
| Host scripts, simulator, vendored decoders, generated atlases | | | | | not modelled |

They meet in few places. A codec reads through `readahead` over `diskbuf` over a FAT stream over the ATA driver. The player decodes
on the main thread into the ring; the completion interrupt takes
buffers out of it for the audio output, which tells the clock driver when the DMA is on; the clock driver
then refuses switches, and the power policy has to have asked for full speed before. The tick samples the wheel and the main loop drains
it, once a pass and in `suspend_to_ram`. Settings go through the ATA driver's write and flush, at a place the FAT reader resolved.

## Modules

**PcmRing** splits a write and a read into sampling both indices, copying frame by frame and publishing; a frame is its
position in the stream. `wr` and `rd` are words of `Laps * Cap` values. **FrameFifo** is what the header promises; `ImplementsFifo`
(and the theorem `Refinement`) says the ring implements it, with `published` for sent and `delivered` for heard.

**AudioHal** has three actors: the foreground, whose calls are split at every register or flag another actor
reads, the interrupt (kick, then refill) and the DMA engine, which clocks out one frame at a time. A behaviour keeps to one of the
patterns of calls in `Patterns` (pauses per buffer, on its boundary, while stopped).

**ReadPipe** is the chain of three layers a codec reads through, every turn of their loops a step, every access one that may fail. A byte is its
offset, so a byte from the wrong place shows. What makes the chain hard is that every layer keeps its own idea of where the layer below stands
and moves it only when it reads. **ByteSource** is what `decoder.h` promises a codec: bytes of the cursor's place, in order, short only at the end or with
a failure, and a failure that may be retried.

**Fat32** takes its geometry from a boot sector in words of `Word` values, and walks chains that may be sound, cut short or cyclic, with any lookup failing: the directory
walk with its tortoise and limits, the whole-file read, the stream with read and skip, and `fat32_file_lba`, the only address anything is written to.

**Ata** is the driver, split wherever the drive may change its status between two looks, and the drive: busy, offering or wanting
a block, in error, silent; with a write cache. A command issued in the middle of a write may be ignored (`Commanded`), as the ATA standard leaves that open.

**ConfigStore** is `config_load` and `config_save` over two slots, each with a platter and a cached content. A write or a flush fails with nothing,
half or all done; the drive writes back when it likes; power fails between any two steps. A slot that is not one whole record is `Torn`. **SettingsRegister**
is one durable value; `ImplementsRegister` maps it to the values a boot could now load.

**Duty** is what a pass does besides the screens: the pump's part in waking and parking the drive, the edges of the transport that capture or drop
the resume place, the input, the debounced save and the idle park; suspend, standby, Disk Mode, power cuts and boots. A save is one step there:
`ConfigStore` is about its inside.

**Clock** has one action per register write of `set_cpu_frequency`. **PowerPolicy** EXTENDS it with one pass of the main loop in its order (pump, long press, Hold edge,
input, backlight, boost, commit), `suspend_to_ram`, the hold that ATA commands take and the audio output's word on the DMA. Time is counted in units of
the two-second hold. A second mode, `phase = "any"`, has callers of any kind in place of the loop.

**Clickwheel** runs the tick whole between any two steps of the drain and of the loops around it. The wheel block has a clock and a configuration;
one that is not configured gives no good packet.

**Player** has one action per command, and the pump split where the interrupt matters: hand-over check, decode step, end-of-track handling, advance.
A frame stands for a decode step and for a DMA buffer, and is named by queue entry and place. `Tried` gives the entries a bounded chain of
failing opens may have reached; an open succeeds, or goes on from there. `Decode` may stop early on a read fault, which latches
`dead` (`diskbuf_error`). `bufs` are the two buffers the audio output has pulled; pausing keeps them, a cold start refills them, going idle drops them.
The bursts of the disk buffer are in `ReadPipe`, parking is in `Duty`. Left out: the elapsed clock (`PrevTrack` is the branch of the first three seconds, the other
is `Jump` to the current entry), statistics and tags.

**AlbumList** has the cache as a sequence, the least recently drawn cover first (which way one lies in is of no interest), the list with its selection, and what every row on the panel shows: the
partial repaint draws two rows on the strength of what the last paint noted.

**ModLemmas**, `*Proofs`: see below. Each `MC*` module gives a module its small instance.

## Runs

Each property of a passing run has a mutant: a plausible mistake in one mapped definition under which TLC finds it violated.

| Run | Bounds, and why they suffice | Shows |
|---|---|---|
| `pcm_ring` | 4 slots, words of 8, 11 frames: both indices pass the wrap and every alignment of call and slot occurs | type, exactness, disjoint slots (`RingSafe`), order, the refinement |
| `audio_pingpong` | buffers of 3 frames, answers of 0, 2 or 3, 9 frames, 3 pauses; one pattern with one pause in each kicked buffer and not on its last frame, others without those limits | under every pattern the refill is never under the DMA, the clocks are held and a stop is silent; under the gentle one the stream is heard once, in order, and everything pulled is heard |
| `read_pipe` | 7 bytes in sectors of 2 and clusters of 4, a window of 4 with watermarks 2 and 4, two checkpoints, two failed accesses or a disk that dies, one seek: the window wraps and evicts, reads are short and bulk, a rewind finds either checkpoint or none | the window's bytes are those of their offsets, the chain implements the source, a burst ends |
| `read_shift` | the same | *violation*: `WindowIsFile`, the finding |
| `fat32` | words of 256; every table of a volume of four clusters, and boot sectors of 288 shapes over an empty one: geometry wraps, every chain and cycle of that length occurs | listings, reads, streams and skips follow the chain, cycles end, addresses are exact |
| `ata` | six sectors in physical ones of two, also a command's limit; two writes: heads, tails, bounces, several commands and blocks per call | see below |
| `config_store` | three values, sequence words of 8 values (the wrap is passed), five placements of the file, three of them unusable | durability, the newest record survives, writes stay in the file, the refinement |
| `duty` | one track, debounce 1, idle 2, bursts of two: each timer both runs out and is restarted | see below |
| `power_policy` | suspend after 1 unit, dim after 2, off after 10, stretches of 0 to 2 units, two boosts at once | see below |
| `clickwheel` | one button, six positions, steps of two, accumulator to 2: both half turns, the wrap and saturation occur | motion, unlock, wake-up |
| `player` | two queues: one of three tracks with own covers, one at another rate, one that may fail to open; one of four with a shared cover, a folder, a rate the DAC cannot do and a file that never opens. Off, repeat one, shuffle with repeat all. A ring of two frames, longest file three, frame count mod 6 | see below |
| `album_list` | three rows, five ways (what two windows that share a row ask for; the code has 16 for 6 rows), six albums, one unreadable now and then, one with a cover in its fallback only | rows show their albums, visible covers stay, visible rows resolve |

`ata`: a call that returns success did exactly what was asked (`TransfersExact`), whatever failed before it; every exit gives the clock hold back, a failed read leaves the drive clean,
and the drive is never asked for half a physical sector (`ExitsSound`); a silent drive hangs nothing (`CallsReturn`). `TransfersExact` is claimed as long as no command is issued in the middle of a write: that the firmware can do so is divergence 5.

`duty`: settings with no save pending are those on the disk unless a save failed, and a drive not said to be parked is turning (`DutySound`); a queue heard to its end is not restored (`EndIsForgotten`); a change is saved in the end unless a paused track holds it
back (`SavedEventually`), and a device left alone parks its drive (`Rests`).

`power_policy`: drive commands and streams run at full speed (`PolicySafe`), the boost count is what its holders say (`BoostCounts`), and a device left alone ends at the slow clock (`IdlesSlow`). In the mode with any callers too, the core and bus are never clocked beyond their timing (`BusSound`), a refused switch is remembered and the latest one wins (`LatestRequestKept`),
and no register moves under the DMA (`FrozenUnderDma`): the firmware's own calls never ask for a switch there.
The stretches are at most 2 units (4 s) because a drive that takes 8 s brings out divergence d below. Its deadlock check is off
because the device may really stop: PLAY held on into the suspend powers it down (`Standby`).

`player`: no frame is clocked at another track's rate, and but for divergence 4 a seek stays in its track (`EngineSound`); title and cover change with the first frame of a track (`ShownIsHeard`, counted at the ring: see divergence e),
hand-overs lose nothing (`NothingSkipped`), a stop has a reason (`IdleIsExplained`), and silence ends (`SilenceEnds`).
The ring is as small as the two buffers a start pulls; files are shorter and longer than it, so a hand-over happens with the old track in the ring, in the buffers only, and nowhere. A frame count of 6 wraps within one file and keeps half its range above the ring, as 2^32 does.

`fat32` claims the geometry only where the boot sector's own sums fit a word (`TrueData(v) < Word`): divergence n.

### Fairness

`AudioHal`: the codec clocks the engine,
a pending interrupt is taken, a foreground call that has begun ends. `ReadPipe`: a read goes on, the player decodes and pumps again and again; accesses fail a bounded number of times, or for good. `Ata`: the processor runs; nothing is assumed of the drive. `Duty`: the loop passes and time goes by; a track that plays is decoded faster than it is heard; a drive told to rest again and again obeys in the end; nothing is assumed of the user, nor that a save succeeds. `PowerPolicy`: drive commands and switches end (both are bounded spins), and the pass goes on: strongly fair, since every stretch of it issues finitely many commands and is disabled only while one is under way. `Clickwheel`: the tick fires and the main thread runs; nothing is
assumed of the user. `Player`: the pump is called on every pass of `run_ui`, and the DMA runs while it is on; commands are not fair. `AlbumList`: passes without work come, the loader is called in them again and again, and a dirty screen is repainted in the end.

## Proofs

| Module | Theorems | Assumptions | Invariant |
|---|---|---|---|
| `AudioProofs`, the ring | `TypeCorrect`, `StreamInOrder`, `FillIsExact`, `NoFrameEarly`, `NoSlotShared`, `RingIsSafe`, `Refinement` (`ImplementsFifo`) | `CapAssumption`, `LapsAssumption`, `MaxFramesAssumption` | `IndInv` |
| `AudioProofs`, the output | `ChannelIsSafe`, `NothingDiscarded`, `SilentWhenStopped` | `BAssumption`, `PullsAssumption`, `BoundAssumption` | `HalInv` |
| `PlayerProofs` | `ClockedAtItsRate`, `TitleIsHeard`, `StreamUnbroken`, `IdleHasReason` | `PlayerAssumption` | `IndInv` |
| `ReadPipeProofs` | `WindowIsSound`, `RefinesSource` (`ImplementsSource`) | `PipeAssumption` | `IndInv` |
| `AtaProofs` | `TransfersAreExact`, `ExitsAreSound` | `AtaAssumption` | `IndInv` |
| `StorageProofs`, the settings | `SettingsDurable`, `GoodRecordSurvives`, `WritesStayInside`, `StoreIsSafe`, `Refinement` (`ImplementsRegister`) | the named assumptions of `ConfigStore`, and `ReadErrors = FALSE` (divergence 2 is what happens otherwise) | `IndInv` |
| `StorageProofs`, the address | `AddressIsExact` | `FatAssumption`: the fields of a boot sector are numbers, a partition starts within a word, a sector has at least 512 bytes | `FatInv` |
| `StorageProofs`, the chains | `ChainsAreFaithful` | `FatAssumption`, with the table: an entry of a cluster the volume has is a number | `ChainInv` |
| `LoopProofs`, the duties | `SettingsSound`, `EndForgotten` | `DutyAssumption` | `IndInv` |
| `LoopProofs`, the wheel | `InputIsSound`, `MotionAddsUp` | `WheelAssumption` | `WheelInv` |
| `LoopProofs`, the list | `RowsAreRight`, `VisibleStays` | `ListAssumption`: no list is empty, and there are at least as many ways as rows (16 and 6 in the code) | `ListInv` |
| `ClockProofs`, the driver | `TypeCorrect`, `BusAlwaysSound`, `FrequencyIsTrue`, `RequestsKept`, `RegistersFrozen` | `BoostAssumption` | `IndInv` |
| `ClockProofs`, the loop over it | `NeverAtIdleClock`, `HoldersCounted`, `DriverKeepsRules` | also `TimeAssumption`, `HoldersAssumption` and `ShortStretches` | `PolicyInv` |

Each module also has a theorem for its invariant (`Invariance`, `HalInvariance`, `PolicyInvariance`, `FatInvariance`, `WheelInvariance`, `ListInvariance`; for the chains it is the lemma `ChainStep`). The instances TLC runs satisfy every one of the
assumptions, and each invariant was model-checked on the run of its module before it was proved.
`ModLemmas` holds what the proofs need of `%`: division, uniqueness of quotient and remainder, differences of wrapped words.

*PcmRing.* The words `wr` and `rd` say nothing of themselves: 0 may be empty or a lap. `IndInv` ties them to the true counts (`wr = published % Word`), keeps each call within
what it was granted, and says that the slots from the oldest frame not taken to the newest one stored hold exactly those frames. Given that, a wrapped difference of at most `Cap` is the true one and a slot index is a function of the frame.

*AudioHal.* `HalInv` has a part for every pattern of calls (the clocks are held from the start of `hal_audio_start` to the cut, the buffer to be refilled is the one the channel has left) and a part for the gentle
pattern. There the two buffers hold the frames that come next, so that what is heard of the active one is the channel's place in it; and a pause must remember exactly that place. It does because a
kick that has not been cut begins at 0, so the time since it is the place; after one pause it no longer does, which is divergence a and the reason for the pattern. The theorem covers any buffer length and any short reads.

*Player.* What is in the air at a hand-over is the problem: the pump only compares two word counts. `IndInv` says whose the frames are: the last `Ahead` frames of the ring are the queued track's, the rest those of the track that is played,
and `Ahead` is at most the ring's length, so the wrapped difference tells. A track at another rate is held back with nothing ahead and its decoder at 0, so that the ring is empty when the DAC is re-clocked. The frame the HAL took
last, the ring and the decoder's place are one stream, each frame the successor of the one before; `NothingSkipped` is that, step by step. Opening a track and going idle establish all of it from any state,
so that commands need no case of their own. The chain of failing opens (`FailedAt`) is a recursive function; that there is one is proved by a least counterexample, its values are not needed.

*ReadPipe.* Every layer keeps its own idea of where the one below stands. `IndInv` makes the accounts add up (what a read has, what it still wants, the cursors of the three layers), keeps every checkpoint sound, and, as long as no failure has slipped through, says that a stream
that could not be followed has said so and that the end of the file was not declared on top of an error. In the refinement a codec's call is `Ask`, a seek `Seek`, its return `Answer`; a fetch or a burst that fails is `Fail` or `Break`, and every other step of the layers is unseen.

*Ata.* `IndInv` ties the command under way to the piece the call has left, what has been taken and what the drive still has on offer to that piece, and the platter and cache to what has been sent. It says nothing of the data once a command has been issued in the middle
of a write (`mixed`, divergence 5). An exit is clean because every path that leaves a read early passes through the recovery.

*ConfigStore.* `Durable` alone is not inductive: one must know which slot a save may damage. `IndInv` looks from the slot of the newest record: the other one is torn,
one step behind, or one ahead and not yet acknowledged, and only that other one is cached or being written. One step of a sequence word is newer, across the wrap, as the word has more than three values.

*Fat32.* `AddressIsExact` is arithmetic. The code computes in words of 32 bits, with tests before each product and sum; `LbaExact` states the address in plain numbers. A cluster number that passes
`cluster_valid` is one the volume has (`ValidFacts`), which bounds its sector, so that no product or sum wraps before the test made for it (`FileLbaFacts`); a cluster ends where the next begins, so the run stays inside the data area and that inside the volume (`InsideFacts`).
The run does this for words of 8 bits and some hundred boot sectors, the theorem for the 32 bits of the device and all boot sectors, but for divergence n.

The chains need no arithmetic of words but an order. `Walk` is a recursive function of the number of links from a start; `ChainInv` says of every call under way how many that is: as many as a listing has clusters, as a read has spent of its guard,
as a stream's cursor has clusters behind it, unless the stream is lost. A listing's tortoise is half as far and has not been met: on a cyclic chain that can last for less than twice the clusters in reach, as is shown
from the first cluster to be visited again (`TortoiseIsMet`). A guard that runs out has counted more links than the volume has clusters, so that two are the same and the chain is cyclic (`TooLongRepeats`, `TooFarIsCyclic`); so no sound chain is cut short.

*Clickwheel.* The main loop reads the Hold switch itself, up to a tick before the driver notices. `WheelInv` (`HoldSound`) says that nothing is latched while the driver holds the wheel for locked, and that once the loop has seen Hold on, the driver has, or will have before Hold can change again: so the drain of the pass that
unlocks finds the Hold edge pending, which carries no input, or the driver still locked, with nothing latched. For the motion, the finger's distance from the reference is what has not been reported, up to a whole turn (`Aligned`); folding recovers it as long as it is at most half a turn.

*AlbumList.* A two-row repaint relies on an earlier paint in two ways. The rows it leaves alone must still show their albums: `ListInv` (`AsPainted`) says that the panel shows what `g_lp` notes, also while a repaint of something else is pending. And their covers must still be
the latest stamps of the cache, so that an eviction finds them only when all ways are theirs (`Latest`); then they and the album claiming a way would be one more than the ways, and with it more than the rows (`GotFacts`). Loading, retrying and giving up keep the order of the other stamps.
The rows of a paint are drawn by a recursive function; that there is one, and what holds after so many rows, is proved by a least counterexample (`DrawingUnfolds`, `DrawnFacts`).

*Duty.* The loop compares counters on edges, so the invariant is about what an edge has already seen: a device that was playing when it went to sleep is paused while it sleeps; what is active when the input is read was active at the edges before it;
and from the end of a queue until the loop has seen it stop, the end is still counted.

*Clock.* `BusSound` depends on the order of the writes. `IndInv` says, for each step of a switch, what the writes before it have established: on the crystal before the PLL is programmed, slow timing relaxed before, fast timing after.

*PowerPolicy.* `PolicyInv` counts the holders of the boost for every place in the pass. The hard case is the suspend, which gives back a boost on the ground that the screen is lit (divergence d): the invariant is that a PLAY being timed keeps the screen lit, as long as the stretches are short,
`3 * Slow + HoldTime <= OffTime`. The run's bounds meet that bound exactly; with longer stretches TLC finds the leak.

Every safety invariant, action property and refinement of the runs is proved. Only model-checked, for good: liveness (`PulledIsHeard`, `SilenceEnds`, `BurstEnds`, `CallsReturn`,
`SavedEventually`, `Rests`, `IdlesSlow`, `PressIsSeen`, `Resolves`), as the prover has no rules for fairness or ENABLED. The provers cannot instantiate an induction theorem with an operator, so the three recursive functions a proof needs are dealt with by a least counterexample; recursive operators are kept out of the modules that are proved about.

## Finding

`read_shift`: a bulk read is made of several accesses. When one fails after others succeeded, `fat_src_read` returns 0 with the error set, and leaves `phys` and `pos` where they were; the FAT stream inside has moved on.
The anti-skip buffer retries in the next pass, as meant for a fault that passes; `phys` equals `pos`, so nothing is skipped or rewound, and the good read clears the error. What it delivers lies further on in the file
than the offsets it is stored under, though `diskbuf.h:62` says of the window that "Bytes [win_lo, wr) live in the ring at buf[offset % cap]". Nothing is reported; the shift lasts until a seek goes back behind `phys`.
The counterexample has two steps: a burst that fails in its middle, and its retry. Because of this the passing run claims `WindowSound` and `ImplementsSource` only until a failure has slipped through (`slipped`).

## Other divergences

Each of the first seven is reproduced by a configuration that is not one of the runs: `tlc -config <file> <module>`.

1. `PlayerTail.cfg` (`MCPlayer`): the output is stopped when the ring is empty, with up to two buffers pulled and not played, where a comment says "Play out what is already decoded".
2. `ConfigOneUnread.cfg` (`MCConfigStore`): a slot that cannot be read at boot is treated as invalid; if it was the newest, the next save targets it.
3. `ListPartial.cfg` (`MCAlbumList`): a cover that appears and a move of the selection before the same repaint: the partial repaint clears `dirty` and the cover stays unshown.
4. `PlayerSeekLost.cfg` (`MCPlayer`): after a prefetch that opened nothing a seek calls a decoder whose source and memory belong to the file that failed.
5. `AtaWrite.cfg` (`MCAta`): `ata.h` says that on any of the failure codes the driver has run the recovery and the drive is not left in the middle of a command. The write path runs none. A drive still spinning up when the four seconds end asks for its data afterwards; DRQ comes with RDY and without BSY, so the next command is issued on top.
6. `ReadShort.cfg` (`MCReadPipe`): when the skip to a position is stopped by a FAT read that fails, the read that follows gives nothing and no error, which the layers above take for the end of the file.
7. `DutyExit.cfg` (`MCDuty`): Disk Mode (`main.c:4860`) leaves without `settings_commit(1)`, though a comment says the forced paths cover every graceful exit.
8. A second `hal_audio_stop` while stopped counts the pause as playing time (`player_seek_to` does it when paused); the rest of the buffer is dropped. `HeardInOrder` without its condition on the pattern (`again |-> TRUE` in `Patterns`) shows it.

Met while reading and modelling:

- a. Two pauses inside one buffer repeat what lies between them (`audio.c`, resume measures against the second kick); so does a pause between the last frame and its interrupt. `audio_pingpong` claims the order only for the pattern without both.
- b. With both slots unread at boot, `config_load` leaves the sequence at zero and the next save starts over. Stated by `ReadErrors`.
- c. With no valid record, a comment in `config_load` and the message of `make_config.py --verify` say the first save writes slot 0; it writes slot 1, the one that is not `g_cfg.slot`. `make_config.py` picks the newest slot by an unsigned comparison, so after the wrap it names another than the firmware loads.
- d. `suspend_to_ram` gives a boost back on the ground that it is "entered from BL_FULL" with a count of at least 1. Stretches of 8 s on the drive around a press let the loop go idle, boost returned, before PLAY has been seen held; the count is then at 0 and wake-up takes one too many.
- e. `player_pump` takes `g_written - fill` for the frame being heard; two buffers are still ahead of it, so title and clock are up to 372 ms early.
- f. `player_jump` to a track that fails while paused starts the next one playing, though its comment says it "Keeps a paused transport paused"; `Advance` is modelled as it is.
- g. `player_seek_to` keeps the two buffers of the old place, which are heard first after the seek.
- h. `player.h` says the end counter is not bumped by a skip or a new queue; `player_next` on the last track and a launch of files that all fail do.
- i. The tick can sample the wheel block in the middle of its bring-up, which the comment in `clickwheel_service` says would "decode garbage": the drain clears the flag before it configures the block. The sample's header check drops it.
- j. A press between the wheel's bring-up and the snapshot is dropped with the Hold edge.
- k. While the drive is parked and the ring full, `player_pump` re-issues STANDBY on every pass, where a comment in `main.c` says it is never re-issued; and the idle park of the loop stops the platters behind the player's back. Only reads clear `g_ata_parked`, so after a settings write it says parked of a turning drive (the comment calls it "authoritative").
- l. The end counter is compared only on the edge of playback. A queue that never played bumps it without an edge, and the next stop then drops the resume place of a track that did not end.
- m. A cycle of two clusters in a directory lists its entries again before the tortoise meets it, and a cycle that closes late on itself is found only after that; a cyclic file read in small pieces repeats data without an error, as its guard is per call; an entry that names no cluster ends a chain like an end of file.
- n. `fat32_mount` does not check that the reserved sectors and the tables fit 32 bits; a volume of less than one cluster counts as one of unknown size.
- o. A failed read of the one visible cover that is missing is not tried again until something repaints; a failed `folder.thm` does not fall back to `folder.art`; the retried mark outlives a success.
- p. Nothing drains, resets or reports on the drive when `ata_wait_ready` gives up: the header's promise does not hold for code -1 either. A read of no sectors succeeds without looking at the drive, so `ExitsSound` says of a read that it leaves a clean drive only if it asked for something.

## Not modelled

The implementation counted with its vendored decoders and generated font atlases has some 76 000 lines; without them 17 000 to 20 000. The modules stand for nearly 4 000 of them, close to all
of what keeps state across calls and can meet an interleaving, a failure or a wrap. What is left, and why:

- *Vendored and generated code* (`dr_flac`, `dr_mp3`, `stb_image`, atlases): not this project's own; a decoder is in `Player` as what it returns.
- *Screens, text, LCD, palette, console*: drawing. No property of the design is about pixels; what a row shows is in `AlbumList`.
- *Tags, playlists' text, name matching, the bytes of the settings record*: conversions of data without state, for which unit tests over inputs are the better tool.
- *Codec, volume, backlight levels, I2C, I2S, battery*: register sequences, straight-line for a request, whose correctness is an instrument's matter.
- *Boot, faults, libc, scheduler*: one thread runs, so the round robin has no interleaving to get wrong; the reconciliation of ticks with the microsecond timer is not modelled.
- *Command-line tool and scripts*: sequential programs; the one crash hazard (an image without its provenance) is listed without a property.

In modelled parts: `hal_audio_drain`, `clickwheel_poll` and `ata_identify`, which nothing calls; relative seeks of the pipeline and `arena.c`; sector caches of the FAT reader; the scaling of covers.

## Plan

Done: all modules above, the proofs above; of the runs' properties only liveness is without one.
To be modelled if a question asks for it: the tick against the microsecond timer; the record's encoding.
