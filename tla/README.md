# A TLA+ development for omarchy-ane

This directory holds TLA+ models of the Linux drivers for the Apple Neural
Engine, TLC configurations that check them on small instances, and TLAPS proofs
about the M1 and M2 drivers. Paths are relative to the repository root.

## 1. The system and its parts

| Part | Code | State | What makes it hard |
|---|---|---|---|
| M1 driver `ane.ko`: buffers, submit, removal | `ane/src/ane_drv.c` | GEM objects, handles, `drm_mm` ranges, DART translations, preserved list, wedge flags | lookups before `engine_lock`, frees from any context, removal under a dead engine |
| M1 task manager | `ane/src/ane_tm.c` | the pushed task, its events, `wedged`, `quiesced`, `por_pending`, `scratch_retained` | hangs, late events that do not name their request, recovery in two stages with a power-off between them |
| M1 DART faults | `ane/src/ane_dart.c` | scratch page mapped under a fault | drains are bounded, and may be retained until reboot |
| Counters and timeline | `ane/include/ane_stats.h`, `ane/ane_stats_show.c` | `inflight` with a sentinel, period start and end, ring of slots | no lock at all: producers race each other and the readers |
| Boost, clock level | `ane/src/ane_boost.c`, `ane_dvfs.c`, `ane_dvfs_req.h` | delayed work, PMP request word shared with other clients | a timer against a submit, an unlocked read-modify-write, an acknowledgement that times out |
| M2 driver `ane_t6021.ko`: buffers and pool | `ane/t6021/ane_t6021_rtclient_main.c`, `ane_t6021_pool.h` | krefs, the pool of parked buffers, byte budgets | the pool runs under its own spinlock; budgets are charged before there is room |
| M2 programs | same, `ane_t6021_progtab.h` | table of programs shared by content, firmware programs and processes | what the firmware holds must outlive close, free and munmap |
| M2 command channel | same, `ane_t6021_mring.h`, `ane_t6021_legtab.h` | three rings, table of firmware allocations | the firmware asks for memory in the middle of a command; one constant cookie |
| M2 probe, boot, firmware load | `ane_t6021_rtclient_main.c`, `ane_t6021_boot.[ch]`, `ane_t6021_fwload.c`, `ane_fw_validate.h` | probe's resources, alias map, boot registers, SCRATCH words, dirty latch, poll work | early returns that leave hardware half programmed, a worker armed before probe is over, a core that cannot be parked |
| M3 module | `ane/h15/ane_h15_main.c`, `ane_h15_fwload.h` | windows, domains, image, mappings, RTKit and channel state | eight stages with a dozen switches, firmware that answers late or not, a core that does not stop |
| M4 module | `ane/h16/ane_h16_main.c` | staged image, page mappings, RTKit | a mapping made page by page over a domain others use |
| M6 module | `ane/h18/ane_h18_main.c` | power slots, mailbox queue, command ring, firmware allocations | the firmware asks for memory during a command |
| M1 laboratory modules | `ane/h13/*.c` | runtime PM borrowed from the driver next to them, mailbox, staged pages | two modules on one device |
| Run-time overlays, boot tree readers | `ane/h15/ane_h15_overlay.c`, `ane/h16/ane_h16_overlay.c`, `ane_h15_adt.h`, `adt_*` of `ane_h16_main.c` | the live device tree | edits in steps, each of which may fail, and others edit too |
| T8110 DART page tables | `ane/common/dart_t8110.h` | multi-level page table | index arithmetic, tables allocated in the middle of a call |
| Library on the M1 | `libane/ane.c`, `ane_bind.h` | device, buffer objects, channels, state buffers | partial failure of open and of a loop |
| Library on the M2 | `libane/ane_m2.c` | sections, io buffers, the shared program | another process loads or closes the same program meanwhile; slots bound by inference |
| ane-session, ane-run | `tools/` | cached programs, states, one stream; a port table | raw bytes and commands in one stream |
| Other tools, packaging, bindings, scripts | `tools/`, `packaging/`, `bindings/`, `rtkit/`, `scripts/` | files | sequential I/O |

How they interact: an ioctl of either driver takes a runtime PM reference
(resume runs `ane_tm_enable` and `ane_dvfs_up`), a submit brackets the engine
with `ane_boost_begin/end` and `ane_stats_begin/complete`, and suspend runs
`ane_dvfs_down`. On the M2, every firmware command of the program table goes
through the command channel under `ane_t6021_fw_lock`. `libane/ane_m2.c` is
that driver's client: it looks a program up by digest before it loads it, and
ane-session and ane-run sit on top of it. The bring-up modules replace the
driver of their chip; the overlay code adds the node they bind to, and the tree
readers tell them where the boot loader put the firmware.

`PROJECT.json` lists every part with its status, every hazard at its line, and
for each definition the lines it stands for.

## 2. Modules

- **AneDrv** (ane_drv.c, ane_tm.c, ane_dart.c). A call is a thread that enters
  (`Enter`: PM reference, lookups), takes `engine_lock` (`mutex_lock`), runs
  `ane_tm_recover` (`recover_*`), does its work and leaves. Sections under the
  lock are cut where the hardware or a failure can act. `hw_*` and `power_off`
  are the engine and the power controller. A page-wise map either succeeds or
  fails as a whole; a buffer is one page. The SET window is mapped (when its
  ioremap fails, `ane_ps_verify_on` skips its check and `EnginePowered` is not
  claimed).
- **AneStats**: one step per access to a shared word. `rec`, `line`, `value`,
  `busy_max` are history variables.
- **AneBoost**, **AneDvfs**, and **AnePower**, which composes them as the runtime
  PM callbacks, submit and remove do. The level word and the DVFS block are as
  the boot loader left them, set or not, until the driver first writes them. A
  wedge ends in a recovery, whose stages are AneDrv's, or in the forced removal
  of the device.
- **AneT6021**: buffers, pool, programs, close, quarantine. A firmware command is
  answered or fails. The sections of a load are distinct objects (the code
  counts one reference per section slot). `unload_on_close` is chosen at each
  close. The budget is either 0 or `Budget`. The branch of
  `ane_t6021_bo_release` for a program's buffer is kept although a program's own
  reference keeps it from being reached.
- **AneT6021Chan**: the transport below it, with the firmware as environment.
- **AnePages** (ane_drv.c, `ane_iommu_*`): the same mapping page by page: the
  aperture, the purge of stale entries, the batch path with its short result,
  one heal per page, rollback, and unmaps that the IOMMU layer loses. Sizes are
  as wide as in the code: the node and the offset of the page loop have 32 bits,
  the batch and the unmap do not. **AneRange** states what callers rely on: a
  buffer appears and disappears as a whole.
- **AneProbe** (ane_drv.c): probe with its tier gate and every error label,
  remove, and a client that uses the device as soon as it is registered.
- **AneT6021Bind** (rtclient, fwload, boot): probe, firmware staging with the
  alias map, the boot sequence with its latch, the handshake, the poll work,
  the performance mode, remove and reload. **AneT6021Prep**: the arithmetic of
  that boot (reset vector fold, sizes, surfaces, published words), with words
  that wrap. **AneFwPatch**: the chip revision from fuses or the SoC row, the
  choice of the tunables, and the checks and writes of
  `ane_fw_apply_boot_patches`, at the source's own addresses.
- **AneH15**, **AneH16**, **AneH18**: the bring-up modules, one action per step
  of probe's stage, with the firmware as environment. A resource is a name in
  `held`. A wait loop is a state that is left when the awaited fact holds or, at
  any time, by its time-out. AneH16 and AneH18 can be loaded again, with or
  without a core that the last load left running. **AneH18Malloc**: the
  allocation ring that `ane_h18_mal_service` answers.
- **AneH13** (perf, fw and ascdbg modules next to the legacy driver, which may
  also be removed wedged), **AneAscdbg** (the bounds of the debug commands, with
  sums that wrap),
  **AneRaise** (pdraise and venc: domains held up by dummy devices).
- **AneDart8**: `dart8_cfg_init`, `dart8_map` page by page, `dart8_translate`.
- **AneOverlay**: loading and unloading the overlays of M3 and M4 in a live tree.
  **AneAdt**: the recursive and the iterative reader of the boot tree, on the
  same blobs, and both decoders of segment-ranges; blobs may end early, count
  a child that is not there, hold a garbage count, or be deeper than the stack
  of the iterative reader.
- **AneLib**, **AneTile**: libane on the M1, with sizes that wrap at a word.
  **AneM2**: its M2 device path, several processes on one driver (the driver's
  side is AneT6021). **AneM2Build**: the program builder.
- **AneSession**, **AneRun**: the two tools with state.
- **AneDrvProofs**, **AneStatsProofs**, **AneHwProofs** (AnePages, AnePower),
  **AneT6021PoolProofs**, **AneT6021ProgProofs** and **AneT6021Proofs**
  (AneT6021), **AneT6021ChanProofs** (AneT6021Chan, AneM2), **AneClientProofs**
  (AneSession, AneH18Malloc): theorems (section 4). **AneFinite** states the
  facts about finite sets that the AneT6021 proofs take as a hypothesis and
  discharge at their end.

**MC...** modules give sizes, sets and symmetry. Two of them compose modules
that share no state but make the same claims: `MCBoot` (everything that powers,
maps or starts an engine) and `MCHost` (the host side). A behaviour there is the
life of one part, chosen by the variable `part`; the modules take their
variables by name, and variables a part lacks stay `Off`. A claim such as "what
was acquired is released" is then one property with one conjunct per part.

Definitions named `Bug_...` are no part of a model. Each is a plausible slip in
the definition that follows it; put in its place, TLC refutes the property that
guards against it. A composed property has one for each part it speaks of.

## 3. Runs

| Run | Question | Result |
|---|---|---|
| `drv_safety` | Do pages, ranges and translations survive frees, faults, wedges, recovery, suspend and removal as long as the engine may use them? Does a submit succeed only on its own completion? | holds |
| `drv_live` | Does every call return? Is a gated wedge retired? | holds |
| `stats` | Are periods counted once, is `inflight` exact, is a timeline line its submission's? | holds |
| `stats_monotone` | Is the reported busy time non-decreasing? | refuted |
| `stats_torn` | Are torn timeline lines impossible? | refuted |
| `power` | Does a busy submit keep its boost, is the level raised only under a request, are other clients' requests kept, is the device gated only at the level it was found at or 0, is the boost dropped? | holds |
| `boost` | Is the boost always dropped? | refuted |
| `t6021_prog` | Does the firmware only ever hold live memory; does the table agree with it; does the process go before its program? | holds |
| `t6021_io` | Is the firmware done with a buffer that BO_INIT hands out? | refuted |
| `t6021_chan` | Does a call end on its own finish; do host and firmware stay on the same slots; is the memory the firmware has in the table? | holds |
| `boot` | Nine claims on the drivers that power, map or start an engine, below | holds |
| `host` | Six claims on the host side and the M2 buffer pool, below | holds |

`boot` checks:

- `Unwound`: after any failed step, and after remove, nothing stays acquired but
  what a started core may use.
- `CoreKeepsMemory` (h15, h16, h18, M2): while a core may run, nothing it can
  reach is freed or unmapped. On h15 and M2 its power stays on as well; h16 and
  h18 make no such claim, and the h13 modules none at all (see below).
- `NoBlindMmio`: no register access without window, power and gate, on an
  unqualified tier, or outside the aperture.
- `RtkOrder` (h13, h15, h18, M2): the handshake keeps its order for any firmware.
  On h13 and M2 no word of an earlier start counts as an answer; on M2 the
  firmware is staged once in a boot and a failed gate is not written again.
- `RunAfterPreflight` (h15, h16, h18): the core is released, and on h15 and h18
  told to go on, only after the checks of its driver.
- `SharedSound`: commands do not overwrite slots the firmware owns, each served
  address has one live buffer, published sizes are those allocated, and the
  image is patched whole or not at all.
- `TranslationExact`, `MappingsKept`: page tables say what was mapped and nothing
  else; nobody's page is replaced, and only h16's unwinding removes one.
- `MapsWhole`: the refinement, up to the first buffer that does not fit 32 bits.
  Under the mapping `tr <- Translation` (the entries of buffers whose call
  completed), every step of AnePages is a step of AneRange or a stutter,
  whatever pages failed, were healed or lost.

`host` checks:

- `ReleasesAll`: failed and freed loads, runs and overlays leave nothing behind,
  phandles and the cases listed below excepted.
- `ProgramsSound`: a program that is ready is whole if its header's size fits
  channel 0, and each slot of an M2 program resolves to one buffer that it
  binds, the one its own task asks for or the scratch buffer. That references
  stay inside their buffers is claimed for programs with a port table and for
  conflicts merged into one scratch slot; derived programs in general are sized
  by rules that promise no such thing. In the M2 driver, what the firmware holds
  is never freed, with buffers that are mapped and unmapped meanwhile
  (`t6021_prog` checks the same with two files and without mappings,
  `UnmappedSpec`: both together are out of reach).
- `DataKept`: the state of a loop that fails half-way, of a session's program, of
  a tiled round trip, and the files named for ports, arrive where they belong.
- `TreesAgree`: both readers of the boot tree find what a plain search finds and
  never another node, both decoders give the same ranges, and minted phandles
  are unique; the limits in which the readers differ are listed below.
- `Accounted`: references, pool bytes and total bytes of the M2 driver, the users
  of a shared program, and a session's projected demand are exact and within
  their limits.
- `FailureFinal`: after a failure ane-session runs no program and reports it.

### The four disagreements

- **Busy time can go back** (`ane/include/ane_stats.h:427`: "Over the timeline the
  reported value is non-decreasing"). The live tail
  of an open period runs to the reader's clock. The fold at the close runs to the
  `end_ns` that the completion sampled before it reached the counters. A report
  between the sample and the fold is therefore larger than the next one.
- **Timeline lines can be torn** (`ane/ane_stats_show.c:29`: "torn reads are
  impossible by construction"). `seq` is read once, before the fields. When the
  ring comes round to the slot meanwhile, the line mixes two submissions.
  `TimelineExact` shows that this is the only way.
- **The boost may stay on** (`ane/src/ane_boost.c:23` "drop it boost_idle_ms after
  the last one completes", `:83` "its own completion re-arms the drop"). If
  `boost_idle_ms` is raised after the last completion, the work finds the idle
  time too short, returns, and nothing arms it again. `BoostDropsAsArmed` shows
  that the drop does come when the parameter is left alone.
- **A buffer in use can be handed out** (`ane_t6021_rtclient_main.c:1600` "Under
  bo_lock the handle reference cannot go away, so no kref is needed here").
  `bo_lock` is dropped before the command is sent. A BO_FREE by another thread
  of the same file parks the buffer, and a BO_INIT takes it from the pool,
  zeroes and returns it while the firmware still works on it.

### What the properties except

Modelling met places where the code does less than a property would like. Each
is an exception in the property, at its definition, or a claim the property does
not make; the rest is still checked. They are observations on the code, not
results of a run.

Excepted in a property:

- h16 (`OthersKept`): when the mapping of the image meets a page that is already
  mapped (`ane_h16_main.c:967`, "refusing to alias over it"), the unwinding unmaps
  that page too. It is the case for which a reader would want the property;
  what it still says is that no other step takes such a page. (`CoreKeepsMemory`):
  after a wake time-out, a reload does not know of the core, meets the image of
  the first load in its own way and takes it down.
- h18 (`NoBlindMmio`): with `psd_slots=1` and no kernel power domains the SCRATCH
  words are read with the second slot off, though the comment where the page is
  mapped says that "the words are read after both PSD slots acknowledged"
  (`ane_h18_main.c:2421`). (`Unwound`, `CoreKeepsMemory`): what a load left to a
  core that did not stop is forgotten by the next one, and never freed.
- h15 (`Unwound`): a core this driver released is seen stopped; RUN that was
  found set at probe is no claim of this driver.
- Overlays (`TreeRestored`): `ane_h15_overlay_remove` clears its flag though the
  removal failed (`ane_h15_overlay.c:221`); the overlay stays.
- M2 (`PollFenced`): the poll work outlives a probe that fails after the core was
  started, and a writer of `fw_perf_mode` reads its pointer before it takes the
  lock. (`CoreKeepsMemory`): the pmgr page is mapped only for a latched vector,
  and for a vector that is latched with entry 0 the alias map is skipped, so the
  core is started with nothing mapped at its entry.
- ane.ko power (`PowerSound`, `BoostDropsAsArmed`): the forced removal of a wedged
  device ("reboot required") takes neither level nor boost down. Without the
  locked writer of PS-REQ nothing is claimed of other clients' bits, as
  `ane_dvfs.c:41` says. (`CommandFollowsLevel`): a level word found set at
  power-up is not the previous level of the first command.
- ane.ko pages (`TranslationExact`): `bo->npages << ane->shift` is computed in 32
  bits (`ane_drv.c:266`), so a buffer of 4 GiB or more, which nothing refuses,
  gets a node smaller than itself. The claims hold until one is mapped.
- ane.ko (`ProbeUnwound`): a client may map a buffer between DRM registration and
  a failing `ane_stats_init`.
- h13 (`H13Ordered`): a STARTEP that was lost does not keep the command from
  being sent. (`H13Unwound`): a legacy device that is removed wedged stays
  pinned, and the first domain stays attached when `fw_attach_genpd` fails with
  a count of one. (`LegacyPmKept`): a visit of `ane_ascdbg` leaves the legacy
  device's runtime PM disabled. (`H13Powered`): a visitor pins the device and
  not its driver, which may be unbound under it. (`CommandInside`): the check of
  an offset wraps at the top of the machine word (`ane_ascdbg.c:63`), and the
  block check of `itr` misses one word.
- libane (`LibReady`): the header's `size` is not compared with the tiles of
  channel 0; a larger one is written past the buffer.
- `ane_tile` (`TilesRoundTrip`): planes smaller than their rows overlap; a span
  that exceeds 64 bits wraps to one that fits; and a geometry without elements
  has span 0 while its planes are cleared all the same.
- M2 builder (`SlotsResolved`): a slot whose tasks disagree is merged into the
  scratch buffer also when its first reference is a source, or when it mixes
  destination and source: `scratch_eligible_addr` accepts sources
  (`ane_m2.c:574`). Its comment wants the head task's reference to be a
  destination (`:555`), the one of `derive_refs` says that such mixes "refuse"
  (`:605`), and so does the error text ("not both TileDMA dst or KernelDMA").
  Bit 28 of a record is refused by the derived path and taken as the top bit of
  the slot by `check_bound_slots`.
- Tree readers (`AdtAgrees`): the M3 reader refuses counts above 4096, the M4
  reader believes them, and nothing is claimed of it then; behind a subtree
  deeper than its stack the M4 reader finds nothing. (`SegmentsAgree`): in a
  four-word entry the M3 decoder keeps the flags in the size.
- ane-session (`SessionBounded`): a refused CALL leaves its payload on the stream;
  the session is marked failed by then.
- ane-run (`RunFrees`): a malformed port table leaks the program's name.
  (`NamedReached`): an index argument before `--ports` may be replaced.

Not claimed:

- Power under a running core on h16, whose last put drops it, and on h18, where a
  core that does not stop makes probe fail, so that the platform core detaches
  the power the message says stays on (`ane_h18_main.c:2340`).
- Memory under a running core on h13: `fw_remove` frees DATA, and a time-out of
  the performance module frees its ring.
- `dart8_map` leaves the pages it mapped before it failed (`WalkAgrees` counts
  them as mapped).
- In `ane_m2.c` a srcB slot referenced twice is listed twice (`:881`), so the
  ranks of a select program may skip a channel; AneM2Build counts references as
  the code does, and no property says that the ranks are dense.

### Bounds

- AneDrv: 2 threads, 2 buffers, 2 handles, 2 IOVAs, 1 scratch page. Two threads
  give every pairwise race on `engine_lock` and on handles. Two IOVAs with two
  buffers and a scratch page fill the address space, so reuse of a range happens
  at once. The proofs do not depend on the bounds. `drv_live` has one thread,
  one buffer and 2 IOVAs, because the liveness check needs the full graph.
- AneStats: 2 producers, 3 submissions over 2 slots (the ring wraps), clock up
  to 2, one read. `stats_monotone` needs two reads and one submission.
- AnePower: levels 0 and 1 and a level word the driver does not know, one
  acknowledgement timeout (the give-up limit is reached), idle times 0..1. A
  block found on and a request found set are tried one at a time (`MCInit`),
  since either keeps the driver from raising a level. `boost` uses 0..3.
- AneT6021: 2 threads, 2 buffers, a pool budget of one buffer, and a total of
  two, so that both budgets are hit (the pool runs in `host`); `bo_pool_max_mb`
  is 0 or that budget. Programs: 2 files, 2 program ids, one digest, so that
  loads share. `MaxMaps` bounds mappings, `MaxRefs` the references that failed
  loads leave behind by design.
- `boot`: two power domains (three in AneProbe) and images of 2 to 4 pages, so
  that a step can fail at the first, a middle and the last one. Message budgets
  are 3 or 4 and the h18 queue holds 2, so that both are exhausted. For h15 the
  configurations are each stage with its switches, and the last stage with each
  switch missing; `H16Configs`, `H18Configs` and `M2Configs` list the others.
  AneH16 is loaded once more over a running core, AneH18 again in the
  configurations of `Reloads`. `MaxDepth` bounds nested disables of runtime PM.
  AneH18Malloc: 4 addresses, 3 buffers, 4 bytes, 2 slots. AnePages: buffers of
  two pages and one, three apertures (from page 0, with room for little, and at
  the 32-bit limit), any stray entries, two lost unmaps, and one buffer that
  does not fit the words that stand for 32 bits. AneDart8: tables of 2 entries,
  up to 3 levels, two calls. AneT6021Prep: 8-value words. AneAscdbg: 16 offsets
  for an aperture of 6, so that sums wrap. AneFwPatch: every value of the fuse
  bits the decoder reads.
- `host`: libane: one or two inputs, one or two tasks, loops of 3. AneM2: two
  processes, two digests. AneM2Build: up to three tasks over the slots 1, 4, 5
  and 36 (bit 28). AneTile: up to 3 rows, planes up to 32 bytes, words below 112,
  so that a span wraps. AneAdt: trees of depth four with up to two children a
  node (one, under the root's second child), a stack of 2 and counts up to 4.
  AneSession: two names and two programs, either of which fits the memory limit
  and not both.
  AneRun: port tables of up to three ports, two arguments a side, two calls. The
  pool: 2 threads, 1 file, 2 buffers, a budget of one and a total of two.
- AneT6021Chan: rings of 2 slots, a table of 3, 3 calls; `MaxSettle` is the
  settle loop's limit, 64 in the code.

Deadlock is checked except in `stats` (the bounded clock and submissions end),
`boost`, `t6021_chan` (a quarantined channel stops for good), `boot` (a core that
cannot be parked stops its driver until reboot) and `host` (tools exit).

### Fairness

- `ThreadFairness`: a thread in the driver keeps running, since each of its waits
  is a bounded poll; a mutex waiter and a pending GEM free get their turn.
- `PowerFairness`, for `WedgeRetires` only: autosuspend runs when the device
  idles again and again, not every suspend is undone before the power goes, and
  some later call resumes an engine that is off. Without these the second stage
  of recovery has nothing to wait for, and the code promises nothing.
- Boost: time passes, due work runs, a submit returns.

`boot` and `host` check safety only: their waits end by a time-out of the code,
which the models allow at any time, and nothing bounds the firmware.

## 4. Proofs

Eight modules hold theorems about ten models. Each model has an inductive
invariant, proved for every value of the constants; the properties of the runs
follow from it. The invariants were checked by TLC on the runs' instances before
they were proved. There is one lemma per action, and lemmas for what many
actions share.

The models that `boot` and `host` compose state their assumptions on constants
as a definition, which their theorems have as a hypothesis. `MCBoot`
(`BootConstants`) and `MCHost` (`HostConstants`) assume it of the values they
give, so TLC evaluates it there.

**AneDrvProofs**, for any number of threads, buffers, handles, IOVAs and
scratch pages, from `AneDrvAssumption` and `OwnerAssumption` (naturals, and
names that do not clash): type correctness, all the safety invariants of
`drv_safety`, and its two action properties. `IInv` adds who holds `engine_lock`
and where (`LockInv`, `PcInv`), that a task exists only behind a polling thread
or a wedge (`TaskInv`), that references keep pages (`RefInv`), that a submit's
addresses follow its objects (`BarInv`), what a suspended device implies
(`RpmInv`), and that retained scratch pages imply a wedge (`RetainInv`).

The argument for `DmaSafe`: a translation is dropped in three places only.
`recover_idle` runs on a quiesced engine, which has no DMA. `tm_contained` drops
scratch pages only after the task's own events, when it is over. An object is
freed, or the device removed, only unwedged and with the lock free; then
`TaskInv` says that there is no task. `bo_init_map` never overwrites, since an
object that has a range is refused (-EBUSY). `WedgeSoundness` combines
`PinBalance`, `Quiescence` and `SuspendSafety`.

**AneStatsProofs**, for any finite set of producers and any number of slots,
submissions, ticks and reads: type correctness and the four invariants of
`stats`. `CountInv` says that one producer at a time opens or folds a period,
with none joined. `TimeInv` orders the clock, the samples and `max_end`, and says
that what was folded fits before the open period. `Busy` is the set of times
covered by the submissions that are over; `BusyInv` says that `busy_ns` counts
those before the open period (all of them when none is open), and that every
submission of the open period starts where it does. A fold therefore adds an
interval that is disjoint from what was folded and that the submissions of the
period cover. `TicketInv` keeps the submissions in flight within one round of
the ring, which is what makes a slot belong to one of them (`SlotInv`); the
guard of `submit` states the same of submissions that have not drawn a ticket
yet. `LineInv` and `SnapInv` follow the reader.

**AneT6021ChanProofs** on AneT6021Chan, for rings and tables of every size, any
number of commands and any set of buffers: type correctness and the three
invariants of `t6021_chan`. `CmdInv` and `MallocInv` say that a slot is the
firmware's only at the one place both sides look at. `EventInv` is why a
constant cookie is enough: until a quarantine only the call the host is in runs,
and a finish event in the ring is that call's, the only one, and its last word.
A call that times out quarantines the channel, so its late event has nobody to
mislead.

**AneT6021PoolProofs**, **AneT6021ProgProofs** and **AneT6021Proofs** (the
pool's steps; loads and closes; failures, unloads and the theorems), for all
finite sets of threads, files and program ids and any set of buffers, with
mappings (the run leaves them out, `UnmappedRefines`): the three invariants and
the action property of `t6021_prog`, and `References`, which `host` checks as
part of `Accounted`. `ObjInv` says where an object can be: a parked one is in
the pool once, or one thread is about to free it; a live one without references
is in the hands of one thread. `ClaimInv` is the core of `FwNeverSeesFreed`: the
programs the firmware has an object in, the load or unload under way and the
loads it never answered are together at most the object's program references,
and references keep memory. `LockInv` says that only the holder of `fw_lock`
loads, unloads or quarantines, so a load or an unload is on a device that is not
quarantined; `Table` is the agreement with the firmware.

**AneT6021ChanProofs** on AneM2, for any finite sets of processes and programs,
sections of any sizes and any number of surfaces, from `M2Assumption`: the M2
parts of `ReleasesAll` (`M2Held`: a context holds its io buffers and nothing
else, and one that failed to open holds nothing) and of `Accounted` (`M2Shared`:
the program a process runs stays loaded under it, shared by those that run it,
and one that is found costs no second copy). `HeldInv` says what a process holds
at each place of `ane_m2_open`, `ReferInv` that an identity in use is backed by
a reference, and `IdentityInv` that a program has an identity of its own. That
the identities do not run out rests on a lemma that a finite set of numbers
leaves one free.

**AneClientProofs** on AneSession, for any number of names and programs and every
stream of commands, from `SessionAssumption`: the session parts of `DataKept`
(`StateIsolated`) and of `Accounted` (`SessionBounded`), and `FailureFinal`, which
`host` checks as an action property. `StateInv` relates the state a name has to
what its own calls left; names that share a program share its surfaces but not
this. `CacheInv` says that the projected demand is what the cached programs need
together, so the check against the cap is made on the real number.

**AneClientProofs** on AneH18Malloc, for rings of any length, any limits and any
order in which the firmware posts, takes and frees, from `MallocAssumption`: the
allocation part of `SharedSound` (`PoolKept`). `RingInv` places the outstanding
requests in the window from `take` to `post`. `LentInv` is the core: an address
is the firmware's, or on its way in one slot, or the driver's alone, and the
first two are of a live buffer. `BytesInv` is the limit that
`ane_h18_mal_service` enforces. Sums of sizes, in both models, are the number of
units in a set that names each unit by its term, which makes them reachable
without induction.

**AneHwProofs** on AnePages, for any number of buffers of any length, any
geometry and any page table met at probe, from `PagesAssumption` (an object has
a page, a page a byte): the three invariants that make up the pages part of
`TranslationExact`, each until a buffer of 4 GiB or more is given a node, and
the refinement of AneRange in two forms. `PagesRefineRange` is about every
behaviour, up to such a buffer, which is what `boot` checks as `MapsWhole`;
`NarrowRefineRange` is `PagesSpec => AneRange!RangeSpec` when every buffer fits.
The history variable `wide` records that such a buffer was given a node.
`NodeInv` keeps nodes apart and in the range, `MapInv` says which pages of a
call in progress are mapped, and `EntryInv` where a valid entry comes from:
debris, a completed map, or the call in progress. Unmaps of a call stay in its
own node, so the others keep their translation. In the refinement, the last page
of a page-wise map or a full batch is `RangeMap`, `ane_iommu_unmap_pages` is
`RangeUnmap`, and every other step, failed, short, healed or rolled back, is a
stutter.

**AneHwProofs** on AnePower, for every largest level, time-out limit and idle
time: the invariant and the action property of `power`. `LevelInv` says what the
level word and the DVFS block are at each place of `ane_dvfs_up` and
`ane_dvfs_release`, `WordInv` what the request word is while either side is in
the middle of its update, `PmInv` where a call can be in each runtime PM state.
The history variable `boot` keeps the level word and the block as they were
found, so that "taken down" means back to what was found, or 0.

Only model-checked:

- all liveness properties: TLAPS does not handle fairness and ENABLED here;
- the byte budgets of the M2 pool (`PoolAccounted`, `TotalAccounted`): sums over
  objects and threads, defined by a fold;
- the other parts of the properties of `boot` and `host`: the bring-up drivers,
  probe, the tools and the readers are long sequences of steps with one
  configuration each, where an instance is the program itself; and several of
  these modules compute recursively, which puts them out of the prover's reach.

## 5. Not modelled, and why

- Contents of M2 buffers. PROG_LOAD hashes its sections and later looks their
  handles up again; that race is listed as a hazard without a property.
- Register dumps, sweeps, trace rings and debugfs text: reads without effect on
  the state. Where a sweep must not happen, it is one access in the model.
- SHA-256, the firmware package readers, half-float arithmetic and the numeric
  reference of `ane-run --check`: pure functions of long byte strings, about
  which instances small enough for TLC say nothing.
- `ane-selfcheck`, `ane-prog-pack`, `ane-bo-probe`: straight-line programs, and
  `h14_boot_regression`, a host test of the boot code.
- The `sim/` harnesses, receipts and tests: they stand for the hardware, or
  record runs on it. The firmware actions of AneH15 and AneH18 follow them.
- Packaging, overlay blobs, kernel patches, bindings and scripts: data and
  installation.
