# OppoKodiBridge v4: specification and proofs

OppoKodiBridge is a Kodi add-on. Kodi's `playercorefactory.xml` routes disc rips to an external
player, a short-lived process that wakes an OPPO UDP-203 on the network, mounts the disc's folder on
it, starts it, watches until it stops, and switches the television over and back. A service inside
Kodi publishes the settings, installs the routing rules and hands the remote control to the player
while a disc runs. A wizard sets it all up. Beside the add-on there are two bench consoles for infrared
codes and a provisioner for the Raspberry Pi of the LIRC transport.

This directory holds TLA+ modules of that program, TLC runs over them, and TLAPS proofs.
`PROJECT.json` lists the components, runs, mutants, hazards, theorems and, under `map`, the source
lines every definition stands for. Paths below are relative to
`src/service.oppokodibridge.v4/resources/lib/`, unless they name a directory.

## 1. The system

| component | code | state | operations | meets |
|---|---|---|---|---|
| orchestrator | `orchestrator.py` | `play_accepted`, `started` | `run` | switcher, handoff, monitor, client |
| handoff | `handoff.py` | locals only | `play` | client, Kodi's sources |
| monitor | `monitor.py` | the counters of two loops | `watch_playback`, `_http_watch_until_idle` | client; calls `on_stall` = handoff again |
| OPPO client | `oppo_http.py` | the player's | wake, power cycle, mount, play, stop, status; path functions | the player, over HTTP, UDP and its port 23 |
| TV switch, CEC | `tvswitch.py`, `cec.py` | the television's | `to_oppo`, `to_kodi`, `grab_oppo`, `reclaim_tv` | Kodi's JSON-RPC, the helper script, IR |
| detector | `detector.py` | none | routing rules, `is_handoff_target`, `disc_folder` | pcf, handoff, oppo_http |
| service | `service_cec.py` | Kodi's monitor, `_model` | `main`, `_publish_config`, `_install_pcf`, `onSettingsChanged` | settings, two files, passthrough, wizard |
| pcf | `pcf.py` | `playercorefactory.xml`, its backup | `install`, `uninstall` | Kodi, which reads it at start only |
| external player | `../../pcf_player.py` | none | `main`, `_load_config` | runtime_config.json, orchestrator |
| config | `config.py` | none | `from_addon`, `resolve_oppo_ip` | the settings |
| remote passthrough | `passthrough.py`, `passthrough_ui.py` | runner's counters, dialog, queue, worker thread | `tick`, `onAction`, `_pump`, `shutdown` | service loop, Kodi's GUI thread, player |
| setup wizard | `wizard.py`, `../../wizard.py` | settings | `run_wizard` | settings, service (by callback), client |
| settings tests | `../../settings_tests.py` | none (one button stores `path_from`) | one probe a button | client, cec |
| infrared switches | `ir_remote.py`, `ir_zjiot.py`, `ir_lirc.py`, `ir_proto.py` | the highlight of the television's input picker | walk the picker by a program over SSH, send one code | blaster host, serial port, lirc device; called by TV switch |
| ZJIoT console | `src/tools/zjiot_console.py`, `ir/serial_win.py`, `ir/proto.py` | port, receive buffer, last learnt code, a thread for each learn | learn, send, connect | serial module |
| LIRC console | `src/tools/lirc_console.py`, `lirc/ctl.py`, `lirc/devices.py` | selected nodes, last capture, a thread for each learn | discover, learn, send, self-test | `ir-ctl`, `ir-keytable` |
| provisioner | `src/tools/setup_rpi4_lirc.py` | `config.txt`, its backup, a temporary file | plan, install, back up, patch | apt, the Pi's firmware |
| probe | `src/tools/probe_oppo.py` | none | print what the player answers | player |

What is hard in it, and what makes each part correct:

- **One run** (orchestrator, handoff, monitor, client, switch). The player boots for 20 to 24 s while
  the run goes on; every request may be lost on the way there or back, or be answered by a body that
  does not parse; the user moves the television. Correct: the television comes back when the disc
  stops and not before, nothing is left running after a give-up, mounts are not repeated (they
  corrupt the player's NFS client), no play into a folder that is not mounted, and every run ends.
- **The monitor**. Two phases and five counters. Correct: a watch ends exactly when the reads say
  so, for the reason they give, within a bounded number of reads.
- **Service and files**. Both files are written in place, and Kodi may stop or fail between any two
  file operations; settings change meanwhile. Correct: what rests is what the settings say, and
  a file of the user's own survives what the add-on does to it (not in every case: section 4).
- **Address and wizard**. Three parties in different threads write the address. Correct: a custom one
  stays, what the wizard reached is what is published, and the callbacks come to an end.
- **Passthrough**. Kodi's thread queues keys, a worker sends them, the service loop opens and closes
  the dialog on unreliable reads. Correct: keys in order, at most one late one, the remote comes back
  however long the player claims to play, and is not taken from a disc by a lost poll.
- **Paths**. Typed prefix, Kodi's sources, export root, disc folder. Correct: what is mounted and
  opened is the disc that was asked for, and never a file in place of a folder.
- **Infrared switches**. The walk through the picker is open-loop: UPs to an origin, then a counted number
  of DOWNs. Its program runs on another host and goes on when its SSH call is cut off. Correct: an
  undisturbed walk that was reported done ends at the OPPO, and Kodi keeps the television it took back.
- **Bench consoles**. Replies come after their timeouts, stray bytes look like headers, each click starts
  another thread on one port. Correct: a learn shows the key that was pressed, a few stray bytes cost no
  reply, each thread ends.
- **Provisioner**. Run again and again, and cut off anywhere. Correct: the copy of `config.txt` is the
  original, no overlay twice, no line of the owner lost.

## 2. The modules

| module | models | composed of |
|---|---|---|
| `Monitor` | `monitor.py`, one loop iteration an action, the read its argument | |
| `MonitorHistory` | the monitor under every stream of reads, with the reads recorded | Monitor |
| `OppoPlayer` | the player, the television and the wires (external); the classification of replies in `oppo_http.py` | |
| `Handoff` | `handoff.play`, one request an action | OppoPlayer |
| `Orchestrator` | `orchestrator.run`, the switchers, the power cycle | Handoff, Monitor |
| `Handover` | the abstract contract of one run | |
| `Routing` | service start and callback, `pcf.install`, `pcf.uninstall`, publishing, one file operation an action | |
| `Setup` | `resolve_oppo_ip`, the auto-fill callback, the wizard, the settings dialog | |
| `Passthrough` | service loop, runner, dialogs, workers, key maps | |
| `MediaPath` | detector, path functions of `oppo_http.py`, the path half of `handoff.play` | |
| `MediaLibrary` | the libraries a disc may come from, with the place of every disc known | MediaPath |
| `IrSwitch` | the infrared switchers, one key or code an action, with the program on the blaster's host | |
| `ZjiotConsole` | framed exchange, resynchronisation, retries and learn threads of the serial console | |
| `LircConsole` | discovery, selection, learn threads and self-test of the LIRC console | |
| `PiSetup` | the provisioner, one file operation an action | |
| `MCInfrared` | small instances of three programs, one at a time | IrSwitch, ZjiotConsole, PiSetup |
| `MCOrchestrator`, `MCPassthrough`, `MCMediaPath` | the small instances; `MCMediaPath` one of `MediaLibrary` | |
| `MonitorLemmas`, `MonitorProofs`, `OrchestratorProofs`, `RoutingProofs`, `SetupProofs`, `PassthroughProofs`, `MediaPathProofs`, `InfraredProofs` | theorems | |

**How state and actions correspond.** A variable is a local, a field, a setting, a file, or, where
its comment says "history", something only a property reads. A `..pc` variable is the place a thread
has reached. An action is the code from one point where somebody else may move to the next: one
request (with its loss or its reply), one file operation, one loop iteration, one dialog. In
`Orchestrator`, `opc` is the place in `run`, `hpc` the one in `handoff.play` (which runs at
`opc = "handoff"` and again, from the auto-heal, at `opc = "heal"`), `mpc` the one in
`watch_playback`. Definitions named `X_...` directly above a definition `X` are plausible bugs in it; the
mutants of `PROJECT.json` put them in X's place, and the property listed there must then fail.

**Abstractions.** Time passes only where the code waits and somebody acts on it: wake intervals of
3 s and polls. Numbers in the configuration are whole and not negative.

- *Orchestrator.* `on_stall` is always given, as `orchestrator.run` gives it. A run starts from what an
  earlier one may have left that Kodi killed: a mounted share, a disc that loads or plays. `"ir"` stands
  for `ir` and `lirc`. An infrared switch arrives, does not, or (over SSH) lands on another input; how it
  does is `IrSwitch`. A program that outlives its SSH call and disturbs the rest of a run is in
  `IrSwitch` only. `job.maps = "no"` also covers automatic detection
  turned off. `#POF` acts at once. The user switches to a third input (`"other"`) and may stop, pause
  or resume the disc at the player (`DeckMoves`), but starts no disc and does not power the player
  with its own remote during a run. A request that was carried out was carried out before its answer
  was given up on; one that the player executes later still is not modelled. A reply never lies: it
  may be lost or mangled, not reversed.
- *Routing.* The settings are `handoff_enabled` and one value for all the others. A truncated file
  is `"torn"`. A copy goes through text mode (`AsText`): what a file of `Lossy`, one that is not UTF-8 or has
  CR line ends, comes out as is `"mangled"`. The user writes `playercorefactory.xml` files of his own only
  while the service leaves the file alone; `mine` holds those he did not replace himself, `over` those he put
  while another one was in the backup. `stale` marks what nothing announces (the window between the first
  publish and the monitor's construction, a swallowed exception, a file edited by hand); the properties say
  where they except it.
- *Setup.* Several waiting callbacks act as one, since each reads all settings afresh. One wizard at
  a time. Its television and reclaim tests change no setting. `raced` marks a setting written
  between the callback's read and its write.
- *Passthrough.* `enabled` also stands for "an address is configured". The idle count stops at
  `IdleNeeded`, above which nothing depends on it. A dialog that fails to open leaves none.
- *MediaPath.* A path is a sequence of components; letter case, doubled and trailing slashes are left
  out, and URL-decoding is a table from encoded components to plain ones. Kodi's multipath sources
  are taken as already expanded. A share list is the sequence of path-like runs in the reply.
- *IrSwitch.* The television is a picker whose list ends at both ends; each key is heard or lost, and
  INPUT on an open picker does what the television likes. A code is empty, garbled, too wide or valid.
  The waveform of a key is left out.
- *ZjiotConsole.* A frame is two reads, its header and the rest, in a buffer all threads share. The library
  of codes and the window's layout are left out. The histories `strays` and `spoilt` record what the wire did
  since the click (stray bytes; one that looks like a header, or a garbled answer), never what a thread made
  of it, so that `StraysAreSkipped` assumes nothing about the reader.
- *LircConsole.* What a command puts out is the set of codes it heard and the last one. Of the parsers only
  this is kept: text parses, bytes raise.
- *PiSetup.* A line of `config.txt` is one of the two overlays or a line of the owner's. `apt` succeeds or
  fails. The writing of the backup is two steps, truncation and text; `os.replace` is one.

## 3. The runs

| run | question | distinct states |
|---|---|---|
| `monitor` | Does a watch end exactly when, and why, its read history says? | 305,000 |
| `orchestrator` | What may one run do to the player and the television, and does it implement `Handover`, its end included? | 2,445,000 |
| `routing` | What is in force when the service rests, and which of the user's files survive? | 2,647,000 |
| `setup` | Whose address wins, and do the callbacks end? | 620,000 |
| `passthrough` | Whose is the remote, when does it come back, which keys are sent? | 359,000 |
| `media_paths` | Is the disc that is opened the disc that was asked for? | 2,991,000 |
| `infrared` | Does the switch land and hold, does the console learn what was pressed, does the provisioner keep what it found? | 624,000 |
| `inflight`, `tv_returns`, `garbled`, `setup_raced`, `lirc_learn` | the findings of section 4 | to a violation |

`infrared` looks at one of three programs at a time (variable `tool`). They share nothing, so a product of
their states would say no more.

What the properties say:

- `VerdictExact`: the watch ends at the first read after which its history, read without the
  counters, decides, and for that reason (where one read gives several reasons, for the first in the
  order in which the loop asks). `FullPatience`: heal after one full grace window, give up
  after two. `ReadBudget`: at most `2*MaxPolls - 1` reads in phase 2, the bound the comment claims
  and one better.
- `RequestBudget`: two mounts and two plays per call of `handoff.play`, two calls a run.
  `NoPlayIntoBadMount`: a play request only while the player really holds the mount.
  `NeverLeftAsleep`: a power cycle leaves the player asleep only if its `#PON` was lost.
  `TvComesHome`: once a mappable file was handed over, no One-Touch-Play follows the reclaim.
  `GiveUpClears`: after a give-up whose STOP arrived the deck is idle. `NoReclaimUnderPlayback`: no
  reclaim from a running disc but for a ceiling or an unreadable player (unparseable bodies
  excepted). `ManualChangeSticks`: between the accepted play and the reclaim only the user moves
  the television. `ImplementsHandover`: every run is a run of the contract, and ends.
- `UserFileKept`: whatever files the user puts, each is in place or in the backup, wherever Kodi stops. It
  excepts a file put while an earlier one was in the backup (`over`; the code loses it, section 4), a file
  that text mode changes (`Lossy`), and everything after a write of the backup or of the add-on's own file
  was itself cut short. `DisabledRestores`: disabling gives the file in the backup back and leaves no backup,
  so no file put from then on is replaced by an older one; the same files are excepted.
  `SettledInForce`: a resting service has its settings published and its rules in place exactly when
  enabled, unless something changed or failed that nothing announces (`stale`). `DiscPlaysConfigured`: a disc
  runs unconfigured only inside the rewrite of the config, where the code lets it. `ChangesLand`: an announced
  change gets published.
- `CustomKept`, `WizardOutcomeHolds`, `DoneMeansReached`, `CallbacksEnd`: a custom address stays; after
  a wizard the published config is the one that was reached; the wizard comes to count as done only when
  declined, or after it reached the player, and then the address it leaves behind is the one it reached; the
  callback's own writes die out. The first three except a write that raced with a fill (`raced`), which is
  the finding `setup_raced`.
- `KeysInOrder`: of each dialog, what its worker has still to send comes after what it sent, in the order of
  the presses. `OneLateKey`, `RemoteComesBack`, `NotDroppedByBlips`, `DialogCloses`: section 1 says them in
  words.
- `RoutedIsTaken`: Kodi's rules and the external player's gate agree on every path.
  `NeverMountsAFile`: no index file or image is mounted for a disc. `OpensTheDisc`: mount and name
  together are the title's folder or image. `KnownShareMaps`: a known share is never refused.
- `LandsOnOppo`: when `to_oppo` reports the switch, and no key was lost, nobody else touched the picker and
  the anchor covers the starting input, the television shows the OPPO. `ReclaimHolds`: once Kodi is back,
  only the user or a program that outlived its SSH call takes the television away.
- `LearnsWhatWasPressed`: a learn that began with nothing left of an earlier command shows a key that was
  pressed since its click. `StraysAreSkipped`: fewer than `MaxResync` stray bytes, none of which looks like a
  header, cost no reply that arrived intact, over all attempts of a learn that began in order and is alone on
  its port. One that looks like a header can cost it (section 4).
  `LearnEnds`: every learn thread ends, whatever closes the port under it.
- `PristineKept`: the copy is what `config.txt` held before the first patch, unless its writing was itself
  cut off. `OverlaysOnce`: no overlay stands twice that did not at first, and the owner's lines stand in
  their order.

**Bounds and why they are enough.**

- *monitor*: poll interval 2 s, grace 3 reads, 2 idle confirmations, 3 unreadable polls, ceiling 5.
  The program has 18, 2, 5 and 4320; each limit here is distinct enough to be told from the
  next and is passed in every order. What depends on the sizes is proved for all of them (section 5).
- *orchestrator*: grace, confirmations and unreadable limit 2, ceiling 3, boot 2 intervals, 2 wake
  attempts, every switch method, every kind of file, two player models. With 2 a counter is seen at
  zero, inside and at its limit, which is all the guards tell apart; boot = attempts is the tightest
  case of `BootWithinWake`. Garbled bodies are on. The liveness of
  `Handover` is checked on the same instance.
- *routing*: two user files, one of them `Lossy`, put in any order any number of times, two settings changes, two stops, one fault: a change while an
  earlier one is written, a stop in every step followed by a start and a stop in every step of that.
- *setup*: two custom addresses, two mounts, one settings dialog, two starts of the wizard.
- *passthrough*: queue of 2 (the program has 8), three mapped presses, ceiling 3, two dialogs: two keys in the
  queue with one more in the worker's hand, so that an order other than that of the presses shows; a full
  queue that refuses a press; an old worker beside a new dialog. `MaxDialogs` and `MaxPresses` are bounds of
  the model.
- *media_paths*: three shares (one with an encoded name, one local), a nested folder with an encoded
  name, discs of both structures, at the share's root and in a folder, loose index files, images,
  every subset of six sources, every typed prefix, the settings button that stores a source as the
  prefix, share lists with noise before the root. The library says by construction where each disc is,
  so the algorithm is compared with the place and not with itself.
- *infrared*: two SSH calls (one program may outlive its call into the other), pickers with and without
  entries above HDMI1 and one entry below HDMI4, ports and UPs outside their ranges; two learn threads, two
  attempts as in the program, two presses of one key (the history of what was pressed begins empty at each
  click, so a key from before is told from one since), a resynchronisation of three bytes (the program: 64)
  and three bytes of noise, so that one or two strays are skipped, also one before each attempt, and three end
  an attempt; three runs of the provisioner over five kinds of `config.txt`:
  cut off, repeated, and repeated with other overlays.
- *lirc_learn*: two nodes, two threads, one key.

`CHECK_DEADLOCK FALSE` stands where the system may really stop: a run ends (`opc = "done"`), Kodi ends
the service, a path is played or refused, the bounded user makes no more changes, the tools are closed. `MCMonitor` checks
deadlock; a returned monitor stutters by `Finished`.

**Fairness.** `Orchestrator!FairSpec` has weak fairness of the bridge alone: it is one thread whose
every wait is a timeout or a sleep. The player and the user owe it nothing, and none of the
properties needs them to. `Routing` and `Setup` have weak fairness of the service's thread, which runs
while Kodi does. `Passthrough` adds it for the loop and for each worker, whose waits (`waitForAbort`,
`get(timeout=0.5)`, a socket timeout) all end. `ZjiotConsole!ConsoleFair` is weak fairness of each learn
thread, every read of which has a timeout. No user, disc, remote control or fault is ever fair.

## 4. Where the code and its words differ

1. `inflight`: `orchestrator.py:58-61` says the give-up STOP leaves nothing in flight. A play that was
   carried out while its answer was lost returns False, no STOP is sent, and the disc runs on after
   Kodi took the television back.
2. `tv_returns`: `src/docs/ARCHITECTURE.md:142-146` says the television returns to Kodi whether or not
   playback succeeded. If the path does not map, the reclaim is sent while the power-cycled player
   still boots, and its One-Touch-Play takes the television afterwards.
3. `garbled`: `monitor.py:76-78` says only a confirmed-idle read counts as idle. A 200 body that does not
   parse counts too, so a playing disc is reclaimed as stopped.
4. `setup_raced`: `service_cec.py:87` says a custom address is never clobbered. One that is entered
   between the callback's read and its write is.
5. `lirc_learn`: `src/tools/lirc/devices.py:50` hands the output of a command it stopped at its timeout on as
   if it were text. With `subprocess` on POSIX it is bytes, the parsers raise `TypeError`, and a learn that
   heard a key leaves no capture, though `src/tools/README_LIRC_CONSOLE.md:28` says it learns. The tests
   inject a runner that returns text.

Two more stand behind exceptions of properties that pass, and have no run of their own:

- `src/tests/test_pcf.py:1-2` says a user's own file is never clobbered. There is one backup, taken once
  (`pcf.py:75`). With one file in the backup, a second one that the user puts over the add-on's is written over
  at the next install, and replaced by the first at the next uninstall (`pcf.py:96-101`). The run `routing` takes
  these steps; `UserFileKept` and `DisabledRestores` except exactly such files (`Cared`). A file that is not
  UTF-8, or has CR line ends, comes back changed (`pcf.py:76-80`, `errors="replace"`).
- `src/tools/ir/serial_win.py:121-123` says a single stray byte must not permanently desync the reader. One
  that is 0x68 is taken for a header (`serial_win.py:132`): the length comes from the wrong bytes, the read
  swallows the reply, and as the module has left learn mode only another press, in the one attempt left, can
  save the learn. The run `infrared` takes these steps; `StraysAreSkipped` excepts them (`spoilt`).

The passing runs state what holds beside these: `NoReclaimUnderPlayback` with `misread`, `CustomKept` with
`raced`, `TvComesHome` for mappable files. Three windows the code leaves open are modelled, and excepted
where a property meets them: settings changed between the first publish and the monitor's construction
(`stale`), an infrared program that outlives its SSH call, and an answer that comes after its timeout and is
still in the serial buffer at the next click (`fresh`).

## 5. The proofs

All theorems hold for every value of the constants; the assumptions on them are the named `ASSUME`s
of the modules.

- **`MonitorProofs`** (every interval, grace, confirmation count and ceiling in Nat): `TypeCorrect`,
  `ReadsBounded`, `PatienceHolds`, `VerdictIsExact`. The properties speak of the recorded reads and the code
  of its counters, so the invariant adds `Bookkeeping`: the reads of phase 2 are those charged to the two
  ceilings, and those of phase 1 are the counter plus one window per heal. For `VerdictIsExact` it also adds
  `Tally`: of the reads of phase 2, `polls` and `paused` are the numbers of those charged to each ceiling,
  `unknown` the length of the unreadable run at the end, `idle` the number of idle reads after the last that
  showed a disc. `TallyAppend` says what one more read does to cardinality, last live read
  and runs at the end; it is a lemma about sequences and not about the monitor. `MonitorLemmas` says what
  one read does; `OrchestratorProofs` uses it too.
- **`OrchestratorProofs`**: ten theorems from one invariant, `RunInv`, the conjunction of
  `TypeOK`; `Control` (which places of `run`, `play` and `watch_playback` go together, and what the
  verdict and `accepted` mean there); `Switching`; `Budget` (requests made so far, by place and heal:
  `RequestBudget` alone is not inductive, since a call in progress may still make more);
  `MountHeld` (a play step is reached over a real mount); `BootOver` (boot intervals left plus
  wake attempts made are at most `BootTicks`, and the boot is over before anything is mounted or
  refused); `TvComesHome` itself; `DeckLeft` (what the STOP and the watch leave). `BootOver` rests on
  `BootWithinWake` (`BootTicks <= WakeAttempts`), which the code's 18 attempts of 3 s against a boot of
  20 to 24 s justify. `RunImplementsHandover` is the refinement: initial states map to
  initial states, every step to a step of `Handover` or a stutter; only its liveness half
  is left to TLC.
- **`RoutingProofs`** (any settings, any set of user files, any of them lossy): `InForce` says, for each step
  of the service, what has been put in force already, and gives `SettingsInForce`. `Kept` says for each file
  operation where the cared-for files are, and gives `UserFilesKept`: `UserFileKept` is not inductive, since it
  does not say that from the copy on such a file is the one in the backup (in `held` while the copy is
  written), that a whole backup is never of a lossy file, and that what is restored is the backup. `InForce` and
  `Kept` give `BackupRestored`, `Configured` gives `DiscsPlayConfigured`. `DueCounted` (no more callbacks wait
  than changes were made) makes the types inductive.
- **`SetupProofs`**: `Fresh` (published = settings when nothing waits), `ReadsHold` (what a callback read
  still stands unless raced), `CustomKept`, `Reaching` (the wizard's place, the ping and the address
  agree; it gives `WizardOutcome` and `DoneOnlyWhenReached`). The rule of addresses is a lemma of its own, `ResolveRule`: it keeps a custom address and
  resolving twice changes nothing.

- **`PassthroughProofs`** (any queue size, ceiling, idle threshold, number of dialogs, keys and presses):
  `PassthroughInv` is `TypeOK`; `OwnerInv` (the runner's counters against the history of ticks and reads);
  `WorkersInv` (the worker of every dialog but the present one is stopped or never ran, and one that has
  sent late is back at the head of its loop, from where it ends, which `OneLateKey` alone does not
  say); `OrderInv` (of each dialog the key sent, the one in hand and those queued are in the order of the
  presses: without the one in hand `KeysInOrder` is not inductive).
- **`MediaPathProofs`** (any library, prefix, set of sources): the invariant is the types, `SplitKept`,
  `RefusedUnmapped` and `RoutedIsTaken`. `RulesAgree` says that decoding keeps what the rules look at,
  which gives `RoutedDiscsTaken`; `BroadestExists` and `BroadestIsUnique` say that detection answers
  exactly one source whenever some source maps the file, which gives `RefusedOnlyUnmapped`
  (`KnownShareMaps` for every library); `FolderIsAbove` says that a disc's folder lies strictly above its
  path, which gives `FoldersAreMounted` under `PlainFolders` (no folder is named like an image).
  `PathConstants` assumes that decoding keeps how a component ends.
  `DiscIsOpened` and `KnownShareIsMapped` hold for every library of `MediaLibrary`. `Recoded` gives that what
  is split is the disc's own path; `Chosen` says which prefix is in use, and `ShareIsBroadest` that it is
  the share (a broader source would be a prefix of it, by `PrefixesNest`); `TargetOfTitle` says that below
  it the title's folder is cut off exactly before the disc structure, or that a single file is taken whole;
  `Located` carries that through the split into parent and name and back. The assumptions on a library are
  its shapes: a title's folder is not named like a disc structure, a DVD structure holds no `bdmv`, what
  looks encoded is encoded (Kodi's encoding is undone by decoding), the player lists the exported share
  before anything else like one, and no source is broader than the share (`SharesAreBroadest`:
  `detect_path_from` takes the broadest on purpose, so with a source above the share it is that one which
  counts as the share). Each of them is evaluated on the instance of `media_paths`.
- **`InfraredProofs`** (all constants of the three programs).
  *Switch* (any configurations, picker length, number of SSH calls): `Followed` says which row the
  picker highlights before each key of an undisturbed walk: one higher for each UP until the top, one lower
  for each DOWN; with `PickerInv` it gives `SwitchLands`. `HomeInv` says that until a program outlives its
  call only the running call has one, which gives `ReclaimIsNotUndone`.
  *Console* (any number of threads, attempts, stray bytes, keys): a learn that began in order is
  the only one until another is clicked (`OneAtATime`), and what is in the buffer since then answers keys
  pressed since then (`RepliesHeard`), which gives `LearntWasPressed`. `FewStraysCostNothing` rests on
  `RepliesWait`: while few strays came and none that looks like a header, the buffer is a sequence of stray bytes
  and whole replies (`Framed`) and the thread is at a boundary of one; the bytes it skipped in this attempt and
  those still in the buffer are together at most those that came, so the bound is never reached; and a reply
  that came is in the buffer until it is read.
  *Provisioner* (any `config.txt`, any number of runs): `LitterCounted` (each temporary file left is of a run of
  its own, which makes the types inductive) and `BackupKept` (a whole copy is never written again, and before
  it is whole nothing is patched: `PristineKept` alone does not say the second) give `BackupIsPristine`. `OwnLinesStay`
  rests on `Without`, the file without the overlays, which each run leaves as it is. It is a recursive
  function, and what appending does to it follows by well-founded induction over the set of lengths.
  `EachAlone` says that each step of the three together is a step of each or leaves it alone, so that the
  theorems about each hold of the three together; `InfraredTypeCorrect` is one of them.

**Model-checked only.** Liveness (`ChangesLand`, `CallbacksEnd`, `DialogCloses`, `LearnEnds`, and the fairness of
`Handover` within `ImplementsHandover`): fairness and ENABLED are beyond the prover. Every other property
of a passing run is stated by a theorem. The properties of the runs of section 4 are false.

## 6. Not modelled

The settings tests but for the button that stores a prefix (they run a wake, a grab, a reclaim or a probe
and show the answer; what these do is in `Orchestrator`); the waveform of an NEC code and the framing of
the serial module byte by byte; the library of codes and the layout of the consoles; the probe, logging,
packaging, declarations and texts; the serial transport of the client (an exchange that fails or does not),
URL building and the parsing of the device list; the exit code of the external player. The reasons stand
with each component in `PROJECT.json`.

## 7. Plan

The order follows what a failure would cost: the run, then the files, then setup, the remote, the paths,
then infrared and the tools.

1. Done: all modules and theorems above.
2. Next: an abstract specification of the remote's owner that `Passthrough` implements; two
   overlapping runs of the external player against one OPPO, if Kodi can start them; the composition of
   `IrSwitch` with `Orchestrator`, so that a program that outlives its call meets the rest of a run; the
   serial transport of the client.
