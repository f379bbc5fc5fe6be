# Verification of NAV, Not an Anti-Virus

TLA+ models of NAV's own logic, the TLC runs that check them on small instances, and
theorems the TLA+ proof system checks for every value of the constants. Paths below are
relative to `src/`.

NAV is a static scanner for macOS. `navctl scan` reads a file, a folder, a bundle or a
mounted disk image, runs a fixed ruleset over each file, asks Apple's tools about the
signature, and prints a score, a confidence and a completeness. Its one promise is that
"could not check" never reads as "clean". `navctl service` installs a root daemon;
`cargo xtask` holds the maintainers' tools (a corpus gate, a bench of malware samples).

## 1. Inventory

| component | state | operations | talks to | hard because |
|---|---|---|---|---|
| **disk image mounting** `navctl/diskimage.rs` | a run directory per process under a shared scratch root, `CANCEL`, the worker's `before` list; outside the process: devices and mounts | sweep what dead runs left, attach read-only, scan, clean up, report | worker thread, `hdiutil` children, signals, other navctl runs, the user | overlapping runs, kills between attach and cleanup, stale listings, time limits |
| **service lifecycle** `nav-service`, `navctl/service.rs` | six artifacts on disk, launchd's job, its disabled record | install, uninstall, residue | `launchctl`, `tccutil`, `codesign`, other vendors' installers | interrupted and repeated commands, calls that fail silently, a shared directory |
| **whole-target scan** `nav-core/target.rs`, `presentation.rs` | stack of directories, collected files, the limit hit, unreadable list, bytes used | walk, score, report, exit code | the file scan | four ceilings, partial listings, one exit code for all of it |
| **scan verdict** `nav-core/scan.rs` | signals, not-applicable and incomplete rules | evaluate the ruleset, completeness, confidence, recommendation | every rule | a rule that could not run must show |
| **scan context** `nav-core/context.rs` | one handle, its identity, the prefix, one cache cell per tool | load, ask a tool once, ranged reads, windows | `codesign`, `spctl`, the file system | tools go by path, other programs change what the path names |
| **code-signing rules** `rules/codesign.rs` | none | seven rules over shared answers | scan context | rules that stand down for one another over answers that may be missing |
| **share budget** `nav-core/budget.rs` | what is left of an archive's allowance and of one entry's share | start a share, charge | container readers | the members of one archive share an allowance |
| **ZIP reader** `zip.rs`, `rules/container.rs`, `rules/zip_member.rs` | stack of archives, members collected, read, given up | find both views, read members in rounds, open nested zips | decompressors, share budget, content rules | tools that read one zip differently, lying sizes, every limit |
| **xar and package reader**, **cpio reader** `xar.rs`, `cpio.rs`, `rules/package.rs` | entries, groups, the archive that is arriving | read the table, order the entries, unwrap, walk the archive, follow the Distribution | decompressors, XML scanner, share budget | entries compete for one budget; archives arrive in pieces |
| **decompressors** `inflate.rs`, `bzip2.rs` | window, output, work done | decode under limits, metered or not | readers | three limits, broken streams |
| **plist and XML parsers** `plist.rs`, `xml.rs` | cursor, depth, nodes and bytes so far | parse under four ceilings | launchd rule, package rules | two forms of list, shared and cyclic objects |
| **Mach-O reader** `macho.rs` | ranged reads, their budget, what is doubtful | read slices, commands, signatures | content rules, signing rules | reads that fail, members that are cut short |
| **content rules** `rules/{entropy,macho_structure,persistence,strings}.rs` | none | weigh what a program holds, loads and asks for; what a job runs; what a text names | Mach-O reader, plist parser | what could not be read must not read as clean |
| **bundle layout** `bundle.rs` | none | look-ups in one list | whole-target scan | - |
| **corpus tool** `xtask/corpus` | chunk list, shared counter, first failure, one sink per build | plan chunks, run them on a worker pool, diff two builds | navctl children | threads, crashed children, overlapping roots |
| **malware bench** `xtask/malware` | sample store, refs and a bundle, a throwaway VM | fetch, verify, run in a VM, roll up, gate | network, `tart`, git | interrupted fetches and runs, runs of one second |
| **worktree builds** `xtask/build.rs` | worktrees, one target directory, two binaries | build a pair, sweep stale worktrees | git, cargo | killed builds leave worktrees |
| **daemon** `navd` | a flag | stay alive, scan once | launchd | SIGTERM |
| **command lines and rendering**, **fuzz targets** | none | argument parsing, printing | everything | - |

What makes each component correct:

- *disk image mounting*: a run never detaches what belongs to a live run or to the user; it
  leaves nothing of its own mounted under its directory, or attached with no mount, without
  saying so; a later run sweeps what a killed one left mounted; every run ends although
  `hdiutil` and the scan may hang.
- *service lifecycle*: a success report is true; any command runs over whatever an earlier
  one, cut short anywhere, left behind; two installs at once end as one does.
- *whole-target scan*: exit code 0 only if everything was checked; a finding is never
  hidden by an incomplete scan; the walk's cost is bounded by its budget.
- *file scan* (verdict, context, signing rules): an answer counts only if it is about the
  bytes that were read; at most one provenance finding; full confidence only when every
  question the signature raises was answered.
- *container readers*: what any tool would take from the container was read or is reported
  as given up; nothing is starved by what else the container holds; the reading ends.
- *decompressors*: what is written is a beginning of the text, and all of it where no limit
  was reached; the meter only stops.
- *parsers and content rules*: what is read is what the whole means, or it is not called
  clean.
- *corpus tool*: the gate passes only if every chunk was run by both builds and no file
  the base build answered for got worse or went missing.
- *malware bench*: a sample is in the store only if it is what the manifest says; a
  comparison is of the two commits it names; nothing outlives a run unnoticed.

## 2. Modules

Every module opens with what it models and what it leaves open; `MC*` modules hold only the
constants TLC needs. Operators named `Name_Variant` are deliberate mistakes: each is put in
place of `Name` to see that a property notices. Variables marked "ghost" are not in the code;
they remember what a property has to talk about.

| module | models | proofs |
|---|---|---|
| `DiskImage` | `navctl/src/diskimage.rs` | `DiskImageProofs` |
| `ServiceLifecycle` | `nav-service/src/{lib,orchestrate,ops}.rs`, `navctl/src/service.rs` | `ServiceLifecycleProofs` |
| `TargetScan` | `nav-core/src/target.rs`, `presentation.rs`, the exit codes of `navctl/src/output.rs` | `TargetScanProofs` |
| `FileScan` | `nav-core/src/scan.rs`, `context.rs`, `rules/codesign.rs` | `FileScanProofs` |
| `CorpusPlan`, `CorpusGate` | `xtask/src/corpus/{plan,scan,parse,diff,compare}.rs` | `CorpusGateProofs` |
| `Streams` | `nav-core/src/budget.rs`; what a reader sees of a decoder | - |
| `ZipReader`, `Containers` | `nav-core/src/zip.rs`, `rules/{container,zip_member}.rs` | `ContainersProofs`, `ContainersCover` |
| `MeteredRead` | abstract: a reader under an allowance | `ContainersProofs` |
| `Coding`, `Inflate`, `Bzip2`, `Decoders` | `nav-core/src/{inflate,bzip2}.rs` | - |
| `BoundedDecode` | abstract: a decoder under a budget | - |
| `Xml`, `Xar`, `Cpio`, `Distribution`, `Package` | `nav-core/src/{xml,xar,cpio}.rs`, `rules/package.rs` | - |
| `MachO`, `Plist`, `StringRule`, `ContentRules` | `nav-core/src/{macho,plist,textclass}.rs`, `rules/{persistence,macho_structure,entropy,strings,mod}.rs`, the ranged reads of `context.rs` | - |
| `SampleStore`, `SampleGate`, `BuildPair`, `Bench` | `xtask/src/malware/*.rs`, `xtask/src/build.rs` | `BenchProofs` |

Each group is composed by the module the run is of: `Containers`, `Decoders`, `Package`,
`ContentRules` and `Bench` extend the others of their line. `Streams` is the seam between
them: the readers of containers see a compressed stream as a first cell that says what it
decodes to and costs, and `Decoders` shows that the decoders deliver just that.

### DiskImage

Each process `p` has a main thread (`pc`), a worker (`wpc`), an `hdiutil attach` child
(`child`), a run directory (`p \in dirs`), the mutex `before`, the flag `cancel` and the
channel (`msg`). `att` is what `hdiutil info` would list, with a ghost owner. The main
thread's actions follow `scan_image`: list and sweep the mounts of dead runs, remove their
directories, make its own, start the worker, wait for it or for a signal, allow it a grace
period, list, detach, warn, remove, report. The worker's follow `mount_on_worker`: the
snapshot of the image's attachments, the attach with its retries while busy and its time
limit, the scan. Separate actions belong to the environment: an attach makes the device first
and the mount later, under the run's directory or elsewhere, may fail in between, and goes on
if navctl is killed; a signal may come at any time and a kill at any step; the user attaches
and detaches images of theirs. A detach is plain first and forced when that fails; either may
fail. A stale directory may fail to be removed (`missed` has "dirs" then; a listing of the
root that fails removes none). Left out: the plist text of `hdiutil info`, the checks of the
image's file type, and how member paths are relabelled for display.

### ServiceLifecycle

A command is a sequence of calls (`Program`), as `orchestrate.rs` makes them through the
`SystemOps` trait, and `step[c]` is its position; one action is one kind of call. A removal
that checks first is two of them (`IsPresent`, `Remove`), so another command may come between.
An artifact is the set of things it was given so far (`there`, `whole`, `mode`, `owner`,
`signed`), so a kill between two calls leaves exactly what they did. launchd is its loaded job
and its line in the disabled-services database. A scene says which commands may overlap, which
subcommands run and which faults occur: another vendor's installer, calls that report an
error, `launchctl` calls that fail where the code does not look at the status, kills and
reboots, an administrator who disables the job.

### TargetScan

A target is a tree of directories, files, inert bundle resources and other entries. `walk`
reads a directory from the stack, then its entries one at a time in any order, under four
ceilings; each listing, entry and file may fail. `score` scans the collected files, in any
order, under the byte ceiling and charges what each reads. `Outcome`, `ForTarget` and `ExitCode`
are the code's functions from that to the number a script sees. What one file's scan
answers is left open here; it is the subject of `FileScan`.

### FileScan

One file is opened, `fstat`ed and read through one handle; then the rules run in the order
of `Ruleset`. A rule that needs a tool's answer asks for it once per scan: `Spawn` is the
tool's look at whatever the path names then, `Answer` is the second `stat` that accepts or
refuses it. Meanwhile other programs move other files to the path (`Swap`, which may bring
the first one back) and write to files (`Write`). Each of the seven signing rules is its
function from the remembered answers to signal, nothing, or not applicable, with the marks
it leaves; completeness and confidence are computed from those as in `scan.rs`.

Abstractions: an object's identity is the file and how often it was written to, so a
rewrite within one tick of the clock and a reused inode are left out (`context.rs:35-43`
names both limits); a tool looks at the path once; a tool's text is one of the answers its
classifier tells apart; embedded members of containers have no tools and are left out. The
rules that look at the content may return anything, and their number is a parameter (what
they do return is the subject of `ContentRules`); the rule on a Mach-O loader anomaly stands
for those that weigh less what Apple vouches for. The two recommendation thresholds are not
modelled.

### CorpusPlan and CorpusGate

`CorpusPlan` is the planner as functions over a tree: `PlanDir` is `plan_dir`, `Fits` its
limits, `Covered` the files a walk of a chunk comes to. `CorpusGate` is `corpus compare` from
the plan on: `StartPool`, per worker `Take` (the `fetch_add`), `CheckFailure`, then one run
of each build (`RunChunk`, `RunChunkDies`, `RunChunkFails`), `Join` when the scope ends, and
`Diff`, which reads both sinks and decides the exit status. A run of `navctl` that answers
(0-3) has lines for all of a chunk, for some of it when a ceiling stopped its walk, or for the
members of an image that was mounted in its place (`Answers`); a bundle's inert resources
never have one (`Listed`). The ghost `ended` remembers which it was.

Abstractions: a build says the same of a file whenever it is asked, so which duplicate the
comparison keeps does not matter; a verdict is the two ranks the gate compares; `measure`
stops early once a limit is passed, which changes none of its uses; the error of a single
directory entry, the list of changed files and its rendering are left out.

### Streams, ZipReader and Containers

A zip is a sequence of units: a local header, a directory record, an end record, a Zip64
record, a locator, a descriptor, the first cell of a stream or any other cell, so offsets and
sizes, true or not, are small numbers. `stack` is the recursion of `Reader::archive`. Its
actions are the code's phases: find the end record, take the directory's members, walk the
headers as a streaming tool would, order the interpretations by cost, read them in rounds
under equal shares of the allowance, follow what the end of one member's stream uncovers,
and descend into members that are zips. `Containers` adds the file around it (the probes of
image formats, detection by head and tail, sources that are cut or unread) and the three
rules that share one reading, made by the first that needs it.

The reference in `CleanHidesNothing` is written without the reader: what a tool that trusts
the directory, and one that reads from the first header on, would take from the same units.
`MeteredRead` is the abstract reader, whose work stays within an allowance, whose reports
only grow and which does nothing after its end; `MeteredSpec` shows that the ZIP reader
implements it (`Metered`, with its work, gaps and remaining rounds for the abstract
variables).

Abstractions: cells no reader tells apart are one; the text of names is left out; the costs
of entries are small numbers.

### Coding, Inflate, Bzip2 and Decoders

The decoders are state machines over the bits of a stream: block headers, code tables,
symbols, copies, the window and its flushes, checksums and trailers, with the wrapper's
header before. `Inflate` runs the same stream twice side by side, plain and metered, as
`inflate_to` and its metered form do. The constants shrink the format (bits to a byte, code
lengths, alphabets, the window), each where the code has a constant. `CodeOf` and `Count` are
the canonical-code functions; they and the two checksums, checked as part of the trailers, are
in `Coding`.

`Decoders` starts each on streams made by an encoder in `MCDecoders`, which shares nothing
with the decoders but the code tables. `BoundedDecode` is the abstract decoder: what it
writes only grows, is a beginning of the text, within the budget, and all of it when it says
"ok". `BoundedSpec` shows that `Inflate` and `Bzip2` implement it.

### Xml, Xar, Cpio, Distribution and Package

`Xml` is the scanner both package and list readers use: tags with their attributes, text,
entities, comments, CDATA and declarations, over a sequence of tokens. `Xar` reads the
header and table of contents into entries, and an entry's bytes through its encodings and
caps; `Cpio` has the walk over a whole archive and `CpioStream` over one that arrives in
pieces. `Distribution` is what the code makes of the choices, outline lines and pkg-refs,
with the wiring's stack, and when it distrusts them. `Package` runs the two rules: entries
are wanted, ordered by cost and grouped, those Installer runs first; each is unwrapped under
its share and its pieces are fed to the walk, its members scanned or opened as zips.

`TrustedRefsCover` is stated against a reading of the outline written on its own
(`MayRun`), which lets an id be any of an element's attributes of that name, and
`CleanMeansScanned` against the unlimited unpacking of every entry.

Abstractions: a name, path or script is a few symbols; "evil" stands for any pattern the
content rules report; numbers in headers are numbers.

### MachO, Plist, StringRule and ContentRules

`MachO` reads a file of which the beginning is held and the rest is read by range under a
budget, where every read may fail, or is lost because a container member was cut: fat
tables, slices, load commands, segments, signatures and entitlements, with the doubts each
leaves. A file is a sequence of cells; a command's fields sit in its first. `Plist` parses
both forms of list under four ceilings (depth, nodes, bytes, data), and weighs a launchd
job and the place it lies in. `StringRule` finds names and command lines in a text: what is
at command position, pipes into a shell, decoders and their flags, uploads, lines joined by
a backslash; and the windows a longer file is streamed in, each with the end of the one
before. `ContentRules` has the loader rule and the entropy rule over one scan, the strings
rule and the launchd rule, in the order of the ruleset, with which of them run for embedded
content (`Ruleset`).

The references are independent of the readers: `TrueSlices` are all slices of the whole
object with no budget or failure, `Measured` weighs a range held at once, `Unfolded` and
`Meaning` say what a list means without ceilings. What the strings rule finds in windows is
compared with the same scan of each whole line.

Abstractions: both byte orders are one; a cell of bytes is dense or not, where the code
computes their entropy; a path or an argument is a sequence of symbols; a character of a
command line may be a whole word such as `curl` or `-d`, which only cuts it where words end.

### SampleStore, SampleGate, BuildPair and Bench

`SampleStore` is the manifest with its checks and `malware fetch`, archive by archive:
locate, extract, place behind a temporary name, swap. `BuildPair` is `build_pair` step by
step. `SampleGate` is the roll-up of both scans per sample and the gate. They are functions
from a state to the set of next states, so that `Bench` can hold several of each: the host's
runs of `malware vm`, with the guards that undo what was made so far, and the clones in
which a compare fetches, builds, scans and gates. A run or a clone may be killed between any
two steps (no guard runs then); every command may fail; a clone that was left is started
again and used by hand.

Abstractions: a digest is the content itself; commits are names; the network, `tart`, `git`,
`curl` and `cargo` succeed or fail; `unzip` may also leave out a part and go on, and a bundle
may fail to be removed without a word (the ghost `stuck`).

## 3. What the runs check

All passing runs explore every reachable state of their instance. Deadlock is checked
except in the `DiskImage` runs and `ContentRules`, which end.

| run | instance | properties |
|---|---|---|
| `DiskImage` | two runs on two images, a user's image, three devices (symmetric), names not reused, failing queries | `DetachOnlyOwnOrStale`, `CleanOrWarned`, `SweepComplete` |
| `DiskImageEnds` | one run, two devices whose names are reused, one busy retry, fairness | `RunEnds`, `CancelledRunEnds` |
| `ServiceLifecycle` | one command at a time of both kinds with all faults; two overlapping installs beside a vendor | `InstalledMeansServing`, `UninstalledMeansClean`, `NeverFailsByItself`, `InstallsConverge` |
| `TargetScan` | every tree of three nodes under the target, ceilings at 0, 1, 2 and out of reach | `CleanMeansChecked`, `ScanAdvances` |
| `FileScan` | two files, two changes, all signing rules and one content rule | `OneObject`, `OneProvenance`, `HighMeansAnswered` |
| `CorpusGate` | every tree of three nodes under a root, planned; four plans scanned by two workers | `PlanAccounts`, `PoolComplete`, `PassedMeansNoWorse` |
| `Containers` | zips of two members whose headers, directory, data and end records agree or differ; nested zips; two streams before a member the directory does not list; eight limits | `CleanHidesNothing`, `PromiseKept`, `MeteredSpec` |
| `Decoders` | DEFLATE (raw, zlib, gzip) and bzip2 streams: whole, cut at every byte, broken; every budget and meter that bites | `WholeIsRead`, `MeterOnlyStops`, `BoundedSpec` |
| `Package` | packages over archives in all wrappers, nested, cut, padded, repeated; Distributions that agree or not; tight limits | `CleanMeansScanned`, `InstallerShareKept`, `TrustedRefsCover`, `StreamIsParse` |
| `ContentRules` | programs of one to three slices, held, ranged, failing or cut; lists in three forms, whole, cut, cyclic, at places of jobs and at others; sixty command lines at every place of a stream | `LoaderCleanIsClean`, `EntropyCleanIsClean`, `RespellingNeverHelps`, `StreamedAsHeld`, `StringsSeenWhole`, `LaunchdCleanIsClean`, `ParsedIsMeant` |
| `Bench` | two runs of one second or of one output directory, two archives, three samples, one fault, one kill, one reuse | `LeavesNothing`, `OthersVmKept`, `ComparesWhatItNamed`, `PassMeansKept`, `StoredAreVerified`, `LeftoversHarmless` |

The bounds:

- *DiskImage*. Two runs are enough for every pair of steps that can disturb each other
  (sweep against attach, sweep against cleanup, a kill before a sweep); a third device is
  the user's while both runs hold one. Retries of a busy attach do not interact with
  another run, so `MaxBusy` is 0 there and 1 in `DiskImageEnds`.
- *ServiceLifecycle*. A command runs over the result of any sequence of earlier ones, since
  the scene goes on for ever; the states are finite by themselves, without any cap.
- *TargetScan*. Three nodes give nesting of two, siblings, and a file beside a directory
  that fails; each ceiling is tried at its boundary and out of reach; a file may read more
  than its length and more than the stream cap of 2.
- *FileScan*. Two changes are what it takes to leave the path's object and come back
  (`Swap` twice), or to stray and be written to; a third cannot make an answer acceptable
  that these do not.
- *CorpusGate*. Every tree of three nodes is planned under limits below, at and above its
  size, and not scanned (`--jobs 0` ends after the plan). The scanned plans are a split
  directory, overlapping roots, one with an image in it, a bundle with a program and an inert
  resource, and three chunks of which two are empty, so that a worker comes back for more;
  `--jobs` is 3 for the first, more than it has chunks.
- *Containers*. One member whose parts vary and a second that must not be hidden by it: a
  directory that lies does so about one member, and a third adds no disagreement that two do
  not have. The allowances of 6 to 60 units stop the reading in each phase; the entry,
  depth, member and ratio limits are each met by some zip.
- *Decoders*. Two-bit bytes and codes of at most three bits keep every bit pattern within
  reach: complete, incomplete, over-subscribed and lone-code tables all occur, a window of 4
  slides, and copies reach back across a flush and up to the window's far end. Budgets run
  over every length of the text and the meter over every point of the work.
- *Package*. A limit is tried below and at what the entries need; archives have up to two
  members of interest, which is what a starved, hidden or split one takes. Pieces have every
  length, so every header, name, body and padding is split everywhere.
- *ContentRules*. Three slices allow a repeated one and one past the first; an entropy
  block is two cells and a chunk three, so chunks end in every place of a block. The held
  part ends inside every header; a list has at most ten nodes and depth 3, at, below and past
  both. A command line begins at each of 17 places of a stream whose chunks are 12 long, so
  every one is cut everywhere; the span of 8 is shorter than some lines and longer than most.
- *Bench*. Whatever two runs share they share from the start; one fault and one kill reach
  every guard in every state, and a reuse meets what either left. `MaxFaults`, `MaxKills`
  and `MaxReruns` are the only caps.

### Fairness

Only `DiskImageEnds` assumes any: a started main thread runs, a worker outside the scan
runs, and a worker that waits for its child polls it. These are threads of a live process
with no lock held across a wait. Nothing is assumed of the scan (which may hang: `RunEnds`
is conditional on it, `CancelledRunEnds` is not), of `hdiutil`, of the user, or of signals.
Elsewhere termination is shown without fairness: `ScanAdvances` by a measure each step of
the walk lowers, and the ZIP reader's by the allowance `MeteredSpec` says it keeps to.

### Disagreements between the code and what is written about it

One run checks a sentence of the repository and finds it violated: `DiskImageInterrupted`.
After a signal the final cleanup cannot list attachments, because `run_hdiutil` refuses
while `CANCEL` is set, so it detaches nothing and warns of nothing, though
`diskimage.rs:55` says mounts have been cleaned up. A later run's sweep gets what is mounted
(`SweepComplete`); a device without a mount stays.

Seen while modelling, without a run of their own:

- *disk image mounting*: with two runs on one image, one run's cleanup detaches the device
  the other has just attached (`diskimage.rs:392-394`; the runs have an image each for that
  reason); a sweep detaches by a device name listed earlier, which may since have been given
  to another image (excluded by `ReuseDevices = FALSE`); the device a killed run attached
  but did not mount is found by nobody. When `hdiutil` mounts a volume outside the run's
  directory, the attach ends in "no volume mounted" (`diskimage.rs:254-256`, `208-210`); the
  cleanup looks for what is mounted under the directory or not at all (`399-405`), so that
  device stays attached and nothing warns of it. `CleanOrWarned` is about what the cleanup may
  take (`Takeable`) and promises nothing of such a device.
- *service lifecycle*: uninstall removes an empty helper directory whoever made it
  (`nav-service/src/lib.rs:87-88` against `orchestrate.rs:269`); the directory's permissions
  are set after it is made; `install` ignores the status of the first `bootout`.
- *whole-target scan*: a fixed ceiling that was hit may be replaced by a budget ceiling in
  the report (`target.rs:340`, against the order `target.rs:228-229` gives); the depth
  ceiling leaves directories out but does not stop the walk.
- *scan context*: ranged reads beyond the held prefix of a file go to the file as it is by
  then; the budget of "total bytes one call may read" (`macho.rs:113-114`) is charged for the
  part past the prefix only, while a range that begins before it is read as a whole.
- *corpus tool*: `corpus/scan.rs:173-174` says no target is cut short and a missing file is
  always a real loss. Only the file and byte budgets are lifted (186-191), and not for a build
  too old for the flags: the ceilings on entries and depth (`target.rs:309-311`, `332-336`)
  still stop a walk, with an exit that counts as an answer (`scan.rs:223`) and no line for the
  rest; an image that mounts has lines of its members and none of its own. A file that the
  base build has no line for is not missed. `PassedMeansNoWorse` says what the gate does
  promise, and that a planned file nobody compared has one of these reasons (or a `navctl`
  that died on it, or is an inert resource); a directory that could not be listed when planned
  is noted as "no files"; the gate passes on a chunk on which both builds died, saying so in
  the summary.
- *packages*: a xar header that is cut short is "not a package", while `xar.rs:224-227` says
  only a file without the magic is.
- *Mach-O and lists*: load paths and run paths past a ceiling are dropped without a doubt
  (`MAX_DYLIBS`, `MAX_RPATHS`, `macho.rs:767-778`; the reference of `LoaderCleanIsClean` is
  the same parser over the whole object, so what they drop is outside it); an embedded capture
  of fewer than four bytes reads as "not a Mach-O"; the loader rule normalizes and folds paths
  while the launchd rule compares prefixes as they stand, though `rules/mod.rs:45-47` says the
  two cannot drift apart; a truncated list whose beginning is blank, outside the places of
  jobs, counts as covered (`persistence.rs:140-141`).
- *strings rule*: `strings.rs:105-106` says any pattern lands whole, with its left context,
  in some window. That holds for the lines `StringsSeenWhole` is about, and not for longer
  ones: when more than the context precedes the command (blanks, assignments, a path, a
  quote that is still open), or a line is joined from several, the streamed scan and the
  scan of held text may differ. A `-F` whose argument begins past the span slices the
  line backwards (`strings.rs:440`, `limit` before `s`) and panics, which the model has as an
  outcome of the rule that ends the scan.
- *ZIP reader*: `zip.rs:1-6` says that a zip which tools read differently "cannot hide a
  member behind the view we did not read". A merged item checks its stream's end "if any copy
  does" (`zip.rs:1037-1039`), but an item already decoded is dropped with its check
  (`zip.rs:1046`). Where a streamed member the directory does not list stops the walk, the
  next streamed member is decoded at the directory's size before the walk comes to it; if that
  size reaches past the stream's end, the walk goes on behind it, and a member in between is
  neither read nor reported. `CleanHidesNothing` leaves out what is behind such an end
  (`EndTrusted`); without that TLC finds it violated by one of the run's `TwoStreams`. The
  test `a_stream_that_ends_early_resumes_the_walk` has no stream in front.
- *malware bench*: a second comparison in one checkout would remove the first one's worktree
  as stale (`build.rs:51`). A bundle that cannot be removed stays without a warning
  (`vm.rs:169-172`), unlike a ref or a VM; `LeavesNothing` makes that exception (`stuck`). A
  manifest may name `./a` and `a` in one archive, though `manifest.rs:211-217` refuses members
  that are shared or nested (a leading `.` is a component to `starts_with`); the second is
  then no longer found and fails. Samples that give one archive two digests pass the
  manifest's checks and fail when fetched.

## 4. What is proved

The proofs hold for every value of the constants under the named assumptions of the modules
(`ConstantsOK`, `TreesOK`, `BudgetsOK`, `RulesetOK`, `DiskOK`, `InvocationsOK`,
`FileSystemsOK`, `VerdictsOK`, `ScenesOK`, `ZipAssumption`, `UnitsAssumption`,
`FilesAssumption`, `BoundsAssumption`, `ManifestAssumption`, `FindingsAssumption`), which say
what kind of thing a constant is (`FilesAssumption`: a file is a sequence of units, and a
probe for an image finds one, finds none or cannot be read); TLC evaluates them in the runs.

- **`DiskImageProofs`**, any number of runs, images and devices: `TypeOK`, the sweep and
  cleanup detaching only their own or dead runs' devices (`DetachOnlyOwnOrStale`),
  `LiveRunDirKept`, `SweepComplete` and `CleanOrWarned`. The first action property needs
  `Isolated` (device names not reused, each run its own image, the user elsewhere), which is a
  hypothesis of the theorem and not of the model. It is not inductive: a detach acts on a list
  made earlier. `DetachInv` carries it: what is listed stays ours or stale (`TodoInv`),
  because an attachment of our image made after the snapshot is our own (`BeforeInv`) and one
  mounted below a run directory is that run's (`OwnerInv`). `SweepComplete` has no such
  hypothesis: `SweepInv` says where in its sweep a run is, what the list it works through
  still holds of runs that ended before it began, and that nothing is ever mounted below an
  ended run's directory again; of the directories it says so where the removals worked.
  `CleanOrWarned` needs device names not to be reused, and only
  that: runs may share an image. It is about what is mounted under the run's directory or has
  no mount point (`Takeable`); a volume `hdiutil` mounted elsewhere is left out (see the
  disagreements). With reuse TLC finds a run whose cleanup
  detaches, by a name listed earlier, a device that is by then another's. `CleanInv` says that
  what is attached for a run was not there at its snapshot, that past the wait no attach of it
  can still be under way, and that after the cleanup's list nothing of it that the cleanup may
  take is attached unless it is counted as missed or warned of.
- **`ServiceLifecycleProofs`**, any commands and scenes: `InstalledMeansServing`,
  `UninstalledMeansClean`, `NeverFailsByItself`, `InstallsConverge`. The invariant is a
  predicate of the position: a command nothing has disturbed has done, at call number
  `step[c]`, what its earlier calls do, whatever earlier commands, cut short or not, had left
  (`InstallLeft`, `UninstallLeft`). Installs that overlap are not alone: one removes the
  binary another has just finished. `CalmInv` says that whatever is missing, some running
  install is still to give, and that a binary which an install saw and another removed is
  about to be written by that one.
- **`TargetScanProofs`**, any tree and budget: `TypeOK`, `CleanMeansChecked`,
  `FindingOutranks`, `BudgetHeld`, `OneFileOver`, `ScanAdvances`. `WalkInv` says what is
  still owed: while no ceiling was hit and no listing failed, every entry of an opened
  directory is collected, opened, on the stack, or not yet looked at. At the end the stack
  is empty, and the directories opened are closed under descending, so they hold all that
  is reachable. `BudgetHeld` needs the directories waiting to be paid for by entries seen.
- **`FileScanProofs`**, any ruleset in any order, files and changes: `TypeOK`, `OneObject`,
  `OneProvenance`, `ProvenanceBelowNotify`, `HighMeansAnswered`, `RefusedIsNotComplete`.
  The strengthening says that a rule's recorded outcome is what its function gives for the
  answers *as they are now*: answers once given do not change and a rule waits for those it
  needs, so what rules decided at different times can be compared.
- **`CorpusGateProofs`**, any file systems, limits, roots, number of workers and builds'
  answers: `TypeOK`, `PlanAccounts`, `PoolComplete`, `PassedMeansNoWorse`. The recursions of
  the plan go down a tree: `FileSystemsOK` says that there are finitely many paths, that what
  is above a path is a directory, and that it is deeper than that. `BottomUp` is the induction
  this gives; `CollectionExists` says that a function which collects something along the tree
  exists, and `FilesBelowIs`, `LockedBelowIs` and `PlanDirIs` are what the plan's functions
  satisfy. That a file is in one chunk at most is `FilesApart`: walks from two subdirectories
  meet in nothing and do not come back (`WalksApart`). `DirectoryShared` and `LockedTold` go
  up the tree with it. Of the pool, `GateInv` says that a chunk is held by one worker
  (`HeldInv`), that how often a build ran on it follows from who holds it (`RanInv`), that
  while nothing failed every index the counter has passed is run or held (`CountInv`), and
  that a chunk that was run left its files' lines unless `ended` has a reason against it
  (`SinkInv`). `PassedMeansNoWorse` names the reasons a planned file may have no line for.
- **`ContainersProofs`**, any sequence of units, limits and kinds of member: `PromiseKept`,
  and the refinement `MeteredSpec`, that the reading of a zip with the zips in it implements
  `MeteredRead`. `ReadInv` has three parts: the types; `FramesInv`, of each frame of the
  recursion (its shares are sound, the streams are the last of a round, and what the round
  promised the members to come is covered by what the frame can still give); `LedgerInv`, of
  the whole stack (the work done, the slacks of the lower frames and what the topmost may
  still spend are together within the allowance). A nested reading is charged to a share of
  the frame below, so the slack of that frame stays out of its reach; when it returns, the
  ledger balances for the frame below. Where the model recurses over an index, the proof
  needs that the recursive function exists: `RecursionExists`, with `UpFromZero`, a statement
  about sets of numbers closed under successor, in place of the library's induction theorem,
  which takes an operator the provers cannot instantiate.
- **`ContainersCover`**, under the same assumptions: `CleanHidesNothing`, which leaves out
  what a tool that streams would find behind an end that was only trusted (`EndTrusted`). A
  clean answer is given when the reading is over and has reported nothing (`OutcomeInv`), so
  the invariant need only say what holds while nothing is reported (`CoverInv`): of every
  archive being read, where each thing that another tool could take stands. An entry of the
  directory, at each place the directory may start, is still to be read or its interpretations
  are queued or decoded (`DirectoryRead`); a header the walk was at has its member queued or
  decoded and the header behind it walked or ahead (`HeaderWalked`, `WalkRead`); what was
  decoded was handed over whole, from its first cell to its own end (`DoneRead`). The argument
  is hard where an end is unknown. A stream the directory does not list waits for its decode
  (`BlockersRead`), and the walk goes on behind the end that finds. A stream it does list is
  walked past at the listed size before it is decoded, which is right only if the decode
  checks that size (`Checks`): the round must still hold an item that will, and merging,
  dropping duplicates and sorting must not lose it (`EnqueueHolds`, `DedupHolds`,
  `SortedRange`). That the check is gone is possible only once something was decoded, and then
  a stream the directory does not list is in front of every place still to be walked, which is
  the one exception the property makes (`EndTrusted`, see the disagreements): the invariant
  shows that there is no other. An archive opened is being read or all of both views was
  handed over (`OpenedCovered`); when it is closed nothing of it is ahead or queued, and
  `DirectoryTaken` and `StreamTaken` follow the two views through what was decoded. TLC agreed
  that both invariants hold on the run's instance before they were proved.
- **`BenchProofs`**, any runs, seconds, manifests, faults and kills: `LeavesNothing`,
  `OthersVmKept`, `ComparesWhatItNamed`, `StoredAreVerified`, `PassMeansKept`,
  `LeftoversHarmless`. `HostInv` says that refs, a bundle or a VM are there only while some
  run has still to undo them, was killed or warned, or could not remove its bundle, and that a
  run past its clone owns the VM of its name. `GuestInv` follows the two commits a run named
  through the bundle and the clone to the build, where one target directory serves both
  (`BuildOf`: what the directory holds, and what was copied, at each step). `FetchInv` says
  that what the store holds under an id reported "ok" matches the manifest, that in a VM not
  used before nothing else is there, and that what is about to be swapped in was measured.
  `StoredAreVerified` is about manifests that pass the code's own checks (`Valid`: ids differ,
  members are inside the archive, ...), without which `fetch` does not begin. `PassMeansKept`
  rests on `VerdictTells`, about any two sets of printed lines: the gate, which goes by the
  roll-ups, says what `Lost` says of the lines themselves (`RollupTells`: a roll-up has the
  number of the sample's lines and the greatest of each of their ranks; `GateOfSample`: what
  the gate finds in a sample's two roll-ups). `FindingsAssumption` is what `navctl` prints: a
  line of a sample names a path below the sample's in the store. `GateInv` carries the verdict
  through whatever hosts, reruns and dying VMs do. `LeftoversHarmless` rests on `TidyInv`: a
  fetch has placed every sample its archive holds of those it has come to (`DoneOf`), and a
  build has its one worktree only until it is over (`TidyBuild`), both unless something
  outside the bench failed them. What is placed takes nothing along of the samples still to
  come (`WithoutKeeps`), for which the theorem has a hypothesis, `Settled`: the samples of an
  archive agree on its digest, and none's path is another's or lies in it once "." is dropped.
  The run's manifests that pass `Valid` satisfy it; the code's checks do not quite give it
  (see the disagreements). Its other hypothesis is that the model value `Nothing` is not a
  build's record.

The lemmas these rest on are in the same modules, one per part of the invariant, with one
step per action. `TypeOK`, `LiveRunDirKept`, `FindingOutranks`, `BudgetHeld`, `OneFileOver`,
`ProvenanceBelowNotify` and `RefusedIsNotComplete` are proved and need no run.

Only model-checked, and why:

- `RunEnds` and `CancelledRunEnds` (liveness under fairness is out of the prover's reach), and
  `InterruptedIsClean`, which is violated.
- `StreamIsParse`, `CleanMeansScanned`, `TrustedRefsCover`, `WholeIsRead`, `MeterOnlyStops`: they
  compare what a recursive definition computes with a reference that is recursive too (a
  stream with its text), which is induction over data. `BoundedSpec` and the other two of
  `Decoders` also reach `Bitwise` by the checksums.
- All of `ContentRules`, whose parsers and command lines are RECURSIVE operators.
- `InstallerShareKept`: the shares are those of `Streams`, for which `ContainersProofs` has the
  lemmas, but the members they are for come out of folds over the table of contents and the
  Distribution. That these give finite lists of entries, with numbers for what they are
  ordered by, is induction over data too; to assume it would be to assume what the folds do.

## 5. What is not modelled

- The base64 half of `rules/entropy.rs` with `decode.rs` and `base64.rs`, and the quarantine
  attribute: numeric heuristics over one buffer. Their results are inputs of the models, and
  the repository's fixtures test them. A file that reads as text has no entropy rule in
  `ContentRules` for that reason.
- Byte layouts: field widths and byte orders of headers, the digits of dates, the value and
  exponent of a `<real>`, the bits of a bzip2 block's fields other than its symbols.
- A file that is rewritten between two ranged reads of one scan (see the disagreements).
- The downloads and VM commands of the bench beyond succeeding or failing, and files `unzip`
  leaves cut short rather than out.
- `corpus scan` and `corpus diff` on their own, which are parts of `corpus compare`.
- Bundle detection: one look-up, an input of `TargetScan`. The daemon: it has no work of its
  own yet. Command lines, rendering and the fuzz drivers: no state.

## 6. Plan

1. *Done*: `DiskImage`, `ServiceLifecycle`, `TargetScan`, `FileScan`, `CorpusPlan` and
   `CorpusGate`, with the proofs above; `Containers`, `Decoders`, `Package`, `ContentRules`
   and `Bench` with their parts.
2. *Done*: proofs of `ServiceLifecycle`, of the rest of `DiskImage`, of the ZIP reader's
   allowance and shares and of what its clean answers mean, of the corpus plan, and of all of
   the bench's properties.
3. `InstallerShareKept`, if `Xar` and `Distribution` are written with recursive functions over
   positions in place of folds; the invariant is the ZIP reader's `Promised` over the groups.
4. A refinement of `TargetScan` with the abstract "every reachable file is answered for".
5. A file that changes between ranged reads, across `FileScan` and `ContentRules`.
