# A TLA+ model of tsschecker

tsschecker asks Apple's signing server whether a firmware version is still
signed for a device, and saves the tickets ("SHSH blobs") it is granted. The
program is one thread of C (`src/tsschecker/`, about 2,900 lines) without
tests. What makes it hard to get right is not its size: one record,
`t_devicevals`, is read and overwritten by every request of a run; a global,
`nocache`, is raised and lowered by several functions; files with fixed names
are shared by runs and by processes; and almost every call may fail half way.

This directory holds TLA+ modules of that logic, TLC configurations that check
them on small instances, and TLAPS proofs for instances of every size. Line
numbers below are those of `src/tsschecker/tsschecker.c` unless another file is
named. `PROJECT.json` maps every definition to the lines it stands for, lists
the runs, the mutations each property is tested with, and the hazards of the
code.

    tlc -workers 2 -config MCVersionCheck.cfg MCVersionCheck
    tlapm VersionCheck_proof.tla

## The system

| Part | State | Operations | Hard because | Correct means |
|---|---|---|---|---|
| `main` (main.c 165-545) | options, flags, `devVals`, `versVals` | parse options, refuse conflicts, load a listing and retry, pick the latest version, dispatch | options in any order, retry by `goto`, null pointers | asks only with values that fit together, and the exit status tells the answer |
| Listing cache: `getFirmwareJson`, `getOtaJson`, `downloadFile`, `parseTokens` | one file with a fixed path, `nocache` | open, download, read, parse, reparse | several processes, kills, failed downloads | a spoilt cache is recovered from, every process ends |
| `getFirmwareUrls` (769-851) | the listing, `versVals`, an array | count, allocate, fill, mark duplicates | two passes must agree | the array is the selection, ended by zeros |
| `isVersionSignedForDevice` (1788-1836) | `isSigned`, `cursigned`, `nocache` | fetch, skip, check, restore | the skip depends on the history of answers | the answer is a function of what the server said |
| `getBuildManifest` (883-972) | one file per device, version and build | cached, download next to the firmware, download out of the archive | duplicates and other runs share a file, failed downloads empty it | a URL is asked about with its own manifest |
| `isManifestBufSignedForDevice` (1514-1713) with `tssrequest`, `tss_populate_random`, `cryptextssrequest` | `*devVals`, four requests, the blob | main, update, no-nonce and cryptex request, save | swaps values in the shared record, any request may fail | everything swapped is put back, a blob's tickets belong together |
| `getBuildidentity*` (689-754) | - | select by board and install type | missing keys, fallback | the identity is for the board and type |
| `isManifestSignedForDevice` (1715-1786) | a manifest file | check supported devices, one session | every early return is an error | no answer without a session |
| Parsers: `parseECID`, `parseNonce`, `parseHex`, the generator | - | text to values, values to text | widths, odd lengths, byte order | the value is the one written, a saved generator gives its nonce |
| Version lists: `getListOfiOSForDevice`, `cmpfunc`, `-l`, `-2` | - | list, sort, pick, print | an order by hand, marks that depend on an option | the newest version is picked, each is printed once |
| Tables: boards, baseband devices | constant data | look-ups | ambiguous boards and models | an ambiguous device is never asked about |
| Printing of devices, beta listings and `getFirmwareUrl` (not called), hashes, `common.c`, build files | - | - | - | - |

`main` loads a listing and calls `isVersionSignedForDevice`, or
`isManifestSignedForDevice` for a manifest file. The former calls
`getFirmwareUrls` once and, for every URL, `getBuildManifest` and (unless it is
skipped) `isManifestBufSignedForDevice`. They share `*devVals`, which every
request fills in further, and the global `nocache`. The outside world is
libcurl and libfragmentzip (downloads that end well or not), libtatsu (the
server's answer) and libplist.

## The modules

    SigningVerdict   what a version check promises (abstract)
      ^ implemented by
    VersionCheck     the loop over the URLs      <- ManifestCache (refines it)
      ^ implemented by
    SigningRun       loop and sessions, one t_devicevals
      |- TicketSession   one manifest: up to four requests, one blob
           |- BuildIdentity   selection of the build identity
    CommandLine      main: from the options to one of the checks
      |- Parsers          the values it reads       (beside it)
      |- JsonCache        where the listing comes from, several processes
      |- VersionOrder     the version -l picks, the list -2 prints
    FirmwareUrls     where the URLs come from

The names beside a bar under `CommandLine` are modules of their own that give
the details of a step of `CommandLine`; they share no state with it.

**SigningVerdict** is the abstract specification: every manifest of the version
ends with one outcome, leaving one out is allowed once another is known signed,
and the answer is `VerdictOf(outcome)`: signed if any is, "not signed" only if
some manifest was really refused, an error otherwise.

**VersionCheck** is the loop of `isVersionSignedForDevice`. Variables carry the
C names (`isSigned`, `cursigned`, `nocache`, `nocacheorig`, `u`); `outcome` and
`origin` are histories. `FetchFails` is the `continue` of line 1808,
`FetchManifest` lines 1805 to 1813, `SkipDuplicate` line 1815, `CheckManifest`
lines 1818 to 1821 with any result of the session. Note how `SettleUrl` raises
`cursigned` from the answer *before* this URL: the first duplicate of a signed
build is therefore asked about again. `nocacheorig` is a local, 0 before the
call assigns it.

**BuildIdentity** has the selection as operators: the prefix comparison with
"Erase", the class that falls back to the RestoreBehavior read before it, the
bit field `isUpdateInstall`.

**TicketSession** is one call of `isManifestBufSignedForDevice`. `devVals` is
the shared record; `ChooseEcid`, `ChooseApnonce` and `ChooseSepnonce` are the
parts of `tss_populate_random`, `IdentityAndType` is the `getID0` loop with its
fallback, and `TssRequest` gives what a call of `tssrequest` returns *and*
leaves behind, including when it fails. Pointers are values: `Null`, `Poison`
(0x1337), a user's nonce with its length, or the hash of a generator. A drawn
value is the second of `time(NULL)` it was drawn in, as `getRandNum` seeds with
it: two draws in one second are equal, and the clock may move between any two
requests. The actions `Build*` and `Send*` are the request and the server's
answer for each ticket; `EnterNoNonce` and `LeaveNoNonce` the swap of lines
1553 to 1558 and 1615 to 1617; `SaveBlob` lines 1629 to 1706. The two lists of
boards and models refused tickets without a nonce are the device attribute
`apticket3`.

**SigningRun** puts them together: it extends `TicketSession`, whose state it
shares, and has the loop as `Loop == INSTANCE VersionCheck`; its own
specification is `RunSpec`. `CallSession` and `ReturnFromSession` are the call
of line 1818. The session's locals are reset when it returns; `devVals` stays.

**ManifestCache** is `getBuildManifest` inside the same loop: a cache file per
build holds nothing, something broken, an older manifest or that of a URL. The
download next to the firmware empties the file first; when it fails the archive
is tried; when that fails the function returns NULL and the file may stay
broken. A broken manifest makes every request fail to build. `OtherRun` is a
step of another run on the same files: it empties one or completes one, between
any two steps of this run; `touched` remembers which. A run may be killed at
any step: by `RightBuild` what it leaves is a cache that `Init` gives the next
run, whose manifests are then old ones, so no kill action is needed.

**FirmwareUrls** has both passes of `getFirmwareUrls`, one entry at a time.
Build names are sequences of characters because the duplicate test compares
prefixes. `version` is set by the first match (line 814) between the passes,
while `versstring` was taken before.

**JsonCache** has the processes that share the cached listing. A download
empties the file and writes pieces at its own offset, a reader takes the size
and then reads, and a process may be killed between any two steps. The result
of `downloadFile` is ignored, as in line 569. `dirty` is the byte after the
buffer, never set by the code: whatever `malloc` left there decides whether
`strlen` stops. A process that cannot open the file crashes, which for the file
and the other processes is a kill; that it crashes is part of `CommandLine`.
`getOtaJson` (632-646) is the same code on another file.

**CommandLine** is `main`. `Option` is one round of `getopt_long` with any
option in any order; `arg` keeps the last argument of each, which is all the
code keeps, and the install type is written at once as the code does it. Then
follow, in the order of the code, `ResolveDevice` (main.c 348-393),
`ParseValues`, `CheckSerial` or `CheckNoSerial`, the listing with its retry,
`PickLatest`, and one of `ListDevices`, `ListVersions`, `CheckManifestFile`
(`isManifestSignedForDevice`, every way out of it) and `CheckVersion`. The
look-ups in the tables of boards and basebands are operators over any table. A
null pointer that main follows ends the run as `Crash`, and so does a file that
`downloadFile` could not create or its callers could not open again
(`UseUnopened`, with `unstored` as history of which one); `ExitStatus` is
`err ? err : !isSigned` in the eight bits a shell sees. Option values are what
the parsers make of them ("good", "bad"); a serial number is what it decodes to
as base64 and as hexadecimal digits, since the code tries both.

**VersionOrder** has `cmpfunc` as `Cmp` on versions that are sequences of
numbers, the list of texts with or without "[B]" after it, the walk of `-l`
(`Walk`) and the loop of `-2` that leaves out what equals the line before
(`PrintOne`). `qsort` is what its contract says: any permutation in which no
text stands after one that it comes before.

**Parsers** has the loops of `parseECID` and `parseHex` one character a step,
with arithmetic modulo the width of an ECID and of a byte; main's check of
`-g`; and the way of a generator: bytes drawn, printed last byte first, saved,
given to a later run, parsed, and swapped four times into the order hashed.
`Memory` is what main reads from the start of a text for `-g`: the text, the
zero behind it, and of a text of less than two characters anything that may lie
behind that (`Behinds`).

`MC*` modules give the constants for TLC, `*_proof` modules the theorems. The
"Mutations" sections hold plausible bugs that take the place of a definition to
test that a property notices them; no specification uses them.

## The runs

| Run | States, time | What it shows |
|---|---|---|
| `version_check` (`MCVersionCheck`) | 17,000, 1 s | Skips cannot change the answer; one cached manifest at most; `nocache` restored; the loop implements `SigningVerdict` and ends. |
| `ticket_session` (`MCTicketSession`) | 330,000, 20 s | The invalid pointer never reaches a request and never outlives its own; pointer and length stay together; a blob's tickets belong together and its generator explains its nonce; `-u` and `-E` bind every request; a forced install type is put back; the answer is the main ticket's. |
| `signing_run` (`MCSigningRun`) | 114,000, 80 s | The answer is what the server said; all blobs of a run share ECID, nonce and generator; an update install is asked about only after some manifest had no erase identity; it implements the loop. |
| `sticky_install_type` (`MCSigningRun_sticky.cfg`) | - | Expected violation, see below. |
| `manifest_cache` (`MCManifestCache`) | 614,000, 36 s | Every manifest asked about is the URL's own, except that the first may be what the cache held and another run may write the file meanwhile; builds are never mixed up, whatever other runs do; the file left behind is the manifest last returned; it implements the loop. |
| `firmware_urls` (`MCFirmwareUrls`) | 42,000, 6 s | Both passes agree, the array is the selection, repeats are marked. |
| `json_cache` (`MCJsonCache`) | 336,000, 14 s | A process gives up only for a cause outside the cache, and ends. |
| `command_line` (`MCCommandLine`) | 1,767,000, 20 s | The server is asked only with values that were understood and fit together; the install type a session starts with is the one asked for; the exit status is 0 exactly for "signed" (and `-h`); outside a session it crashes only for a cause `CrashCauses` names: two kinds of missing device, `-m` with a list or `-l`, and a listing or manifest whose file cannot be created or opened again. |
| `serial_required` (`MCCommandLine_serial.cfg`) | - | Expected violation, see below. |
| `version_order` (`MCVersionOrder`) | 92,000, 8 s | `-l` picks the newest version wherever it stands; `-2` prints each once, in falling order. |
| `latest_public` (`MCVersionOrder_public.cfg`) | - | Expected violation, see below. |
| `parsers` (`MCParsers`) | 114,000, 2 s | An ECID and a nonce are read as the number written or refused, and nothing is written past the buffer; of a generator of two characters and more the 16 digits behind the two are read as the number they spell, or the text is refused; a saved generator reproduces its nonce's bytes. |

### Bounds

- `MaxUrls = 4` for the loop: the skip depends on two earlier answers, the
  duplicate mark and the current one, so four URLs reach every relation between
  them; the proofs cover every length. The first URL is never a duplicate, as
  `getFirmwareUrls` guarantees. `MaxUrls = 3` with two builds for the manifest
  cache: a build, another one, and the first again. Other runs are not bounded.
- `MaxNow = 2`: two draws may or may not fall in the same second.
- `MCTicketSession` takes a 20-byte device with baseband, a 32-byte one with
  hard-coded SEP that is refused no-nonce tickets, and one whose board cannot be
  found; seven manifests, among them one that is no manifest, one with a single
  install type, one of a virtual machine and one without a Manifest; and every
  combination of given, missing and ill-sized ECID, generator, nonces and
  install type. Baseband modes are 1 and 2: mode 0 behaves as 1 but for the
  baseband tag, whose failure is one of the libtatsu failures modelled.
- `MCSigningRun` takes one device and three manifests, two URLs, mode 1: what
  the composition adds is the record passed from session to session, and two
  sessions show that.
- `MaxEntries = 3`, five kinds of entries with one build name a prefix of the
  other.
- Two processes and two pieces: a half-written file, one overwritten by
  another's download, and gaps.
- `MaxOptions = 5`: the longest chains of options that decide together are
  shorter (a device, a listing, a baseband mode, two install types; or a device,
  a serial number, a seed, a nonce, a version), and every option may come twice.
- `MaxEntries = 4` with four versions that part at the first, second and third
  number: three entries decide an order, the fourth is a repeat among them.
- Texts of at most five characters, ECIDs of 2^12 values and generators of four
  digits: wrapping, odd lengths, a bad character at every place and one
  character too many or too few all happen; texts for `-g` of no and one
  character stand before three kinds of memory, which complete the empty text
  and "0" to a generator or not. `EcidModulus` and `GenLen` stand for 2^64 and
  16; a generator of two bytes makes the swap of eight visible. Drawn
  bytes are five of the 256 (`DrawnBytes`): none, one or both digits zero, equal
  or different. The proofs take any texts, lengths and bytes.

Runs end, so deadlock is not checked; that the code ends is the property
`Terminates` (or the fairness of the specification implemented).

### Fairness

The functions are sequential code without waiting: `WF_vars(Next)` says they
keep running until they return. A download by `downloadFile` ends because
libcurl is given a timeout of 20 seconds (download.c 24). Nothing in this
repository bounds the downloads of libfragmentzip (the manifest in the archive)
or the requests of libtatsu: that these calls return, with whatever result, is
assumed of the libraries, and
`Terminates` of `VersionCheck`, `ImplementsLoop` of `SigningRun` and
`ManifestCache` rest on it. `JsonCache` needs `downloadFile` alone. In
`ManifestCache` fairness is that of `Program`: other runs may go on or stop. In
`JsonCache` each process has its own weak fairness, and being killed is never
required. Nothing is assumed about the server or the network: success is never
fair.

## What the model found

**The install type is sticky.** tsschecker.h line 56 says of
`kInstallTypeDefault`: "default is always erase install". When a manifest has
no erase identity, `tssrequest` sets `devVals->installType` to Update (line
1366) and nothing sets it back, so later manifests of the same run that do have
an erase identity are asked about as update installs. The run
`sticky_install_type` shows the shortest case; `UpdateOnlyAsFallback` shows
that this is the only way an update install comes about by itself.

**A serial number is required.** The help text of `-c` (main.c 98) says "not
required for saving blobs". Without `-b` the baseband mode is 0, which is
`kBasebandModeWithBaseband`, and main.c 468 then refuses every command line
without `-c`, even one that only lists devices. `serial_required` shows it.

**The latest version may be a beta.** `-l` is documented as "use the latest
public firmware version" (main.c 89). The walk of main.c 498 passes over texts
marked "[B]" when `--beta` is not given, but line 1947 marks them only when it
is: nothing is ever passed over, error -9 cannot come about, and the newest
version is picked, beta or not. `latest_public` shows it.

These are excluded from properties or have no property, because no document
says what should happen:

- an ApNonce given as "" (`-8 ""`) leaves the main ticket without a nonce and
  makes the next request draw one, so `TicketsBelongTogether` and
  `BlobsShareNonce` leave that command line out;
- a manifest file left broken by a failed download is read as the first
  manifest of later runs, and even by a duplicate URL of the same run when the
  first failed, until `--nocache` is given; `OwnManifest` confines it to the
  first manifest in hand;
- a build name that begins with another, listed earlier, is marked as its
  duplicate; `MarksRepeats` says when;
- with `-l -o --beta` the newest version may be one that has no beta, and
  `getFirmwareUrls` then selects nothing: the run ends with -69;
- with `-m` and `-o` the install type stays the default, as the line that
  forbids erase installs over OTA (main.c 477) is part of loading a listing;
- hexadecimal digits after `-c` may also be read as base64, and that reading wins
  when it is no longer than the device's serial number;
- a manifest file is accepted for any device once it lists any product id
  (line 1771 looks at no value but zero);
- `-g` is refused only when its first character is not "0" *and* its second is
  not "x" (main.c 220), so one of them may be wrong;
- `-g` is "16 in length" (main.c 93), and the loop of main.c 227 looks at 16
  characters: a longer text is accepted and cut, whatever follows the sixteenth
  digit; `GeneratorRead` says which digits count. `-x` is the same with 32;
- `-g` with fewer than two characters is judged by the memory behind it, on
  Linux the next argument: `-g 0 1111111111111111` is accepted as the generator
  0x1111111111111111;
- a listing or manifest whose file cannot be created or opened again crashes the
  program, as neither `downloadFile` (download.c 21-31) nor its callers (567-577,
  958-959) look at what `fopen` returned; `CrashCauses` counts it;
- `-i 3 -Z <build>` is reported as signed without asking: the version is only a
  label there, and decides.

## What is proved

TLAPS checks 47 theorems, in one `*_proof` module for each part (that of
`SigningRun` has `TicketSession` too). Between them they state every property of
the passing runs except the liveness properties, for arrays, listings, option
lists, versions and texts of every length and for any number of processes,
builds and calls.

### Assumptions

Only the named assumptions on the constants, which TLC evaluates in each run:

- `UrlListsAssumption`, `RunAssumption`, `UrlsAssumption`,
  `BuildListsAssumption`, `CacheAssumption` are types.
- `SessionAssumption`: also that a call of main starts with an ApNonce and its
  length set together, as `parseNonce` does (main.c 403-412), or with neither.
- `CommandAssumption`: also that the tables name only known devices, that "none"
  is no device and no argument, and that only the arguments a parser reads can
  be ill-formed (`"bad"`).
- `VersionAssumption`: also that every version has a first number.
- `ParserAssumption`: also that a generator has an even number of digits, that
  what is drawn are bytes, and that memory behind a text for `-g` goes on as far
  as main.c reads (`Behinds`), whatever it holds.

### The loop (`VersionCheck_proof`)

The invariant `Inv` adds to the properties what each iteration relies on:
`Position` (outcomes are settled exactly below `u`), `Answer` (`isSigned` is
`VerdictOf(outcome)` at every step, and `cursigned = 1` implies `isSigned = 1`),
`Cache` (once a manifest is in hand `nocache` is 1 until the return).
`SkipsAreHarmless` alone is not inductive: that `cursigned` stands for an
earlier *signed* outcome needs `Answer`, and `OneCachedManifest` needs `Cache`.
The lemma `VerdictOfSettled` says how settling one outcome changes the verdict.
From `Inv` follow the invariants, that answers only improve, and that every step
of the loop is a step or a stutter of `SigningVerdict` (`Implementation`), which
is a safety specification.

### One call (`SigningRun_proof`)

No property of a call is inductive by itself, because what a request finds in
`*devVals` depends on what the requests before it drew, dropped or swapped. The
lemmas `EcidFacts`, `ApnonceFacts`, `SepnonceFacts`, `PopulateFacts`,
`IdentityFacts` and `TssRequestFacts` say what building one request does to the
record, whether it succeeds or not. The invariant says where things are
meanwhile:

- `Swapped`: the pointer 0x1337 is in the record exactly while the nonce is in
  the frame, and each has its length beside it. From it follow
  `PoisonContained` and `NonceLengthMatches`.
- `TypeKept`: the install type the caller will find again, in the record or in
  the frame; gives `InstallTypeRestored` and `OnlyRequestedType`.
- `Progress`: which requests and tickets there can be at each place, and that
  `isSigned` is already the answer of the main ticket from then on; gives
  `VerdictIsMainTicket`.
- `RequestsAgree`, `OneNonce`: what was sent is what the record, or the frame
  (`Nonce`), still holds; with `BlobFits` they give `TicketsBelongTogether`.
  `OneNonce` is where an ApNonce given as "" drops out: a main request without a
  nonce binds no later one.
- `EntryKept`: values the call was given it still has. It is what makes the
  invariant of one call fit the next.

`Inv` is stated for a call that starts from any record another call may have
left (`EntryFits`), not only from what the command line gives.

### A run (`SigningRun_proof`)

`RunInv` is `Inv` during a call and `Ready` between two; `Told` (the answer is
the verdict over the main requests so far), `Fallback` (the record holds Update
only after a manifest without erase identity) and `Shared` (every blob holds the
ECID, nonce and generator that are in the record now, so the next call must use
them too). `Shared` is inductive only because of `EntryKept`. `EveryCallCorrect`
carries the session's properties over to all calls of a run. `RunIsLoop` is the
refinement of the loop, step by step: a session with any result is a
`CheckManifest`, its inner steps are stutters.

### The firmware URLs (`FirmwareUrls_proof`)

`Counting` says that `retcounter` in the first pass and `Len(rets)` in the
second are the number of selected positions before `i` (`SelectedUpTo`). With
`SelectedStep` (one more position adds one or nothing) and `SelectedMonotone` (a
longer part selects no fewer) the second pass stays within the slots counted and
fills them all (`AllocationFits`). `FillMarks` is the lemma for the marks. What
makes it work is that the test of an entry reads `versstring` and `buildID`,
which the passes do not change, and not `version`, which they do. For
`SelectionReturned` `Placed` says which slot each entry goes to: its number
among the selected (`Slot`).

### The listing cache (`JsonCache_proof`)

That a process gives up only for a cause needs to know, at the moment it parses,
that an undisturbed download is still whole. `Alone` says so from the first
write on: as long as nobody disturbed `p`, nobody else is writing and the file
is exactly the pieces `p` wrote. `ReadsBack` carries that through the size and
the buffer, `Downloaded` says that the second attempt did download.

### The manifest cache (`ManifestCache_proof`)

`RightBuild` needs only the types of `u` and `builds`. `OwnManifest` needs
`Fetched` (what a download completed is what is then loaded, unless another run
wrote the file) and `Place`, that the cache is read only while nothing is in
hand. `Place` repeats facts of the loop, since a theorem about an instance under
other variables cannot be cited. `CacheHoldsLast` speaks of the end; `HoldsLast`
is its form for every moment. `CacheIsLoop` is the refinement.

### The command line (`CommandLine_proof`)

The invariant says for every place `at` which checks lie behind:
`Understood` (no bad argument), `SerialFits`, `Loaded` (a listing or `-m`) and
`TypeFollows`. The last one is not inductive as one would first write it, "the
type is what the options say": `-o` changes it only when a listing is loaded, so
the default has to be known until then. `Answered` says that only a check sets
an answer and that all error codes are errors in eight bits. `CrashCauses` holds
as it stands once `Loaded` is known. It speaks of the places where main and the
functions that load its files follow a null pointer; a session is a single step
of `CommandLine`, and what a session could follow is not in it (see "What is not
modelled").

### The version order (`VersionOrder_proof`)

`CmpDecides` shows that `Cmp` agrees with `Later`, the order of versions, for
versions of every length: the first part that differs exists by well-foundedness
(`NatMin`), no recursion over the versions is needed. `SortedFalls` turns a
sorted list into falling versions. `WalksAll` and `PrintsOn` are the loops'
invariants: what was printed is later than all that is left but for a repeat
directly after it. `Types` leaves out "noPublic": that error -9 cannot come
about is proved too.

### The parsers (`Parsers_proof`)

The invariant says at every character what has been read so far. `EcidRead`:
`ret` is, modulo 2^64, the number that the digits before `pos` spell, in the base
being tried, and the hexadecimal loop is entered only with a text that is not
decimal. `HexRead`: the bytes spell the same number as the digits read, with the
first digit of a half-read byte in `tmp`; the equation between `pos`, the number
of bytes and `next` is what keeps the bytes within `Length` and leaves no digit
over, odd or even. Of a generator `Places` keeps that its digits are those
behind the first two characters, when it has two: `MemoryFacts` says where the
zero that ends the text lies, and a text with fewer digits is refused there.
`DrawnRead` says which digit stands for which half of which
byte drawn.

`ValuesOf`, the numbers that the beginnings of a text spell, is a recursive
function. That it satisfies its own equation (`ValuesFacts`) takes a proof by
minimal counterexample (`NatMin`), as theorems by induction take an operator as
a parameter and cannot be instantiated: such functions exist for every beginning
of the text (`SpellsExists`) and agree (`SpellsOne`). `NumberOfAppend` gives the
number of one digit more. `RestStep` says that reducing at every digit is
reducing at the end, `SwapFacts` that two swaps of the byte order undo each
other, and `TwoDigits` that a byte is its two digits.

### That the program ends

In every `*_proof` module `StepsLeft` is a natural number that each step lowers
(`StepsAreBounded`, and `RunStepsAreBounded` for a run): a bound on the steps
left, for every value of the constants. It is worth a theorem where the code goes
back: the listing cache, where `main` jumps to `reparse` and other processes
meanwhile truncate and rewrite the file (in `JsonCache` a step lowers the number
of its own process and leaves those of the others alone, so no process can make
another one try a third time); the manifest cache, where a download that fails is
tried in another way and other runs spoil the file; the parser of the ECID, which
hands the text to the hexadecimal loop; and a call, whose second and third
requests go through the same code with a changed record. `StepsLeft` needs from
the invariants only where the indices are; `SigningRun` says that anew
(`LoopPlace`), because its invariant is about other variables. Of `CommandLine`
the number includes the options still to be read, at most `MaxOptions`.

### Only model-checked

- Liveness: `Terminates` of each module, and the fairness in `ImplementsLoop` of
  `SigningRun` and `ManifestCache`, whose safety part is `RunIsLoop` and
  `CacheIsLoop`. Fairness needs ENABLED, which the prover does not handle. What
  is left to TLC of `Terminates` is that a program which has not ended can take
  a step; that it cannot take steps for ever is proved.

## What is not modelled

- The contents of requests beyond ECID, nonces, install type and which tickets
  are asked for: img3 and img4 tags, the first Apple Watch's exception between
  them, Savage entries, the drawn BbSNUM, and the custom cryptex tags (lines
  1059-1164 keep only keys that hold both "Cryptex" and "Rap").
- Memory: leaks, `free` at the end of main, and the buffers of paths and URLs.
  Their arithmetic, which nothing else depends on: with a version, a build and
  OTA the path of `getBuildManifest` needs 14 bytes besides its three names and
  the directory, and line 887 with lines 891 and 892 allocates 13; the buffer
  for the manifest's URL (line 940) has the length of the firmware's URL, which
  is enough only if the firmware's file name has 20 characters or more.
- Null pointers inside a session: a manifest without `ProductVersion` or
  `ProductBuildVersion` leaves a null string, of which lines 1629 to 1682 take
  the length when a blob is saved; a null string among the
  `SupportedProductTypes` of a manifest file (line 1755). A listing that parses
  has the form of the server's: what its look-ups follow when keys are missing
  is left out too. `CrashCauses` is silent about these.
- A null URL in `getBuildManifest`, which no caller passes; names of the blob
  files.
- What `-h` and the debug output print, and options that only set a
  path or a server.
- The parts with status `not_modelled` in `PROJECT.json`: `printListOfDevices`
  and the packaging hold no logic, `common.c`, the beta listings,
  `getListOfiOSForDevice2`, `checkFirmwareForDeviceExists` and `getFirmwareUrl`
  are not called, and hashes are an injective function.

## Plan

The model is complete as far as the above says, and every safety property a run
checks is proved, and so is that the program cannot go on for ever; that it does
not stop short stays with TLC. What a later version of the code may
ask for is a model of the lists of beta firmware (`getBetaFirmwareJson` and what
follows it), should `main` come to call them.
