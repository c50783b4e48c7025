# P4Pi: models, checks and proofs

P4Pi turns a Raspberry Pi into a P4-programmable switch: an image with an access
point, two software switches (T4P4S and BMv2), a web interface to choose and
watch the program they run, and example programs. This directory holds TLA+
modules that model its own logic, the configurations with which TLC checks them
on small instances, and theorems about them that TLAPS checks for instances of
any size. `PROJECT.json` lists the runs, the lines each definition stands for,
the hazards, the findings and the theorems.

To repeat the results, in this directory:

    tlc -workers 2 -config Terminal.cfg Terminal.tla
    tlc -workers 2 -config XTerm.cfg MCXTerm.tla
    tlapm TerminalProofs.tla

Each run ends within a few minutes.  `PROJECT.json` names the module and the
configuration of each.

## 1. Inventory

### 1.1 Web interface (`packages/p4pi-web`)

One gunicorn process with one eventlet worker (`gunicorn-cfg.py`) serves Django
pages and a socket.io server (`sio`) on port 80. Handlers are greenthreads: one
runs until it sleeps, selects, or waits for a child process. Globals of a module
are shared by all of them and by all users.

| Part | State | Operations | Interacts with | What is hard | What makes it correct |
| --- | --- | --- | --- | --- | --- |
| **Terminal** `terminal/views.py` | globals `fd`, `child_pid`: one shell for all sockets; a reader greenthread per shell | `connect`, `pty_input`, `resize`, `disconnect`, `read_and_forward_pty_output` | the kernel (pty, child processes), every open page of the site that has a socket | handlers interleave in `waitpid` and `select`; readers use the global `fd` before and after a suspension; a blocking `os.read` stops the worker | the pid that is killed is the one child; a shell keeps a reader; handlers return; output is forwarded; readers end |
| **Switch page** `dashboard/views.py` 65-116, `dashboard/utils.py` 138-196 | the file `/root/t4p4s-switch`, the uploaded source, which unit runs and which is enabled | run an example, upload a program, kill | systemd, the start scripts, the service log | a request is four `systemctl` calls, other requests run in between; calls fail; services restart by themselves; reboots | what runs is what was selected; the two switches do not run together; a selection comes to run |
| **Service log** `dashboard/views.py` 32-63 | globals `task`, `stop`, `proc` | `page_loaded` (an event, and the last call of a POST), `forward_service_output` | `journalctl`, the switch page | a flag set by one greenthread and reset by another; `proc` replaced under a forwarder; read-ahead behind `select` | one forwarder at a time; a stop is obeyed; the pipe is drained |
| **Access point page** `dashboard/views.py` 184-234, `utils.py` 11-49, `forms.py` | three configuration files, hostapd | save settings | systemd, restarts the web service under itself | an error or a crash between the files; an editor that matches nothing is silent | files that agree with each other, and with the running hostapd |
| **Entries page** `dashboard/views.py` 152-181, `dummy_ctrl_plane_connection.py` | tables and entries in the server | query, add, delete over a TCP connection | the dummy control plane | messages without framing on a stream; requests served one at a time | the page shows the entries of each table; a deleted entry is gone |
| **Statistics** `generate-statistics.py`, `dashboard/views.py` 118-150 | a table of samples in SQLite | sample every 30 s, show ten | the database | any error ends the sampler; "ten" are the oldest | the page shows recent samples |
| **Terminal emulator** `terminal/static/xterm.js`, `fit.js`, the script in `terminal.html`; runs in the browser | two buffers of lines with their cursors, scroll regions and views; the state of a parser; a queue of writes; a selection | what the socket delivers, the user's scrolling, mouse and window | the terminal's socket events, `connect` and `disconnect` above | output comes in pieces cut anywhere; lines are trimmed and the window resized under saved positions, a scrolled-up view, a selection; an exception in the middle of a batch | every row shown has its line; the view stays or follows; what is handled does not depend on the cuts; every write is handled once, in order |
| **Accounts, static pages** `dashboard/views.py` 237-309 | Django's user table | log in, register, change the password | Django | nothing of its own | |

### 1.2 Switch services and start-up

| Part | State | Operations | What is hard |
| --- | --- | --- | --- |
| `t4p4s.service`, `bmv2.service` and their scripts (`vm/files`, `packages/p4pi-web/packaging`) | running or not, enabled or not | read the program name, compile, run; restart 5 s after a failure | started at boot, by a request and by systemd itself |
| `p4pi-setup` and the network units (`vm/files`, `pi-gen/stage3`) | veth pairs, a namespace, a bridge | run once at boot | order with hostapd and with the switches |

### 1.3 Example switches (`packages/p4pi-examples`)

| Part | State | Operations | What is hard |
| --- | --- | --- | --- |
| **Stateful firewall** `bmv2/stateful_firewall` (and the `t4p4s` copy) | table `check_ports`, two registers | packets, table writes | a hash for a set; direction from a table keyed by two ports; registers that outlive the table |
| **DPDK mirror** `dpdk/basic_mirror/main.c` | ports, their pairs, lcores, transmit buffers, counters | command line, start, per-lcore loops, signals | lcores share memory without locks; queues at their limits; shutdown |
| **Traffic filter** `bmv2/traffic_filter` | ten tables | packets, table writes | which of the nested tests a packet reaches; a hit whose action does nothing; prefixes of different lengths |
| `arp_icmp`, `l2switch`, `reflector`, `basic_mirror.p4`, `calc` | at most two tables | packets | replies to replies; learning by digest |

### 1.4 Other

`exercises/internet-router` has a small P4Runtime client library and the
skeleton of a router; `exercises/bmv2` and `p4app` have course exercises with
their solutions; `pi-gen` (mostly upstream) and `packages/obs` build the image
and the packages. They are listed in `PROJECT.json` with the reason each is left
out. The repository also carries `jquery-ui.js`, `amcharts.js`,
`chart-morris-custom.js` and the source of `bootstrap.js`: the pages load a
minified bootstrap for menus and styles, and none of the others. `main.js` adds
Django's token to requests, and `fullscreen.js` is loaded by the terminal page,
which never calls it.

Every page that opens a socket.io connection is a client of the terminal's
`connect` and `disconnect`, which are not tied to the terminal page: the index
page, which shows the service log, has one too.

## 2. Modules

| Module | Models | State and actions |
| --- | --- | --- |
| `Terminal` | `terminal/views.py` | `child_pid`, `fd` are the globals; `proc` the kernel's view of the children, `tty` what waits in each pty, `sock` and `waits` the sockets and the handlers in `os.waitpid`, `reader` and `sel` the output readers. An action is the code between two suspensions: `disconnect` up to the first poll of `waitpid`, `waitpid` a later poll and the rest of the handler; `Wake`, `SelectReady`, `SelectTimeout`, `Read`, `Unblock` are the turns of a reader. What `os.read` returns may be no text, or end within a character: `Taken` lets `decode` raise, which ends the reader, and `garbled` remembers that it did, for this shell. `ShellWrites`, `Die` and `WorkerRestart` are bash, the kernel and gunicorn. |
| `SwitchControl` | the switch page, `utils.py`, the two units | `file` and `source` are on the disk, `unit`, `runs`, `enabled` in systemd; `pc` is the call a request makes next. `PostExample`, `PostUpload`, `PostKill` are the three kinds of POST up to the first call; `StopOther`, `DisableOther`, `Enable`, `Restart`, `KillOwn`, `KillOther` are the calls; those made with `subprocess.call` inside `try: ... except: pass` may do nothing or raise, and the request goes on. Two variables only remember: `missed` what was to be stopped or disabled and was not, until a later call makes up for it, `crossed` that selections of both services have overlapped. `Boot` is a start script, `Fail` and `AutoRestart` the `Restart=on-failure` of a unit, `WebRestart` and `Reboot` the ends of a request that nobody programmed. |
| `ServiceLog` | `page_loaded`, `forward_service_output` | `task`, `stop`, `proc` are the globals, `fw` where each forwarder is, `sel`, `journal`, `pipe`, `buf` what it selects on, its journalctl, and the lines in the pipe and in the reader's buffer, `joins` the callers in `task.join`. `met` remembers whether two callers ever joined at the same time. `page_loaded` and `joined` are the two halves of a caller, `Follow`, `Wake`, `Selected`, `Readline` the stretches of a forwarder between two suspensions; `Prints` is journald. |
| `ConnectionFilter` | what `t4p4s/stateful_firewall/README.md` promises | the flows that may come in, the internal ports, the last packet and its verdict. A parameter `Alike` says which flows are opened together. |
| `StatefulFirewall` | `stateful_firewall.p4` | `check_ports`, the two bloom filter registers, the last packet. `NotTCP`, `Internal`, `External` are the paths of `apply`; `WriteEntry` is the operator, `Restart` the switch. The hash is a constant: any function from flows to positions. `HashedFilter`, checked and proved, instantiates `ConnectionFilter` with the refinement mapping; the flows of one position are `Alike`. The filter that tells all flows apart, as the README has it, is not implemented: no hash of all flows into the register is injective. |
| `MirrorPorts` | `main` of the DPDK mirror up to the launch | one step per iteration of each loop: `parse_args`, `check_port_pair`, `check_mask`, `map_pair`, `map_port`, `assign_port`, `skip_port`, `start_ports`. A mask is the set of its bits. |
| `BasicMirror` | the running mirror | extends `MirrorPorts`: every step of `main` is a step of `BasicMirror` too, so the lcores run with every pairing and assignment the start can produce. The loop of an lcore is cut where another lcore could meet it in a transmit buffer: `forward` reads the length of the buffer, `store` writes the packet and the new length, as `rte_eth_tx_buffer` does. |
| `Entries` | `entries` of `dashboard/views.py`, `dummy_ctrl_plane_connection.py` | `server`, `entries`, `backlog` are the control plane, `page` the requests of the worker, `stream`, `conn`, `ended` the two directions and ends of a TCP connection. `Get` is the request of a page, `Handle` and `Send` the loop of the server, `Recv` one `pickle.loads(sock.recv(1024))`: a pickle ends at a unit of the connection, `upto`, and one `recv` returns `Room` units at most, so pickles run together and are cut. `WorkerEnds`, `StartServer` and `Dies` (an exception outside the `try`) are the failures. |
| `AccessPoint` | `access_point_settings`, the editors of `utils.py`, `forms.py` | `file`, `matches` are the three files and whether an editor finds its lines in them, `network` what hostapd runs with, `offered` what the form was imported with, `pc`, `form` the requests. `Read`, a constant, is what the form's readers make of a file with some settings: they never look for the country code, and cut a value at a second `=`, so two settings may read alike. An editor writes, raises before it opens the file, or raises after. `restart_web_service` does not return to its request, which `WebStarts` ends, or fails and returns. `WorkerDies` and `PowerFails` come at any step. |
| `FilterFields`, `TrafficFilter` | `traffic_filter.p4` | `rules` are the entries with their actions. `Apply` is the nested test of `apply`: `HitAny` of the tables of a header, in order (`FirstHit` decides whose action ran), and `UdpHit`, the `&&` of line 313. A prefix is the set of addresses it covers. |
| `ExampleSwitch` | the switch that runs one program or the other | composes `StatefulFirewall` and `TrafficFilter`: `Select` is the switch page, which starts the switch anew with empty tables and registers. |
| `XTermScreen` | `Buffer`, `BufferSet`, `CircularList`, `InputHandler`, `Terminal.scroll`, `resize`, `scrollLines` of `xterm.js`; `fit.js` | `buf` are the two buffers (cursor, saved row, scroll region, `ybase`, `ydisp`, lines and their limit), `stuck` what ended the handling of output. A handler is an operator from a buffer to a buffer; `Move` and `Edit` are one of them, `print`, `EditChars`, `eraseInLine` those that use the line of the cursor, and may find none. A line is what was printed last in it. The parameters are a constant, any positive numbers; `CountDown` stands for one that no loop counts down to 0. |
| `XTermTable`, `XTermParser` | `EscapeSequenceParser` | the transition table row by row, and `parse` code by code. Two parsers read one stream, `whole` in one call, `cut` in any pieces; only what one of them has handed over and the other has not is kept. |
| `XTermWrite` | `Terminal.write`, `_innerWrite` | the queue, `_writeInProgress` and the timer; a chunk is text, a reset, or one that makes a handler raise. |
| `XTermSelection` | `SelectionManager`, `SelectionModel` | a selection in rows, the mouse, the timer of a drag; `first` numbers the lines so that a row names a line after a trim. `NewLine` and `EraseScrollback` trim and tell the selection; `MoveLines` (scroll regions, insertLines, deleteLines) and the lines that `Shrink` pops do not, and `moved` remembers it. `RowMissing` is what makes `selectionText` raise. |
| `MC...` | | the instances that need more than a `.cfg` can say. `MCXTerm` puts the four parts of the emulator, which share no variable, into one run: a behaviour explores one of them. |
| `...Proofs` | | the theorems of a module and their proofs. Three of these modules cover several: `BasicMirrorProofs` the start of the mirror and its lcores, `ExampleSwitchProofs` the firewall, the filter and their switch, `XTermProofs` the screen, the parser, the queue of writes and the selection. |

What is abstracted: keys typed and lines printed are a mark in a set or a count;
program names and sources are elements of small sets; addresses and ports are
endpoints; packets of the mirror are the port they came in by and their number;
the settings of the access point are one value for all fields of a form; what is
printed on a screen is one character per line.
The text of a systemctl or journalctl command line is what the command does.

Left out inside modelled files: the two T4P4S option files an upload edits
before it writes the source (`dashboard/views.py` 87-94, `utils.py` 95-135); the
call of `page_loaded` at the end of a POST in `SwitchControl` (its effect is
`page_loaded` of `ServiceLog`, which treats a POST as one more caller); malformed
option strings of the mirror, which are refused before they change anything; the
statistics screen; the rewriting of addresses in a mirrored packet; the checksum
and the deparser of the firewall and the filter. Of `xterm.js`: attributes and
colours, character sets, tab stops (any stop may be the next), the columns of a
line, mouse reports, the keyboard and input methods, links, the renderers and the
accessibility tree. No property here is about them, and most are tables or
drawing.

## 3. Runs

| Run | Instance | Shows |
| --- | --- | --- |
| `terminal` | 2 sockets, 2 shells | `OwnsItsChild`, `SomeReader`, `DisconnectEnds`, `OutputForwarded`, `ReadersEnd` |
| `terminal_refresh` | 2 sockets, 2 shells, pages opened one after the other | **violated**: `RefreshFindsShell` |
| `switch_two` | 2 requests, 1 example, 1 source | `RunsSelected`, `OneSwitch` |
| `switch_one` | 1 request, 1 example, 2 sources | `SelectionRuns` |
| `log` | 2 callers, 3 forwarders, 2 lines | `OneFollower`, `SomeForwarder`, `StopObeyed`, `PipeDrained` |
| `firewall` | the firewall with 2 endpoints and a hash with 3 values for 4 flows, the filter with 6 entries and 31 packets, in one switch | `HashedFilter`, `BlocksCovered`, `NewRuleOnlyBlocks` |
| `filter_readme` | the same | **violated**: `AnyRuleBlocks` |
| `mirror_ports` | 3 devices of 4 ports, 2 enabled lcores of 4, all masks, all maps of up to two pairs, -q 1, 2, 16 | `Mirrored`, `PolledOnce`, `OneSender` |
| `mirror` | 2 ports, crossed or each its own mirror, on 2 lcores or both on one, bursts of 2, 2 packets per port | `MirrorTypeOK`, `Conserved`, `InOrder`, `Drains`, `Stops` |
| `entries` | 2 pages, 2 tables of up to 2 entries, one without a mask | `ShownAsServed`, `UpWhileShown`, `MasklessStay`, `PageEnds` |
| `access_point` | 2 requests, 3 settings of which 2 read alike, with and without the lines in `dhcpcd.conf` | `FilesAgree`, `NetworkRuns`, `FormCurrent`, `PostEnds` |
| `xterm` | a window of one column and 1 or 2 rows with a scrollback of 2; 15 codes; 5 writes in batches of 2; up to 3 lines in a list and 3 trimmed | `RowsExist`, `Follows`, `BreaksOutside`, `ViewStays`; `CutsUnseen`; `Accounted`; `OnItsLines`, `FailsWithoutRows` |

Type invariants take no run of their own: every one is proved for every
instance, alone (`TypeInvariant` of `SwitchControlProofs`, `ServiceLogProofs`,
`AccessPointProofs` and `BasicMirrorProofs`, `FirewallTyped`, `FilterTyped`,
`MirrorTyped`) or as a part of what a theorem states (of `Terminal` in
`ChildOwned`, of `Entries` in `ShownAsServedHolds`, of the screen in
`RowsHaveLines`).

### 3.1 Bounds, and why they are enough

- *Sockets, requests, callers: 2.* The code has one shell, one file, one `task`;
  what goes wrong goes wrong between two parties. A third adds no new pair of
  steps. `SelectionRuns` is about one request, and other requests are its exception;
  its run has one.
- *`MaxShells` 2.* Each shell starts a reader. Two shells let a reader outlive
  its shell and meet the reader of the next one on its pty. The theorems cover
  any number.
- *`MaxTasks` 3.* Two callers that join the first forwarder start the second and
  the third, which then run at once and share `proc` and `stop`.
- *`MaxLines` 2.* One line that `readline` returns and one it reads ahead; a
  full pipe blocks the writer at either size.
- *Pages 2, tables 2, entries 2.* One page waits in the backlog while the other
  is answered. A list takes 1, 2 or 4 units and `recv` returns 3: one pickle,
  several, or the beginning of one.
- *Settings 3, requests 2.* The one of the image and two others, one of which the
  form's readers take for that of the image; the second request edits while the
  first waits for hostapd.
- *Window 1 x 1 and 1 x 2, scrollback 2.* One column, so that every character
  fills its row and the next one wraps. With two rows there is a row outside the
  scroll region; the list of lines is filled and trimmed by four lines of output.
  Three more bounds keep the screen small, each stated where it applies: a
  sequence or a character takes the cursor at most `MaxX` columns to the right,
  at most one row above the window, and the alternate screen is entered from the
  first column. `ViewStays` and `BreaksOutside` are about a cursor in the window.
  The parameters are 1 and 2 in the run. The theorems hold for every window,
  scrollback and region and for any set of parameters; they are about the model
  with its three bounds. Where the model ends (`stuck`), the handling of output
  has ended too, but for `"short"`, the alternate screen without a line for its
  last row: from there handlers go on in the code, over a row that is not there.
- *Lists of up to 3 lines, 3 trimmed.* A selection of one line and of several,
  with lines before and behind it that are trimmed and popped.
- *15 codes of the stream.* ESC with `[`, `]` and `P`, the C1 codes of ST and PM,
  LF, CAN, a space, a digit, `;`, a letter, one that no row of the table has (28),
  one above 159, and 127, which is text in the ground state and ignored in others:
  every state of the table is entered. What only one of the parsers has handed
  over is bounded to a run of two characters; the stream itself has no bound.
- *`WRITE_BATCH_SIZE` 2, `MaxWrites` 5.* A full batch, a partial one, and chunks
  behind one that resets or raises, in and after its batch.
- *Endpoints 2.* A flow, its reverse, and the two flows of an endpoint with
  itself. The hash confuses two of them and tells a flow from its reverse, so the
  firewall can go wrong by a collision and by exchanging source and destination.
  The theorems cover every hash and every set of endpoints.
- *Board of 4 ports, 3 present.* A mask with a hole, an odd port, a port that is
  not there, a map that leaves a port out or pairs one with itself; two lcores
  for three ports, so that -q 1 runs out of cores.
- *`MAX_PKT_BURST` 2, `MaxRx` 2.* A buffer that is flushed because it is full
  and one that is not; a receive burst of 0, 1 or 2.

Bounded are also the numbers of shells, forwarders, lines, packets, writes and
trimmed lines. The runs whose behaviours end when a bound is reached, or in a
frozen terminal, disable the deadlock check; `SwitchControl`, `ExampleSwitch`,
`Entries` and `AccessPoint` keep it.

### 3.2 Fairness

- `Terminal`: the eventlet hub polls its descriptors and fires all due timers in
  every round. A timer of a greenthread that is due in round after round
  therefore fires, though the greenthread's action may be disabled in between
  (the worker is busy or blocked): strong fairness of `Wake`, `SelectTimeout`,
  `SelectReady` and `waitpid`. A reader that has been switched to runs, a shell
  answers what was typed, the kernel ends a killed process and gunicorn replaces
  a worker that is silent for 30 s: weak fairness. Users owe nothing.
- `SwitchControl`: a `systemctl` call returns, systemd restarts what is due
  (weak), and a start script that is started again and again completes once
  (strong: a failing compiler may disable it each time, but a program that never
  compiles is not one that "comes to run").
- `ServiceLog`: a greenthread that can run is run (weak). Nothing obliges a page
  to load or the switch to print.
- `Entries`: the worker resumes a page whose socket is readable, and the server
  runs while it lives (weak). No page owes a request, and nobody a new start of
  a server that has died.
- `AccessPoint`: systemd starts what it has been told to restart, after it has
  killed what is left of it (weak). Editors and `systemctl` return, and the hub
  resumes the requests that are ready in turn, so that one is not kept from its
  next step by others for ever (strong fairness of `Step` of each request).
- `BasicMirror`: main and the lcores are threads that keep running (weak), and
  time passes, so that a loop that turns for ever finds `drain_tsc` over again
  and again (strong fairness of `drain`). No signal is owed.

## 4. Findings

1. **A refresh loses the shell** (`terminal_refresh`). The comment in `connect`
   says that a client that refreshes finds the prompt of the running shell. The
   disconnect of the old page sends SIGKILL to that shell and waits for it; the
   new page connects meanwhile, is told that the shell is there, and starts none;
   then the shell dies, the globals are reset, and the page is dead until it is
   loaded again.
2. **One UDP rule blocks nothing** (`filter_readme`). The filter's README says that
   a packet is dropped if any blocking rule is valid for it, and its step 6 blocks
   a UDP port with one entry of `udp_dstPort_filter`. The `&&` at
   `traffic_filter.p4:313` wants a hit in both tables of UDP ports.

Also seen while modelling, and stated by the models rather than by a property
the repository claims:

- *Switch page*: two requests for different services at once can leave both
  switches running, and so can a `systemctl stop` or `disable` that fails, because
  nobody looks at its status (`OneSwitch` names these two causes, and excludes all
  others). A failed restart is answered with success: `switch` drops the message
  that `restart_t4p4s_service` returns. The tests for `exist` in
  `update_t4p4s_opts_dpdk` (`utils.py` 98-118) are inverted.
- *Service log*: a stop set before a forwarder's own `stop = False` is lost and
  its caller waits for ever (`StopObeyed` covers the stops that a forwarder meets
  in its loop).
- *Terminal*: output that is cut within a character, or is no UTF-8, ends the
  reader (`terminal/views.py:48`); the shell has no output until it is replaced
  (`SomeReader` and `OutputForwarded` say "or garbled").
- *Traffic filter*: a hit of `NoAction` sends the packet to port 0 instead of the other one.
- *Entries page*: entries without a mask cannot be deleted, and the page says
  nothing (`MasklessStay`); a page that leaves early, or a request that is no
  pickle, ends the control plane.
- *Access point page*: the image's `dhcpcd.conf` has `interface br0`, the editor
  looks for `interface wlan0`, so a new address is saved nowhere, while dnsmasq gets
  its new range; `README.md:67` lets the user append a block of wlan0, and then
  that one changes and the bridge's address still does not. So no property says
  that the range fits the address: on this image nothing makes it. The form shows
  the bridge's address, never the country code, and a value up to its second `=`;
  a file that was left empty is never repaired (`matches`); a POST is never
  answered, because it restarts its own service.
- *Statistics*: the page shows the ten oldest samples (`dashboard/views.py:122`).
- *Mirror*: `-T 86400`, the maximum by the usage text, is refused (`main.c` 317
  and 424); packets left in transmit buffers when a signal comes are neither sent
  nor counted (`Conserved` counts them as still held).
- *Terminal emulator*: a reverse index above the scroll region takes the cursor
  out of the window, and from there a character raises, ED 1 never ends, and
  lines are moved outside the list (`BreaksOutside` names the cause); an
  exception in `_innerWrite` freezes the terminal, and ESC c loses what is queued
  (`Accounted` lists both); the cursor saved on the alternate screen may be below
  a smaller window; a window that shrinks while the alternate screen is hidden
  gives it a scrollback, and one that then grows while the cursor is above the
  last row trims a line of it and leaves the window a row short (`BreaksOutside`
  and `RowsExist` name the case); a parameter so big that `param--` does not change
  it makes its handler loop for ever; `hVPosition` with one parameter puts the
  cursor into no column (NaN); whether the user
  has scrolled is kept per terminal, not per buffer: when the alternate screen was
  entered from a scrolled-up view and the user scrolled down there, the normal
  screen comes back scrolled up and is taken to follow (`Follows` excludes it, by
  `ghostScroll`); `EXECUTABLES.concat` (879) has no effect, so codes 28 to 31 have
  no transition: behind text of the same call they are put into the cell of its
  last character, elsewhere they are ignored, so what becomes of them does depend
  on the cut (`CutsUnseen` is about everything else). A selection is told of trims
  only: lines that a smaller window pops, or that a scroll region or inserted and
  deleted lines move, go from under it, and taking the text of rows that were
  popped raises a TypeError (`OnItsLines` and `FailsWithoutRows` except them). The page forwards key events only: pasted text, composed text and the
  answers of the terminal itself never reach the shell.

## 5. Theorems

Each is proved for every value of the constants under the named assumptions of
its module, which the runs evaluate.

- `TerminalProofs`: **ChildOwned**, **ShellHasReader**. `OwnsItsChild` is not
  inductive alone: a handler in `os.waitpid` may wait for any process as far as
  it says, and a reset by it could drop a live shell. The inductive invariant
  adds that whoever a handler waits for has been killed (`WaitsForKilled`), so
  that a reset by it resets the current child or happens when there is none to
  reap. `SomeReader` follows step by step from that invariant: a reader fails in
  select only because of another one that stays, and in `decode` only on output
  that `garbled` remembers until the next shell.
- `SwitchControlProofs`: **QuietRunsSelected**. The strengthening is a promise:
  while no request was cut short, a service that runs something else than the
  file names (`Stale`) is still to be stopped or restarted by some request under
  way (`StaleIsRenewed`), and no service runs before the file exists. A step of
  one request keeps the promises of the others (`KeepsRenewal`). **OneUnlessMissed**
  supposes nothing of the requests: until selections of both services have crossed,
  all those under way are of one service (`SameService`), and the invariant says
  what such a request has achieved at each of its calls and what a reboot would
  start (`OtherStopped`, `OtherDisabled`, `OneEnabled`), each unless `missed` has
  it; without the last, a reboot starts both.
- `ServiceLogProofs`: **NeverUnattended**, **OnlyOneFollows**. A forwarder ends for
  one of three reasons, and each leaves somebody behind. It meets `stop`: then the
  caller that set it is still joining, or has started a forwarder that has not
  reset it yet (`StopPending`). Its journalctl has ended: that happens only because
  `stop` was set (`KilledByStop`). Its pipe is selected on: by another forwarder.
  `OneFollower` needs that, until two callers meet, whoever joins waits for the
  last forwarder started (`OneJoins`).
- `AccessPointProofs`: **SavedTogether**, **NetworkCurrent**, **FormFollows**. One
  request edits at a time (`OneEdits`); while nothing is damaged, the files it has
  passed hold its form and the others still agree with each other (`InStep`), no
  file is empty (`Whole`), and a file of hostapd that differs from what hostapd
  runs with is one whose restart is still to come (`Awaited`). `FormCurrent` is
  inductive by itself, for any readers: a request that ends with its worker is
  followed by the import of the form, and `skipped` remembers one that does not.
- `ExampleSwitchProofs`: of the firewall, **FirewallFilters**, and
  **SwitchFilters** for a switch that may be given the
  other program in between. Refinement: the initial state maps to an initial
  state, and each step to a step or a stutter of `ConnectionFilter`; the flows
  whose two register cells are set are the opened ones. The lemma behind it:
  setting the cells of a flow opens the flows of the same hash and no other
  (`RecordOpens`). Of the filter, **RulesBlock** and **RulesOnlyBlock**, for packets that come in by its
  two ports with the fields the parser extracts, and entries that cover finitely
  many values. A table that hits has an entry with the longest prefix, because the
  numbers of values covered have a least one (`Least`). A new entry that drops is
  the longest, or the old longest still is (`DropsStay`); a table that hits only
  now has no other (`NewHitDrops`); so the first hit of a packet that was dropped
  is the one it was, or a new one (`MarkedStays`).
- `BasicMirrorProofs`: of the start, **PortsMirrored**, **PortsPolledOnce**,
  **SendersApart**. The invariant of the loops over pairs says that the pairs seen
  so far are apart and cover the configured mask, that of the loop over ports that
  the ports seen so far, but for an odd last one, are matched among themselves;
  that of the assignment that the ports seen so far are each in one list, once.
  That no two lcores send to the same port follows from the two: `dst` is its own
  inverse on the enabled ports, so two lcores with one destination would poll the
  same port. Of the running mirror, **MirrorTyped**, **CountersConserved**,
  **SentInOrder**. `MirrorTyped` bounds
  the two arrays: a buffer that is full is sent before anything is stored in it
  again. `LoopInv` says of each port an lcore polls that what was
  received is sent, dropped, buffered or in the hand of that lcore, and that what
  went into the transmit buffer of its mirror is numbered in order, up to what is
  in hand (`Kept`); and that `len`, read before the packet is stored, still is the
  length of the buffer. The last needs `SendersApart`: a buffer has one lcore that
  writes to it, so the steps of all others leave `Kept` and `len` alone (`OnlyOne`,
  `OtherPort`).
- `EntriesProofs`: **ShownAsServedHolds**, **UpWhileShownHolds**,
  **MasklessStayHolds**. Messages have no frames, so a page counts pickles. It has
  and may read at most as many as were sent to it (`Held(p) <= Sent(p)`); once one
  `recv` has returned more than one pickle and lost the rest, there are fewer, and
  it never catches up. So a page that has them all has lost none, and then the
  k-th it has is the k-th that was sent (`Matches`) of the lists at the time of its
  request, which contain what it added (`AddSeen`); that the server handles one
  connection at a time keeps those lists still while it sends. `UpWhileShown` needs
  what can end the server in the future: an unread request that raises, or a
  connection that was closed early, in the backlog or being served, counts as
  broken already (`BrokenInv`). `MasklessStay` is an order-preserving
  correspondence with the initial entries without a mask, which composes with
  the one of an edit (`StaysAdded`, `StaysWithout`).
- `XTermProofs`: the screen, **RowsHaveLines**, **BottomFollowed**,
  **BreaksOnlyOutside**, **ViewIsHeld**; the parser, **CutsMakeNoDifference**; the
  queue, **ChunksAccounted**; the selection, **SelectionOnItsLines**,
  **ListenersFailWithoutRows**; and **PartsOfTheRun**, by which the behaviours of `xterm` are behaviours of each of
  these specifications. The invariant of the screen, `ScreenInv`: a buffer that is
  shown has `ybase + rows` lines, no more than its limit; the normal one has room
  for the whole scrollback, its cursor and its saved cursor are not below the
  window, also while it is hidden; a hidden alternate buffer has no lines; a hidden
  normal one shows its bottom, unless the user had scrolled it (`ghostScroll`).
  Each handler is a composition of a few operators, and each of these has a lemma
  that it keeps `Kept`: the shape of the buffer, a view at the bottom at the bottom,
  and `Still`, the line a scrolled-up user reads. `Kept` is made to compose. The
  loop of `resize` has a row more or a row less at each turn and is followed by
  the sum of what it has added and taken (`GrownBy`, `ShrunkBy`). `BreaksOutside`
  follows because inside the window every row has a line, unless a resize of the
  alternate screen took it (`ResizeFits` says when it does). The parser: two that read
  the same stream, one of them cut, agree on their state, on the collected strings
  and parameters, on the DCS data if the pending run is put behind what is kept
  (`Data`), and on what they have handed over if the pending run is (`Handed`). That
  a code keeps this rests on the table: from the ground state every action but
  text and a code without a transition hands over the run (`TransitionFits`), no
  other state prints, and the codes without a transition there, 28 to 31, are
  the only ones that a run may have in one parser and not in the other, which
  `Seen` leaves out. The queue: numbers of the
  chunks rise through what is handled, lost, in the batch and queued (`Rising`), so
  that none is in two of them. The selection: its two ends and the drag follow the
  line they are on, `first + row`, through a trim, until lines move or are popped.

Where a loop or a recursive function counts (`recv` over pickles, a batch over
chunks, the hit with the longest prefix, the rows of `resize`, the codes of a run),
the proof takes the least number at which something would fail, and looks at the
one before it. The
assumptions are those the code justifies: a window has a row and a column, a
scrollback is a number, a batch and a burst are not empty, a pickle is not empty
and `recv` returns something, tables have names, codes are numbers.

Only model-checked: the liveness properties (they rest on fairness, which the
prover does not treat). Every safety property of a passing run is proved.

## 6. Left to do, and left out

Worth composing and proving: `SwitchControl` with `ServiceLog`, a POST that ends
in `page_loaded` with the restart of the worker seen by both; `Terminal` with
`XTermWrite`, one end of the socket each.

Not modelled, and why:

- `arp_icmp`, `reflector`, `basic_mirror.p4` and `calc` keep no state: what a
  packet turns into is a list of assignments, and a property of it would repeat
  them. `l2switch` sends a digest for each unknown address, but the controller
  that would learn from it is not in the repository.
- The sampler of the statistics and the page that shows them are an insertion and
  a query. What is wrong with the query is said in section 4.
- `p4pi-setup` and the network units run once, from top to bottom; their order is
  systemd's.
- The P4Runtime client library and the exercises are teaching material that
  nothing else uses; some are skeletons to be filled in.
- Accounts and static pages are Django's.
- The renderers, keyboard, input methods, links and accessibility tree of
  `xterm.js`: drawing, tables and browser events, with no property here about
  them. The other scripts are those of section 1.4. They are the larger part of
  the JavaScript in the repository, so that the share of it that is modelled stays
  small although the terminal emulator is the only script with logic of its own.
- Building the image and the packages, compilation by p4c and T4P4S, and the
  timing of DPDK.
