---------------------------- MODULE SftpSessions ----------------------------
(***************************************************************************)
(* What runs on an SSH session of ssh/session_manager: the SFTP channel and *)
(* the file operations of ssh/sftp and commands/sftp, the agent's commands  *)
(* typed into the terminal, and the grants for local files of               *)
(* transfers/grants.  Requests run concurrently; the session may be         *)
(* disconnected, or its connection lost, while any of them is under way.    *)
(***************************************************************************)
EXTENDS Naturals, FiniteSets, SequencesExt

CONSTANTS
  Ops,         \* file requests
  Entries,     \* names in the directory shown
  MaxRemovals, \* MAX_DELETE_ENTRIES
  Typists,     \* agent commands
  ContextLimit, \* TERMINAL_CONTEXT_LIMIT
  MaxOutput,   \* bound on the bytes of output
  Folders,     \* remote directories files are uploaded to
  HistoryLimit, \* MAX_HISTORY_ENTRIES
  Accepts,     \* requests for a dropped file
  MaxDrops     \* bound on the drops

ASSUME SftpAssumption == ContextLimit \in Nat \ {0}

VARIABLES
  registered, \* whether the session is in the manager's map
  link,       \* whether its connection is up
  channel,    \* the SFTP channel in its slot: "none" or "open"
  live,       \* SFTP channels that are open on the connection
  holder,     \* who holds the lock of the slot
  op,         \* the requests
  entry,      \* the directory: what each name is
  inner,      \* what is inside each directory of it
  temps,      \* the temporary files of the writes
  context,    \* the terminal's buffer and the bytes it has seen
  typist,     \* the agent commands
  typing,     \* who holds agent_command_lock
  staged,     \* the dropped files, 0 for none
  permit,     \* the stored permit of upload_drop_ready
  stager,     \* the drop under way
  accept,     \* the requests for it
  grants,     \* grants that can be consumed
  history     \* the directories of earlier uploads, the latest last

sftpVars == <<registered, link, channel, live, holder, op, entry, inner, temps>>

terminalVars == <<context, typist, typing>>

grantVars == <<staged, permit, stager, accept, grants, history>>

Nobody == "nobody"

OpIdle == [pc |-> "idle", kind |-> "none"]

SftpInit ==
  /\ registered = TRUE /\ link = "up" /\ channel = "none" /\ live = 0 /\ holder = Nobody
  /\ op = [o \in Ops |-> OpIdle]
  /\ entry = [n \in Entries |-> "file"] /\ inner = [n \in Entries |-> 0]
  /\ temps = [o \in Ops |-> "none"]

-----------------------------------------------------------------------------
(* The channel.  sftp_open looks the session up, waits for the slot and,    *)
(* when the slot is empty, looks the session up again.                      *)

EndOp(o, how) == [op EXCEPT ![o].pc = how]

(* The requests by what the workspace's policy must allow.                  *)
ReadFiles == {"browse", "image", "text"}

WriteFiles == {"mkdir", "rename", "delete", "write"}

(* authorize: the policy may deny the session's profile either.             *)
authorize(kind, denied) == ~(kind \in ReadFiles /\ "ReadFiles" \in denied) /\ ~(kind \in WriteFiles /\ "WriteFiles" \in denied)

open_sftp(o, kind, denied) ==
  /\ op[o].pc = "idle" /\ registered
  /\ op' = [op EXCEPT ![o] = [pc |-> IF authorize(kind, denied) THEN "lock" ELSE "failed", kind |-> kind]]
  /\ UNCHANGED <<registered, link, channel, live, holder, entry, inner, temps>>

StillThere == registered /\ link = "up"

TakeSlot(o) ==
  /\ op[o].pc = "lock" /\ holder = Nobody
  /\ \/ channel = "open" /\ op' = EndOp(o, "opened") /\ UNCHANGED <<holder, live>>
     \/ channel = "none" /\ ~StillThere /\ op' = EndOp(o, "failed") /\ UNCHANGED <<holder, live>>
     \/ channel = "none" /\ StillThere /\ op' = EndOp(o, "opening") /\ holder' = o /\ live' = live + 1
  /\ UNCHANGED <<registered, link, channel, entry, inner, temps>>

(* The subsystem answers and the channel goes into the slot, or it fails    *)
(* and the channel is dropped with it.                                      *)
Opened(o, ok) ==
  /\ op[o].pc = "opening" /\ (ok => link = "up")
  /\ holder' = Nobody
  /\ channel' = (IF ok THEN "open" ELSE channel)
  /\ live' = (IF ok \/ live = 0 THEN live ELSE live - 1)
  /\ op' = EndOp(o, IF ok THEN "opened" ELSE "failed")
  /\ UNCHANGED <<registered, link, entry, inner, temps>>

(* disconnect: the session leaves the map first; then the slot is emptied,  *)
(* the channel closed, and the connection.                                  *)
disconnect_session ==
  /\ registered
  /\ registered' = FALSE
  /\ UNCHANGED <<link, channel, live, holder, op, entry, inner, temps>>

CloseSlot ==
  /\ ~registered /\ holder = Nobody /\ link # "closed"
  /\ channel' = "none" /\ live' = (IF channel = "open" /\ live > 0 THEN live - 1 ELSE live)
  /\ link' = "closed"
  /\ UNCHANGED <<registered, holder, op, entry, inner, temps>>

ConnectionLost ==
  /\ link = "up"
  /\ link' = "lost" /\ live' = 0
  /\ UNCHANGED <<registered, channel, holder, op, entry, inner, temps>>

-----------------------------------------------------------------------------
(* File operations.  All of them have the channel; an operation on one that *)
(* is closed fails.                                                         *)

Works == channel = "open" /\ link = "up"

OpFails(o) ==
  /\ op[o].pc \in {"opened", "written", "checked", "removed", "tree", "clean"} /\ ~Works
  /\ op' = EndOp(o, "failed")
  /\ UNCHANGED <<registered, link, channel, live, holder, entry, inner, temps>>

(* list, stat, change_directory and refresh hold the slot meanwhile.        *)
Browse(o) ==
  /\ op[o].pc = "opened" /\ op[o].kind = "browse" /\ Works /\ holder = Nobody
  /\ op' = EndOp(o, "done")
  /\ UNCHANGED <<registered, link, channel, live, holder, entry, inner, temps>>

(* What an image preview and a text preview take: a picture of a known      *)
(* format and size, bytes of a known encoding.                              *)
inspect_image(content) == content = "picture"

decode_text(content) == content = "characters"

(* The previews and read_text look at the size, read, and look again: the   *)
(* file may have grown.                                                     *)
Preview(o, n, large, grown, content) ==
  /\ op[o].pc = "opened" /\ op[o].kind \in {"image", "text"} /\ Works
  /\ LET shown == IF op[o].kind = "image" THEN inspect_image(content) ELSE decode_text(content)
     IN op' = EndOp(o, IF entry[n] = "file" /\ ~large /\ ~grown /\ shown THEN "done" ELSE "failed")
  /\ UNCHANGED <<registered, link, channel, live, holder, entry, inner, temps>>

create_directory(o, n) ==
  /\ op[o].pc = "opened" /\ op[o].kind = "mkdir" /\ Works
  /\ entry' = IF entry[n] = "none" THEN [entry EXCEPT ![n] = "dir"] ELSE entry
  /\ op' = EndOp(o, IF entry[n] = "none" THEN "done" ELSE "failed")
  /\ UNCHANGED <<registered, link, channel, live, holder, inner, temps>>

(* rename: the new name is looked up first; the server refuses to rename    *)
(* over a file as well.                                                     *)
rename(o, n, m) ==
  /\ op[o].pc = "opened" /\ op[o].kind = "rename" /\ Works /\ n # m
  /\ op' = [op EXCEPT ![o] =
       IF entry[n] = "none" \/ entry[m] # "none" THEN [@ EXCEPT !.pc = "failed"]
       ELSE [pc |-> "checked", kind |-> "rename", from |-> n, to |-> m]]
  /\ UNCHANGED <<registered, link, channel, live, holder, entry, inner, temps>>

RenameEntry(o) ==
  /\ op[o].pc = "checked" /\ op[o].kind = "rename" /\ Works
  /\ LET n == op[o].from
         m == op[o].to
         ok == entry[n] # "none" /\ entry[m] = "none"
     IN /\ entry' = IF ok THEN [entry EXCEPT ![m] = entry[n], ![n] = "none"] ELSE entry
        /\ inner' = IF ok THEN [inner EXCEPT ![m] = inner[n], ![n] = 0] ELSE inner
        /\ op' = EndOp(o, IF ok THEN "done" ELSE "failed")
  /\ UNCHANGED <<registered, link, channel, live, holder, temps>>

(* delete: a file or an empty directory at once, the rest entry by entry.   *)
delete_entry(o, n, recursive) ==
  /\ op[o].pc = "opened" /\ op[o].kind = "delete" /\ Works
  /\ LET tree == entry[n] = "dir" /\ recursive
         gone == entry[n] = "file" \/ (entry[n] = "dir" /\ inner[n] = 0)
     IN /\ op' = [op EXCEPT ![o] = IF tree THEN [pc |-> "tree", kind |-> "delete", at |-> n, removed |-> 0]
                                   ELSE [@ EXCEPT !.pc = IF gone THEN "done" ELSE "failed"]]
        /\ entry' = IF ~tree /\ gone THEN [entry EXCEPT ![n] = "none"] ELSE entry
  /\ UNCHANGED <<registered, link, channel, live, holder, inner, temps>>

delete_directory_tree(o) ==
  /\ op[o].pc = "tree" /\ Works
  /\ LET n == op[o].at
     IN \/ inner[n] > 0 /\ op[o].removed < MaxRemovals /\ entry[n] = "dir"
           /\ inner' = [inner EXCEPT ![n] = @ - 1]
           /\ op' = [op EXCEPT ![o].removed = @ + 1] /\ UNCHANGED entry
        \/ inner[n] > 0 /\ op[o].removed = MaxRemovals /\ op' = EndOp(o, "failed") /\ UNCHANGED <<inner, entry>>
        \/ inner[n] = 0 /\ entry[n] = "dir" /\ entry' = [entry EXCEPT ![n] = "none"]
           /\ op' = EndOp(o, "done") /\ UNCHANGED inner
        \/ entry[n] # "dir" /\ op' = EndOp(o, "failed") /\ UNCHANGED <<inner, entry>>
  /\ UNCHANGED <<registered, link, channel, live, holder, temps>>

(* Something else on the host puts a file into a directory.                 *)
Fill(n) ==
  /\ entry[n] = "dir" /\ inner[n] <= MaxRemovals
  /\ inner' = [inner EXCEPT ![n] = @ + 1]
  /\ UNCHANGED <<registered, link, channel, live, holder, op, entry, temps>>

(* write_text: a temporary file, complete before the old file is removed    *)
(* and the new one renamed into its place.                                  *)
write_text(o, n) ==
  /\ op[o].pc = "opened" /\ op[o].kind = "write" /\ Works
  /\ op' = [op EXCEPT ![o] = [pc |-> "written", kind |-> "write", to |-> n]]
  /\ temps' = [temps EXCEPT ![o] = "partial"]
  /\ UNCHANGED <<registered, link, channel, live, holder, entry, inner>>

WriteContent(o, ok) ==
  /\ op[o].pc = "written" /\ Works
  /\ temps' = [temps EXCEPT ![o] = IF ok THEN "whole" ELSE @]
  /\ op' = EndOp(o, IF ok THEN "checked" ELSE "clean")
  /\ UNCHANGED <<registered, link, channel, live, holder, entry, inner>>

RemoveOld(o) ==
  /\ op[o].pc = "checked" /\ op[o].kind = "write" /\ Works
  /\ entry' = IF entry[op[o].to] = "file" THEN [entry EXCEPT ![op[o].to] = "none"] ELSE entry
  /\ op' = EndOp(o, IF entry[op[o].to] = "dir" THEN "clean" ELSE "removed")
  /\ UNCHANGED <<registered, link, channel, live, holder, inner, temps>>

RenameTemp(o) ==
  /\ op[o].pc = "removed" /\ Works
  /\ LET ok == entry[op[o].to] = "none"
     IN /\ entry' = IF ok THEN [entry EXCEPT ![op[o].to] = "file"] ELSE entry
        /\ temps' = IF ok THEN [temps EXCEPT ![o] = "none"] ELSE temps
        /\ op' = EndOp(o, IF ok THEN "done" ELSE "clean")
  /\ UNCHANGED <<registered, link, channel, live, holder, inner>>

RemoveTemp(o) ==
  /\ op[o].pc = "clean" /\ Works
  /\ temps' = [temps EXCEPT ![o] = "none"]
  /\ op' = EndOp(o, "failed")
  /\ UNCHANGED <<registered, link, channel, live, holder, entry, inner>>

SftpNext ==
  \/ \E o \in Ops, k \in ReadFiles \cup WriteFiles, d \in {{}, {"ReadFiles"}, {"WriteFiles"}} : open_sftp(o, k, d)
  \/ \E o \in Ops, n \in Entries, large, grown \in BOOLEAN, c \in {"picture", "characters", "bytes"} :
       Preview(o, n, large, grown, c)
  \/ \E o \in Ops : \/ TakeSlot(o) \/ OpFails(o) \/ Browse(o) \/ RenameEntry(o) \/ delete_directory_tree(o)
                    \/ RemoveOld(o) \/ RenameTemp(o) \/ RemoveTemp(o)
  \/ \E o \in Ops, ok \in BOOLEAN : Opened(o, ok) \/ WriteContent(o, ok)
  \/ \E o \in Ops, n \in Entries : create_directory(o, n) \/ write_text(o, n)
  \/ \E o \in Ops, n, m \in Entries : rename(o, n, m)
  \/ \E o \in Ops, n \in Entries, r \in BOOLEAN : delete_entry(o, n, r)
  \/ \E n \in Entries : Fill(n)
  \/ disconnect_session \/ CloseSlot \/ ConnectionLost

-----------------------------------------------------------------------------
(* The terminal.  A byte of output is its position in the whole output.     *)

Quiet == [pc |-> "idle", mark |-> 0, got |-> <<>>]

TerminalInit ==
  /\ context = [bytes |-> <<>>, total |-> 0]
  /\ typist = [a \in Typists |-> Quiet] /\ typing = Nobody

Chunk(k) == [i \in 1..k |-> context.total + i]

(* Mutant: a chunk that does not fit is cut, as a whole one is.             *)
append_cut(k) ==
  [total |-> context.total + k,
   bytes |-> IF Len(context.bytes) + k <= ContextLimit THEN context.bytes \o Chunk(k) ELSE Chunk(k)]

append(k) ==
  [total |-> context.total + k,
   bytes |-> IF k >= ContextLimit THEN SubSeq(Chunk(k), k - ContextLimit + 1, k)
             ELSE LET all == context.bytes \o Chunk(k)
                      overflow == IF Len(all) > ContextLimit THEN Len(all) - ContextLimit ELSE 0
                  IN SubSeq(all, overflow + 1, Len(all))]

Output(k) ==
  /\ context.total + k <= MaxOutput
  /\ context' = append(k)
  /\ UNCHANGED <<typist, typing>>

text_since(mark) ==
  LET start == context.total - Len(context.bytes)
      offset == IF mark > start THEN mark - start ELSE 0
  IN SubSeq(context.bytes, offset + 1, Len(context.bytes))

(* One agent command at a time; its output is what follows the mark, at the *)
(* prompt or after AGENT_TERMINAL_COMMAND_TIMEOUT.                          *)
execute_terminal_command(a) ==
  /\ typist[a].pc = "idle" /\ typing = Nobody
  /\ typing' = a
  /\ typist' = [typist EXCEPT ![a] = [pc |-> "typed", mark |-> context.total, got |-> <<>>]]
  /\ UNCHANGED context

CommandReturns(a) ==
  /\ typist[a].pc = "typed"
  /\ typing' = Nobody
  /\ typist' = [typist EXCEPT ![a].pc = "returned", ![a].got = text_since(typist[a].mark)]
  /\ UNCHANGED context

TerminalNext ==
  \/ \E k \in 1..(ContextLimit + 1) : Output(k)
  \/ \E a \in Typists : execute_terminal_command(a) \/ CommandReturns(a)

-----------------------------------------------------------------------------
(* Local files.                                                             *)

GrantsInit ==
  /\ staged = 0 /\ permit = FALSE /\ stager = [pc |-> "idle", drops |-> 0]
  /\ accept = [c \in Accepts |-> "idle"] /\ grants = {} /\ history = <<>>

(* Mutant: the waiting request is woken before there is something to take.  *)
NotifyThenStage == <<"notify", "stage">>

StageOrder == <<"stage", "notify">>

stage_upload_drop(i) ==
  /\ stager.pc = (IF i = 1 THEN "idle" ELSE "between") /\ stager.drops < MaxDrops
  /\ stager' = IF i = 1 THEN [stager EXCEPT !.pc = "between"] ELSE [pc |-> "idle", drops |-> stager.drops + 1]
  /\ \/ /\ StageOrder[i] = "stage"
        /\ staged' = stager.drops + 1 /\ UNCHANGED <<permit, accept>>
     \/ /\ StageOrder[i] = "notify" /\ UNCHANGED staged
        /\ \/ \E c \in Accepts : accept[c] = "waiting" /\ accept' = [accept EXCEPT ![c] = "woken"] /\ UNCHANGED permit
           \/ (\A c \in Accepts : accept[c] # "waiting") /\ permit' = TRUE /\ UNCHANGED accept
  /\ UNCHANGED <<grants, history>>

(* accept_latest_upload_drop: take what is staged, or wait to be woken or   *)
(* for the deadline.  Files that cannot be read get no grant.               *)
accept_latest_upload_drop(c, readable) ==
  /\ accept[c] \in {"idle", "woken"}
  /\ \/ /\ staged # 0
        /\ staged' = 0
        /\ grants' = IF readable THEN grants \cup {<<staged, "upload">>} ELSE grants
        /\ accept' = [accept EXCEPT ![c] = IF readable THEN "done" ELSE "failed"]
     \/ /\ staged = 0 /\ ~readable
        /\ accept' = [accept EXCEPT ![c] = "empty"]
        /\ UNCHANGED <<staged, grants>>
  /\ UNCHANGED <<permit, stager, history>>

Await(c) ==
  /\ accept[c] = "empty"
  /\ accept' = [accept EXCEPT ![c] = IF permit THEN "woken" ELSE "waiting"]
  /\ permit' = FALSE
  /\ UNCHANGED <<staged, stager, grants, history>>

Deadline(c) ==
  /\ accept[c] = "waiting"
  /\ accept' = [accept EXCEPT ![c] = "failed"]
  /\ UNCHANGED <<staged, permit, stager, grants, history>>

(* The file dialogs: sftp_select_upload_files, sftp_select_download_target. *)
Select(c, way) ==
  /\ accept[c] = "idle"
  /\ accept' = [accept EXCEPT ![c] = "done"]
  /\ grants' = grants \cup {<<c, way>>}
  /\ UNCHANGED <<staged, permit, stager, history>>

(* One entry for each directory, the oldest are dropped.                    *)
remember_path(folder) ==
  LET all == Append(SelectSeq(history, LAMBDA f : f # folder), folder)
      drain == IF Len(all) > HistoryLimit THEN Len(all) - HistoryLimit ELSE 0
  IN SubSeq(all, drain + 1, Len(all))

(* consume: a grant is spent by the request that names it, also when it was *)
(* given for the other direction.  An upload that was queued is remembered. *)
StartTransfer(g, way, folder, queued) ==
  /\ g \in grants
  /\ grants' = grants \ {g}
  /\ history' = IF g[2] = way /\ way = "upload" /\ queued THEN remember_path(folder) ELSE history
  /\ UNCHANGED <<staged, permit, stager, accept>>

GrantsNext ==
  \/ \E i \in 1..2 : stage_upload_drop(i)
  \/ \E c \in Accepts, r \in BOOLEAN : accept_latest_upload_drop(c, r)
  \/ \E c \in Accepts : Await(c) \/ Deadline(c)
  \/ \E c \in Accepts, w \in {"upload", "download"} : Select(c, w)
  \/ \E g \in grants, w \in {"upload", "download"}, f \in Folders, q \in BOOLEAN : StartTransfer(g, w, f, q)

SftpSpec ==
  /\ SftpInit /\ TerminalInit /\ GrantsInit
  /\ [][\/ SftpNext /\ UNCHANGED <<terminalVars, grantVars>>
        \/ TerminalNext /\ UNCHANGED <<sftpVars, grantVars>>
        \/ GrantsNext /\ UNCHANGED <<sftpVars, terminalVars>>]_<<sftpVars, terminalVars, grantVars>>

SftpTypeOK ==
  /\ live \in Nat /\ channel \in {"none", "open"} /\ holder \in Ops \cup {Nobody}
  /\ context.total \in 0..MaxOutput /\ Len(context.bytes) <= ContextLimit
  /\ staged \in 0..MaxDrops

-----------------------------------------------------------------------------
(* The output an agent's command returns is all of the terminal's output    *)
(* since the command was typed or, of a longer output, its last bytes, also *)
(* when the buffer has dropped what was there at the mark                   *)
(* (session_manager.rs append, text_since).                                 *)
OutputSinceMark ==
  \A a \in Typists : typist[a].pc = "typed" =>
    LET since == context.total - typist[a].mark
        kept == IF since > ContextLimit THEN ContextLimit ELSE since
    IN text_since(typist[a].mark) = [i \in 1..kept |-> context.total - kept + i]

(* No request sleeps until its deadline while a drop is staged and nobody   *)
(* is about to take it (grants.rs accept_latest_upload_drop).               *)
NoLostDrop ==
  staged # 0 /\ stager.pc = "idle" /\ (\E c \in Accepts : accept[c] = "waiting") =>
    permit \/ \E c \in Accepts : accept[c] = "woken"
=============================================================================
