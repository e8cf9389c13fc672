----------------------------- MODULE JosServe -----------------------------
(***************************************************************************)
(* The JOS file server's request loop (oslab6/fs/serv.c) and its clients'  *)
(* side of it: the file device (lib/file.c), the descriptor table          *)
(* (lib/fd.c) and the rendezvous of lib/ipc.c.                             *)
(*                                                                         *)
(* A descriptor is a page: the server's Fd page of a slot of opentab,      *)
(* mapped in every client that has the file open.  The server has no other *)
(* record of who uses a slot than that page's reference count, which       *)
(* clients change behind its back by unmapping, dup, fork and dying.       *)
(***************************************************************************)
EXTENDS Integers, FiniteSets, FiniteSetsExt

CONSTANTS Client, first,     \* environments; the one that runs at the start
          Path,              \* files that exist
          Fds,               \* descriptor numbers, 0..MAXFD-1
          MAXOPEN,           \* slots of opentab
          GENS,              \* file ids per slot before uint32_t wraps
          MaxCalls

ASSUME ServeConstants ==
    /\ first \in Client /\ IsFiniteSet(Client)
    /\ Fds \subseteq Nat /\ 0 \in Fds /\ IsFiniteSet(Fds)
    /\ {MAXOPEN, GENS} \subseteq Nat \ {0} /\ MaxCalls \in Nat

TabSlots == 0..(MAXOPEN - 1)
NoSlot == -1
NoPath == "none"      \* a path that no file has, and no path

VARIABLES opentab,   \* by slot: o_fileid, o_file
          fdpage,    \* by slot: the Fd page, "ref" 0 until it is allocated
          fd,        \* by client and number: the slot whose page is mapped
          meant,     \* by client and number: the file that was opened there
          cl,        \* by client: where it is in its call
          sv,        \* the server: idle, or the reply it is sending
          calls

serveVars == <<opentab, fdpage, fd, meant, cl, sv, calls>>

Idle == [at |-> "idle"]
NoFds == [n \in Fds |-> NoSlot]

ServeInit ==
    /\ opentab = [k \in TabSlots |-> [id |-> k, file |-> NoPath]]
    /\ fdpage = [k \in TabSlots |-> [alloc |-> FALSE, id |-> 0]]
    /\ fd = [c \in Client |-> NoFds]
    /\ meant = [c \in Client |-> [n \in Fds |-> NoPath]]
    /\ cl = [c \in Client |-> IF c = first THEN Idle ELSE [at |-> "unborn"]]
    /\ sv = Idle
    /\ calls = 0

(* pageref of a slot's Fd page: the server's own mapping, and the clients'. *)
Mappings(k) == {x \in Client \X Fds : fd[x[1]][x[2]] = k}
pageref(k) == IF fdpage[k].alloc THEN 1 + Cardinality(Mappings(k)) ELSE 0

Resumes(c, r) == cl' = [cl EXCEPT ![c] = r]

----------------------------------------------------------------------------
(* Clients.  A call to the server fills the request page, then ipc_send    *)
(* tries until the server receives, then ipc_recv waits for the answer.    *)

fd_alloc(c) == {n \in Fds : fd[c][n] = NoSlot}
Requesting(c) == cl[c].at = "idle" /\ calls < MaxCalls /\ calls' = calls + 1

open(c, path) ==
    /\ Requesting(c)
    /\ fd_alloc(c) # {}
    /\ Resumes(c, [at |-> "send", req |-> "open", path |-> path, fd |-> Min(fd_alloc(c))])
    /\ UNCHANGED <<opentab, fdpage, fd, meant, sv>>

(* devfile_read, write, stat, trunc and flush all name the file by the id  *)
(* in the descriptor page; close unmaps the page after its flush.          *)
devfile_call(c, n, close) ==
    /\ Requesting(c)
    /\ fd[c][n] # NoSlot
    /\ Resumes(c, [at |-> "send", req |-> IF close THEN "close" ELSE "use",
                id |-> fdpage[fd[c][n]].id, fd |-> n])
    /\ UNCHANGED <<opentab, fdpage, fd, meant, sv>>

(* dup onto a number that is not open; one that is open is closed first,   *)
(* by the call above.                                                      *)
client_dup(c, old, new) ==
    /\ Requesting(c)
    /\ fd[c][old] # NoSlot /\ fd[c][new] = NoSlot
    /\ fd' = [fd EXCEPT ![c][new] = fd[c][old]]
    /\ meant' = [meant EXCEPT ![c][new] = meant[c][old]]
    /\ UNCHANGED <<opentab, fdpage, cl, sv>>

(* fork maps the PTE_SHARE descriptor pages in the child.                  *)
client_fork(c, d) ==
    /\ Requesting(c)
    /\ cl[d].at = "unborn"
    /\ fd' = [fd EXCEPT ![d] = fd[c]]
    /\ meant' = [meant EXCEPT ![d] = meant[c]]
    /\ Resumes(d, Idle)
    /\ UNCHANGED <<opentab, fdpage, sv>>

(* env_free unmaps every page of an environment that exits or is destroyed *)
(* at any moment.                                                          *)
client_destroyed(c) ==
    /\ cl[c].at \notin {"unborn", "dead"}
    /\ fd' = [fd EXCEPT ![c] = NoFds]
    /\ meant' = [meant EXCEPT ![c] = [n \in Fds |-> NoPath]]
    /\ Resumes(c, [at |-> "dead"])
    /\ UNCHANGED <<opentab, fdpage, sv, calls>>

(* ipc_send to the server succeeds when it is receiving; then ipc_recv.    *)
ipc_send(c) ==
    /\ cl[c].at = "send" /\ sv.at = "idle"
    /\ sv' = [at |-> "serve", from |-> c]
    /\ Resumes(c, [cl[c] EXCEPT !.at = "sent"])
    /\ UNCHANGED <<opentab, fdpage, fd, meant, calls>>

ipc_recv(c) ==
    /\ cl[c].at = "sent"
    /\ Resumes(c, [cl[c] EXCEPT !.at = "recv"])
    /\ UNCHANGED <<opentab, fdpage, fd, meant, sv, calls>>

----------------------------------------------------------------------------
(* The server.                                                             *)

Reusable_shared(k) == pageref(k) <= 2
Reusable(k) == pageref(k) <= 1
Available == {k \in TabSlots : Reusable(k)}
NextId(k) == k + MAXOPEN * (((opentab[k].id \div MAXOPEN) + 1) % GENS)

(* An id is returned as an int: the upper half of uint32_t reads as an     *)
(* error.                                                                  *)
Negative(id) == 2 * id >= MAXOPEN * GENS

Reply(r) == sv' = [at |-> "reply", to |-> sv.from, r |-> r]

(* A request whose path is not found has still renewed the slot's id and   *)
(* cleared its page.                                                       *)
serve_open_slot(path) ==
    IF Available = {} THEN Reply(NoSlot) /\ UNCHANGED <<opentab, fdpage>>
    ELSE LET k == Min(Available)
             id == NextId(k)
             ok == ~Negative(id) /\ path # NoPath
         IN  /\ opentab' = [opentab EXCEPT ![k].id = id,
                                           ![k].file = IF ok THEN path ELSE @]
             /\ fdpage' = [fdpage EXCEPT ![k] = [alloc |-> TRUE,
                                                 id |-> IF ok THEN id ELSE 0]]
             /\ Reply(IF ok THEN k ELSE NoSlot)

FoundSlot(id) == pageref(id % MAXOPEN) > 1 /\ opentab[id % MAXOPEN].id = id

(* The handlers that look a file up: the answer is the file they act on.   *)
openfile_lookup(id) ==
    /\ sv' = [at |-> "reply", to |-> sv.from, r |-> NoSlot,
              file |-> IF FoundSlot(id) THEN opentab[id % MAXOPEN].file ELSE NoPath]
    /\ UNCHANGED <<opentab, fdpage>>

serve ==
    /\ sv.at = "serve" /\ cl[sv.from].at \in {"sent", "recv"}
    /\ LET q == cl[sv.from]
       IN  IF q.req = "open" THEN serve_open_slot(q.path) ELSE openfile_lookup(q.id)
    /\ UNCHANGED <<fd, meant, cl, calls>>

(* The answer is delivered once the client receives: the Fd page of an     *)
(* open is mapped at the number chosen, and close unmaps it.               *)
Deliver(c) ==
    LET q == cl[c]
    IN  /\ fd' = [fd EXCEPT ![c][q.fd] = IF q.req = "open" THEN sv.r
                                         ELSE IF q.req = "close" THEN NoSlot ELSE @]
        /\ meant' = [meant EXCEPT ![c][q.fd] =
                        IF q.req = "open" /\ sv.r # NoSlot THEN q.path
                        ELSE IF q.req = "use" THEN @ ELSE NoPath]

reply ==
    /\ sv.at = "reply" /\ cl[sv.to].at = "recv"
    /\ Deliver(sv.to)
    /\ Resumes(sv.to, Idle)
    /\ sv' = Idle
    /\ UNCHANGED <<opentab, fdpage, calls>>

(* ipc_send to a client that is gone is an error other than NOT_RECV: the  *)
(* server panics, whatever it did with the request.                        *)
reply_panic ==
    /\ \/ sv.at = "reply" /\ cl[sv.to].at = "dead"
       \/ sv.at = "serve" /\ cl[sv.from].at = "dead"
    /\ sv' = [at |-> "panic"]
    /\ UNCHANGED <<opentab, fdpage, fd, meant, cl, calls>>

ServeNext ==
    \/ serve \/ reply \/ reply_panic
    \/ \E c \in Client :
          \/ ipc_send(c) \/ ipc_recv(c) \/ client_destroyed(c)
          \/ \E path \in Path \cup {NoPath} : open(c, path)
          \/ \E n \in Fds, b \in BOOLEAN : devfile_call(c, n, b)
          \/ \E m, n \in Fds : client_dup(c, m, n)
          \/ \E d \in Client : client_fork(c, d)

ServeSpec == ServeInit /\ [][ServeNext]_serveVars

----------------------------------------------------------------------------
ServeTypeOK ==
    /\ fd \in [Client -> [Fds -> TabSlots \cup {NoSlot}]]
    /\ meant \in [Client -> [Fds -> Path \cup {NoPath}]]
    /\ sv.at \in {"idle", "serve", "reply", "panic"}
    /\ \A k \in TabSlots : opentab[k].id % MAXOPEN = k

(* Every descriptor a client holds still means, to the server, the file    *)
(* that was opened on it: its page carries the id of its slot, and the     *)
(* slot the file.  No slot is handed out while a client maps its page.     *)
DescriptorHolds ==
    \A c \in Client, n \in Fds : fd[c][n] # NoSlot =>
        /\ fdpage[fd[c][n]].id = opentab[fd[c][n]].id
        /\ opentab[fd[c][n]].file = meant[c][n]

(* A request on an open descriptor acts on the file that was opened, and   *)
(* is never refused.                                                       *)
ServedRight ==
    sv.at = "reply" /\ cl[sv.to].at \in {"sent", "recv"} /\ cl[sv.to].req # "open"
        => sv.file = meant[sv.to][cl[sv.to].fd]

\* A descriptor a client holds names the file it opened, for as long as one
\* copy is mapped, and a request is served for that file (serv.c, lib/file.c).
ServeSound == ServeTypeOK /\ DescriptorHolds /\ ServedRight
=============================================================================
