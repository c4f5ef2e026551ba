------------------------------ MODULE Sthreads ------------------------------
(***************************************************************************)
(* The kernel module that supervises the threads of one process,           *)
(* day4/challenge-problems/src/module/sthreads.c ("challenge"), with the   *)
(* client readindexed --secure, and the character device it grew from,     *)
(* day4/practice-exercises/basic-chardev/module/sthreads.c ("basic"), with *)
(* the client todo.c.                                                      *)
(*                                                                         *)
(* What a process has still to do is a sequence of steps; a system call is *)
(* as many steps as it reads or writes shared variables of the module.     *)
(* Two calls overlap when one begins to open before another open, a        *)
(* release, the loading or the unloading of the module has ended, or the   *)
(* unloading begins before an open or a release has ended; the device is   *)
(* meant to be opened by one process at a time, but nothing enforces that. *)
(* The file operations have no owner, so the kernel takes no reference to  *)
(* the module for a call: only the one that open itself takes, behind its  *)
(* test, keeps the module's code from being freed.                         *)
(***************************************************************************)
EXTENDS Integers, Sequences, FiniteSets

CONSTANTS
    Clients,    \* processes that open the device
    Other,      \* a process that does not
    Keys,       \* values of random()
    Objects,    \* pieces of memory kmalloc can give
    None

ASSUME SthreadsAssumption == Other \notin Clients /\ None \notin Keys \cup Objects

VARIABLES
    driver,         \* "challenge" or "basic"
    loading,        \* steps of init_module to do
    unloading,      \* steps of rmmod to do
    made,           \* what init_module has created
    refs,           \* references to the module
    device_opened, pinfo, probe,   \* the module's variables; the jprobe's state
    heap,           \* the objects and their fields
    code,           \* per process: its steps to do
    key,            \* per process: the key its manager drew last
    last,           \* what the last fork or read came to
    overlapped,     \* history: two calls have overlapped
    misused         \* history: who used pinfo when it was null, free or not filled in,
                    \* or ran code of the module when it had been unloaded

module == <<driver, loading, unloading, made, refs>>
device == <<device_opened, probe>>
vars == <<module, device, pinfo, heap, code, key, last, overlapped, misused>>

Processes == Clients \cup {Other}

\* is_valid_key is key # None; is_valid_callback is callback.
Free == [state |-> "free", pid |-> None, key |-> None, callback |-> FALSE]

Nothing == [proc |-> None, kind |-> "none", diverted |-> FALSE, fields |-> Free]

OpenSteps ==
    IF driver = "challenge" THEN <<"test", "alloc", "fill", "enable", "count", "ref">>
                            ELSE <<"test", "count", "ref", "alloc", "fill">>

ReleaseSteps ==
    IF driver = "challenge" THEN <<"uncount", "unref", "disable", "free">>
                            ELSE <<"uncount", "unref", "free">>

\* main of readindexed: two chunks, a vfork, a thread of a manager that is not
\* secure, and the close in ~chdev_t; main of todo.
ClientSteps ==
    IF driver = "challenge"
    THEN OpenSteps \o <<"regfn", "regkey", "regkey", "secure", "regkey", "secure",
                        "child", "plain">> \o ReleaseSteps
    ELSE OpenSteps \o <<"read", "regkey", "regfn", "read">> \o ReleaseSteps

\* What the kernel does after it has used bad memory is not looked at.
Alive == misused = {}

At(p, step) == Alive /\ code[p] # <<>> /\ Head(code[p]) = step
Go(p) == code' = [code EXCEPT ![p] = Tail(@)]
Leave(p) == code' = [code EXCEPT ![p] = <<>>]

\* In demo_open behind its test, or in demo_release.
InCall(p) ==
    /\ code[p] # <<>>
    /\ Head(code[p]) \in {"alloc", "fill", "enable", "count", "ref", "uncount",
                          "unref", "disable", "free", "gone"}

\* In demo_open in front of its test.
Opening(p) == code[p] # <<>> /\ Head(code[p]) = "test"

\* last is for a look only.
Silent == last' = Nothing

\* Between the two.
InSession(p) ==
    p \in Clients /\ code[p] # <<>> /\ ~InCall(p) /\ ~Opening(p)

-----------------------------------------------------------------------------
(* Loading and unloading.                                                   *)

Load ==
    IF driver = "challenge"
    THEN <<"chrdev", "class", "device", "reset", "jprobe", "disable">>
    ELSE <<"chrdev", "class", "device", "reset">>

\* cleanup_module; then the module's memory is freed.
Remove ==
    IF driver = "challenge"
    THEN <<"device", "class", "chrdev", "jprobe", "memory">>
    ELSE <<"device", "class", "chrdev", "memory">>

Init ==
    /\ driver \in {"challenge", "basic"}
    /\ loading = Load /\ unloading = <<>> /\ made = {} /\ refs = 0
    /\ device_opened = 0 /\ pinfo = None /\ probe = FALSE
    /\ heap = [o \in Objects |-> Free]
    /\ code = [p \in Processes |-> <<>>]
    /\ key = [p \in Clients |-> None]
    /\ last = Nothing
    /\ overlapped = FALSE /\ misused = {}

\* A step of init_module.  register_jprobe may fail, which is ignored.
LoadStep ==
    /\ Alive /\ loading # <<>>
    /\ loading' = Tail(loading)
    /\ \/ Head(loading) \in {"reset", "disable"} /\ UNCHANGED made
       \/ Head(loading) \notin {"reset", "disable"} /\ made' = made \cup {Head(loading)}
       \/ Head(loading) = "jprobe" /\ UNCHANGED made
    /\ device_opened' = IF Head(loading) = "reset" THEN 0 ELSE device_opened
    /\ probe' = IF Head(loading) = "jprobe" THEN "jprobe" \in made'
                ELSE IF Head(loading) = "disable" THEN FALSE ELSE probe
    /\ Silent
    /\ UNCHANGED <<driver, unloading, refs, pinfo, heap, code, key, overlapped, misused>>

\* What was made is undone in reverse order; the module may be loaded again.
LoadFails ==
    /\ Alive /\ loading # <<>>
    /\ Head(loading) \in {"chrdev", "class", "device"}
    /\ loading' = Load /\ made' = {}
    /\ Silent
    /\ UNCHANGED <<driver, unloading, refs, device, pinfo, heap, code, key, overlapped,
                   misused>>

\* rmmod goes ahead if nobody holds a reference to the module.
Rmmod ==
    /\ Alive /\ loading = <<>> /\ unloading = <<>> /\ refs = 0
    /\ unloading' = Remove
    /\ overlapped' = (overlapped \/ \E p \in Clients : Opening(p) \/ InCall(p))
    /\ Silent
    /\ UNCHANGED <<driver, loading, made, refs, device, pinfo, heap, code, key, misused>>

\* A step of cleanup_module.
UnloadStep ==
    /\ Alive /\ unloading # <<>> /\ Head(unloading) # "memory"
    /\ unloading' = Tail(unloading)
    /\ made' = made \ {Head(unloading)}
    /\ probe' = (probe /\ Head(unloading) # "jprobe")
    /\ Silent
    /\ UNCHANGED <<driver, loading, refs, device_opened, pinfo, heap, code, key,
                   overlapped, misused>>

\* Unregistering the probe waits for the callbacks that run; nothing waits for
\* a process that is in the module's code otherwise.
Unloaded ==
    /\ Alive /\ unloading # <<>> /\ Head(unloading) = "memory"
    /\ \A p \in Processes : ~At(p, "callback")
    /\ loading' = Load /\ unloading' = <<>> /\ made' = {} /\ refs' = 0
    /\ device_opened' = 0 /\ pinfo' = None /\ probe' = FALSE
    /\ code' = [p \in Processes |->
                  IF p \in Clients /\ code[p] # <<>> THEN <<"gone">> ELSE code[p]]
    /\ Silent
    /\ UNCHANGED <<driver, heap, key, overlapped, misused>>

\* A process goes on in the code of a module that has been unloaded.
Stray(p) ==
    /\ At(p, "gone")
    /\ misused' = {p}
    /\ Go(p)
    /\ Silent
    /\ UNCHANGED <<module, device, pinfo, heap, key, overlapped>>

-----------------------------------------------------------------------------
(* demo_open and do_open.                                                   *)

\* open finds the device, or the process goes without.
Start(p) ==
    /\ Alive /\ code[p] = <<>> /\ "device" \in made
    /\ code' = [code EXCEPT ![p] = ClientSteps]
    /\ key' = [key EXCEPT ![p] = None]
    /\ overlapped' = (overlapped \/ unloading # <<>>)
    /\ Silent
    /\ UNCHANGED <<module, device, pinfo, heap, misused>>

Test(p) ==
    /\ At(p, "test")
    /\ IF device_opened # 0
       THEN Leave(p) /\ UNCHANGED overlapped
       ELSE /\ Go(p)
            /\ overlapped' = (\/ overlapped
                              \/ loading # <<>>
                              \/ \E q \in Clients \ {p} : InCall(q))
    /\ Silent
    /\ UNCHANGED <<module, device, pinfo, heap, key, misused>>

Allocate(p) ==
    /\ At(p, "alloc")
    /\ \/ \E o \in Objects :
            /\ heap[o].state = "free"
            /\ heap' = [heap EXCEPT ![o] = [Free EXCEPT !.state = "junk"]]
            /\ pinfo' = o
            /\ Go(p)
       \/ pinfo' = None /\ Leave(p) /\ UNCHANGED heap
    /\ Silent
    /\ UNCHANGED <<module, device, key, overlapped, misused>>

Pinfo == IF pinfo = None THEN Free ELSE heap[pinfo]

\* p changes what pinfo points to, which should be in one of these states.
Using(p, change, good) ==
    IF Pinfo.state \in good
    THEN heap' = [heap EXCEPT ![pinfo] = change] /\ UNCHANGED misused
    ELSE misused' = {p} /\ UNCHANGED heap

Fill(p) ==
    /\ At(p, "fill")
    /\ Using(p, [state |-> "set", pid |-> p, key |-> None, callback |-> FALSE],
             {"junk", "set"})
    /\ Go(p)
    /\ Silent
    /\ UNCHANGED <<module, device, pinfo, key, overlapped>>

\* enable_jprobe fails, unnoticed, if the probe is not registered.
Enable(p) ==
    /\ At(p, "enable")
    /\ probe' = ("jprobe" \in made)
    /\ Go(p)
    /\ Silent
    /\ UNCHANGED <<module, device_opened, pinfo, heap, key, overlapped, misused>>

Count(p) ==
    /\ At(p, "count")
    /\ device_opened' = device_opened + 1
    /\ Go(p)
    /\ Silent
    /\ UNCHANGED <<module, probe, pinfo, heap, key, overlapped, misused>>

\* Slip: no reference.
RefNot(p) ==
    /\ At(p, "ref")
    /\ Go(p)
    /\ Silent
    /\ UNCHANGED <<module, device, pinfo, heap, key, overlapped, misused>>

\* try_module_get fails, unnoticed, once rmmod has begun.
Ref(p) ==
    /\ At(p, "ref")
    /\ refs' = IF unloading = <<>> THEN refs + 1 ELSE refs
    /\ Go(p)
    /\ Silent
    /\ UNCHANGED <<driver, loading, unloading, made, device, pinfo, heap, key, overlapped,
                   misused>>

(* demo_release and do_release.                                             *)

Uncount(p) ==
    /\ At(p, "uncount")
    /\ device_opened' = device_opened - 1
    /\ Go(p)
    /\ Silent
    /\ UNCHANGED <<module, probe, pinfo, heap, key, overlapped, misused>>

\* module_put does not go below zero.
Unref(p) ==
    /\ At(p, "unref")
    /\ refs' = IF refs > 0 THEN refs - 1 ELSE 0
    /\ Go(p)
    /\ Silent
    /\ UNCHANGED <<driver, loading, unloading, made, device, pinfo, heap, key, overlapped,
                   misused>>

\* Slip: the probe stays.
DisableNot(p) ==
    /\ At(p, "disable")
    /\ Go(p)
    /\ Silent
    /\ UNCHANGED <<module, device, pinfo, heap, key, overlapped, misused>>

Disable(p) ==
    /\ At(p, "disable")
    /\ probe' = FALSE
    /\ Go(p)
    /\ Silent
    /\ UNCHANGED <<module, device_opened, pinfo, heap, key, overlapped, misused>>

\* kfree takes a null pointer; pinfo keeps its value.
FreePinfo(p) ==
    /\ At(p, "free")
    /\ IF pinfo = None THEN UNCHANGED <<heap, misused>>
       ELSE Using(p, Free, {"junk", "set"})
    /\ Go(p)
    /\ Silent
    /\ UNCHANGED <<module, device, pinfo, key, overlapped>>

-----------------------------------------------------------------------------
(* Commands and reads.                                                      *)

\* The challenge answers the process that opened it only.  The client asserts
\* that the answer is good; if not it is ended and its file closed.
Command(p, change) ==
    IF driver = "challenge" /\ Pinfo.state = "set" /\ Pinfo.pid # p
    THEN code' = [code EXCEPT ![p] = ReleaseSteps] /\ UNCHANGED <<heap, misused>>
    ELSE Using(p, change, {"set"}) /\ Go(p)

\* launch draws a new key for every thread.
RegisterKey(p) ==
    /\ At(p, "regkey")
    /\ \E k \in Keys :
          /\ key' = [key EXCEPT ![p] = k]
          /\ Command(p, [Pinfo EXCEPT !.key = k])
    /\ Silent
    /\ UNCHANGED <<module, device, pinfo, overlapped>>

RegisterErrorFunction(p) ==
    /\ At(p, "regfn")
    /\ Command(p, [Pinfo EXCEPT !.callback = TRUE])
    /\ Silent
    /\ UNCHANGED <<module, device, pinfo, key, overlapped>>

\* do_read; demo_read has none.
Read(p) ==
    /\ At(p, "read")
    /\ Using(p, Pinfo, {"set"})
    /\ last' = [proc |-> p, kind |-> "read", diverted |-> FALSE, fields |-> Pinfo]
    /\ Go(p)
    /\ UNCHANGED <<module, device, pinfo, key, overlapped>>

-----------------------------------------------------------------------------
(* Forks and the probe on wake_up_new_task.                                 *)

\* Any other process forks as it likes.
OtherForks ==
    /\ Alive /\ code[Other] = <<>>
    /\ \E kind \in {"child", "plain"} : code' = [code EXCEPT ![Other] = <<kind>>]
    /\ Silent
    /\ UNCHANGED <<module, device, pinfo, heap, key, overlapped, misused>>

Forked(p, kind, diverted) ==
    last' = [proc |-> p, kind |-> kind, diverted |-> diverted, fields |-> Free]

\* The probe is hit if it is enabled.
Fork(p, kind) ==
    /\ At(p, kind)
    /\ IF probe
       THEN /\ code' = [code EXCEPT ![p] = <<"callback", kind>> \o Tail(@)]
            /\ last' = Nothing
       ELSE Go(p) /\ Forked(p, kind, FALSE)
    /\ UNCHANGED <<module, device, pinfo, heap, key, overlapped, misused>>

\* The page of a secure thread's stack that the callback looks at holds the
\* key its manager drew; that of another thread does not.
KeyFound(p, kind) == kind = "secure" /\ key[p] = heap[pinfo].key

\* Slip: every thread of the client is a stranger.
DivertsAny(p, kind) ==
    /\ heap[pinfo].pid = p
    /\ heap[pinfo].callback

Diverts(p, kind) ==
    /\ heap[pinfo].pid = p
    /\ heap[pinfo].callback
    /\ kind # "child" => heap[pinfo].key # None /\ ~KeyFound(p, kind)

\* fork_callback, entered when the probe was on.
Callback(p) ==
    /\ At(p, "callback")
    /\ Using(p, Pinfo, {"set"})
    /\ LET kind == Head(Tail(code[p]))
       IN  IF Pinfo.state = "set" THEN Forked(p, kind, Diverts(p, kind))
                                  ELSE Silent
    /\ code' = [code EXCEPT ![p] = Tail(Tail(@))]
    /\ UNCHANGED <<module, device, pinfo, key, overlapped>>

-----------------------------------------------------------------------------

Open(p) == Test(p) \/ Allocate(p) \/ Fill(p) \/ Enable(p) \/ Count(p) \/ Ref(p)
Release(p) == Uncount(p) \/ Unref(p) \/ Disable(p) \/ FreePinfo(p)
Use(p) == RegisterKey(p) \/ RegisterErrorFunction(p) \/ Read(p)

Next ==
    \/ LoadStep \/ LoadFails \/ Rmmod \/ UnloadStep \/ Unloaded \/ OtherForks
    \/ \E p \in Clients : Start(p) \/ Open(p) \/ Release(p) \/ Use(p) \/ Stray(p)
    \/ \E p \in Processes :
          Callback(p) \/ \E kind \in {"secure", "plain", "child"} : Fork(p, kind)
    \/ ~Alive /\ UNCHANGED vars

Spec == Init /\ [][Next]_vars

-----------------------------------------------------------------------------

\* Unless calls overlap, a session has the device to itself: pinfo names it,
\* the probe is on, the device is counted once, and the one reference that open
\* has taken keeps rmmod from it; and when nobody uses the module it is as it
\* was, ready to be opened or unloaded, whatever failed before.  (An open of
\* the basic driver without memory leaves it busy for good, sthreads.c:29-35.)
SessionIsWhole ==
    ~overlapped =>
        /\ \A p \in Clients : InSession(p) =>
              /\ Pinfo.state = "set" /\ Pinfo.pid = p
              /\ device_opened = 1 /\ refs = 1 /\ unloading = <<>>
              /\ driver = "challenge" => probe = ("jprobe" \in made)
        /\ (loading = <<>> /\ \A p \in Clients : code[p] = <<>>) =>
              /\ ~probe /\ refs = device_opened
              /\ \/ device_opened = 0
                 \/ driver = "basic" /\ device_opened = 1 /\ pinfo = None

\* Unless calls overlap, the module's code is not run when it has been unloaded,
\* and pinfo is never used when it is null, free or not yet filled in, with one
\* exception: the callback of a process that is not supervised, which hit the
\* probe before it was disabled, by a release (sthreads.c:92-93) or by the
\* loading itself (sthreads.c:186-189).  While the probe is on, pinfo is good.
PinfoIsGood ==
    ~overlapped =>
        /\ misused \subseteq {Other}
        /\ misused # {} => ~probe \/ loading # <<>>

\* Unless calls overlap, the threads that the secure manager launches run and
\* everything else the client starts is sent to the error function, though
\* there is one key for all threads; nobody else is disturbed.  todo reads what
\* it wrote.
ClientIsServed ==
    (~overlapped /\ last.proc # None) =>
        CASE last.kind = "read" ->
                 /\ last.fields.pid = last.proc
                 /\ last.fields.callback => last.fields.key = key[last.proc]
          [] last.kind # "read" /\ "jprobe" \in made ->
                 last.diverted <=> last.proc # Other /\ last.kind # "secure"
          [] OTHER -> ~last.diverted

=============================================================================
