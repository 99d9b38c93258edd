-------------------------------- MODULE Mysh --------------------------------
(***************************************************************************)
(* The shell mysh: main() reads and parses a line (ParsePipeline), then    *)
(* run_pipeline() runs it (mysh.c), over the file descriptors, the file    *)
(* table and the pipes of the kernel (sysfile.c, file.c, pipe.c).  A       *)
(* system call that returns is one step; read(), write() and wait() are    *)
(* enabled when they need not sleep (Pipe and Proc model the sleeping).    *)
(*                                                                         *)
(* Process 0 is the shell, process c runs the c-th command.  The pipe      *)
(* between commands c and c + 1 is pipe c.                                 *)
(***************************************************************************)
EXTENDS ParsePipeline

CONSTANTS
    NOFILE,    \* file descriptors of a process
    PIPESIZE,
    MaxOut     \* bytes the first command writes, at most

ASSUME MyshAssumption ==
    NOFILE \in Nat /\ NOFILE >= 4 /\ PIPESIZE \in Nat \ {0} /\ MaxOut \in Nat

NCMD == MAX_COMMANDS
Cmd == 1 .. NCMD
Proc == 0 .. NCMD
Fd == 0 .. NOFILE - 1

\* An open file: the console, or an end of a pipe.
File == {<<0, "console">>} \cup (1 .. NCMD - 1) \X {"r", "w"}
Console == <<0, "console">>
R(k) == <<k, "r">>
W(k) == <<k, "w">>
NoFile == <<-1, "none">>
NoFd == -1

VARIABLES
    ofile,      \* ofile[p][fd]
    ref,        \* ref[f]: the reference count of file f
    len,        \* len[k]: bytes in pipe k
    ncmd, i, previous_read, pipefd, children,  \* run_pipeline()'s locals
    inherited,  \* inherited[c]: previous_read and pipefd as child c has them
    pc,         \* pc[p]
    left        \* bytes the first command may still write

kernel == <<ofile, ref, len>>
shell == <<ncmd, i, previous_read, pipefd, children, inherited>>
vars == <<parseVars, kernel, shell, pc, left>>

Std == [fd \in Fd |-> IF fd <= 2 THEN Console ELSE NoFile]
Closed == [fd \in Fd |-> NoFile]

Locals == [previous_read |-> previous_read, pipefd |-> pipefd]
NoPipefd == [e \in {0, 1} |-> NoFd]
NoLocals == [previous_read |-> NoFd, pipefd |-> NoPipefd]

Init ==
    /\ input = << >> /\ line = <<NUL>> /\ pos = 1 /\ cmds = << << >> >> /\ result = 0
    /\ ofile = [p \in Proc |-> IF p = 0 THEN Std ELSE Closed]
    /\ ref = [f \in File |-> IF f = Console THEN 3 ELSE 0]
    /\ len = [k \in 1 .. NCMD - 1 |-> 0]
    /\ ncmd = 1 /\ i = 1 /\ children = 0
    /\ previous_read = NoFd /\ pipefd = NoPipefd
    /\ inherited = [c \in Cmd |-> NoLocals]
    /\ pc = [p \in Proc |-> IF p = 0 THEN "prompt" ELSE "none"]
    /\ left = 0
-----------------------------------------------------------------------------
Goto(p, label) == pc' = [pc EXCEPT ![p] = label]
Readopen(k) == ref[R(k)] > 0
Writeopen(k) == ref[W(k)] > 0

FreeFds(p) == {fd \in Fd : ofile[p][fd] = NoFile}

\* close(): sys_close() and fileclose().  An argument that is not open is
\* refused by argfd().
Close(p, fd) ==
    IF fd = NoFd \/ ofile[p][fd] = NoFile
    THEN UNCHANGED <<ofile, ref>>
    ELSE /\ ofile' = [ofile EXCEPT ![p][fd] = NoFile]
         /\ ref' = [ref EXCEPT ![ofile[p][fd]] = @ - 1]

\* dup(): fdalloc() takes the lowest free descriptor.
Dup(p, fd) ==
    /\ ofile' = [ofile EXCEPT ![p][Min(FreeFds(p))] = ofile[p][fd]]
    /\ ref' = [ref EXCEPT ![ofile[p][fd]] = @ + 1]

\* The references process p holds to f.
Held(p, f) == Cardinality({fd \in Fd : ofile[p][fd] = f})

\* exit() closes every file.
Exit(p) ==
    /\ ofile' = [ofile EXCEPT ![p] = Closed]
    /\ ref' = [f \in File |-> ref[f] - Held(p, f)]
    /\ Goto(p, "zombie")
-----------------------------------------------------------------------------
\* main(): a line is read, or there is none left to read, ...
Gets(l) ==
    /\ pc[0] = "prompt"
    /\ Parse(l)
    /\ Goto(0, "parse")
    /\ UNCHANGED <<kernel, shell, left>>

GetsEof ==
    /\ pc[0] = "prompt"
    /\ Goto(0, "gone")
    /\ UNCHANGED <<parseVars, kernel, shell, left>>

Parsed == pc[0] = "parse" /\ result # Parsing

\* The buffer is not looked at again, but by exec(), which may fail or not.
Forget ==
    /\ input' = << >> /\ line' = <<NUL>> /\ pos' = 1 /\ cmds' = << << >> >> /\ result' = 0

\* ... parsed, and rejected or empty, ...
Reject ==
    /\ Parsed /\ result <= 0
    /\ Forget
    /\ Goto(0, "prompt")
    /\ UNCHANGED <<kernel, shell, left>>

\* ... the word "exit", ...
Builtin ==
    /\ Parsed /\ result = 1
    /\ Forget
    /\ Goto(0, "gone")
    /\ UNCHANGED <<kernel, shell, left>>

\* ... or a pipeline: run_pipeline() starts.
Prompt ==
    /\ Parsed /\ result > 0
    /\ ncmd' = result /\ i' = 1 /\ children' = 0
    /\ previous_read' = NoFd
    /\ left' = MaxOut
    /\ Goto(0, IF result > 1 THEN "pipe" ELSE "fork")
    /\ Forget
    /\ UNCHANGED <<kernel, pipefd, inherited>>

\* pipe(): pipealloc() and two fdalloc()s.
Pipe ==
    /\ pc[0] = "pipe"
    /\ Cardinality(FreeFds(0)) >= 2
    /\ LET fd0 == Min(FreeFds(0))
           fd1 == Min(FreeFds(0) \ {fd0})
       IN  /\ ofile' = [ofile EXCEPT ![0][fd0] = R(i), ![0][fd1] = W(i)]
           /\ pipefd' = [pipefd EXCEPT ![0] = fd0, ![1] = fd1]
    /\ ref' = [ref EXCEPT ![R(i)] = 1, ![W(i)] = 1]
    /\ len' = [len EXCEPT ![i] = 0]
    /\ Goto(0, "fork")
    /\ UNCHANGED <<ncmd, i, previous_read, children, inherited, left>>

\* pipe() fails: no free file, page or descriptor.  What it took it gives back.
PipeFails ==
    /\ pc[0] = "pipe"
    /\ Goto(0, "failpipe")
    /\ UNCHANGED <<kernel, shell, left>>

FailPipe ==
    /\ pc[0] = "failpipe"
    /\ Close(0, previous_read)
    /\ Goto(0, "wait")
    /\ UNCHANGED <<len, shell, left>>

\* fork() duplicates every descriptor.
Fork ==
    /\ pc[0] = "fork"
    /\ ofile' = [ofile EXCEPT ![i] = ofile[0]]
    /\ ref' = [f \in File |-> ref[f] + Held(0, f)]
    /\ inherited' = [inherited EXCEPT ![i] = Locals]
    /\ children' = children + 1
    /\ pc' = [pc EXCEPT ![0] = "closeprev",
                        ![i] = IF i > 1 THEN "close0" ELSE IF i < ncmd THEN "close1" ELSE "exec"]
    /\ UNCHANGED <<len, ncmd, i, previous_read, pipefd, left>>

\* fork() fails: what was opened for this command is closed.
ForkFails ==
    /\ pc[0] = "fork"
    /\ Goto(0, "failprev")
    /\ UNCHANGED <<kernel, shell, left>>

FailPrev ==
    /\ pc[0] = "failprev"
    /\ Close(0, previous_read)
    /\ Goto(0, IF i < ncmd THEN "fail0" ELSE "wait")
    /\ UNCHANGED <<len, shell, left>>

Fail0 ==
    /\ pc[0] = "fail0"
    /\ Close(0, pipefd[0])
    /\ Goto(0, "fail1")
    /\ UNCHANGED <<len, shell, left>>

Fail1 ==
    /\ pc[0] = "fail1"
    /\ Close(0, pipefd[1])
    /\ Goto(0, "wait")
    /\ UNCHANGED <<len, shell, left>>

\* The parent: close(previous_read); the last command ends the loop.
ClosePrev ==
    /\ pc[0] = "closeprev"
    /\ Close(0, previous_read)
    /\ Goto(0, IF i < ncmd THEN "closew" ELSE "wait")
    /\ UNCHANGED <<len, shell, left>>

\* close(pipefd[1]), and on to the next command.
CloseWrite ==
    /\ pc[0] = "closew"
    /\ Close(0, pipefd[1])
    /\ previous_read' = pipefd[0]
    /\ i' = i + 1
    /\ Goto(0, IF i + 1 < ncmd THEN "pipe" ELSE "fork")
    /\ UNCHANGED <<len, ncmd, pipefd, children, inherited, left>>

\* wait() reaps a child; when all are reaped run_pipeline() returns
\* and its locals are gone.
Wait(c) ==
    /\ pc[0] = "wait"
    /\ pc[c] = "zombie"
    /\ children' = children - 1
    /\ pc' = [pc EXCEPT ![c] = "none"]
    /\ UNCHANGED <<kernel, ncmd, i, previous_read, pipefd, inherited, left>>

Return ==
    /\ pc[0] = "wait"
    /\ children = 0
    /\ ncmd' = 1 /\ i' = 1 /\ previous_read' = NoFd /\ pipefd' = NoPipefd
    /\ inherited' = [c \in Cmd |-> NoLocals]
    /\ left' = 0
    /\ Goto(0, "prompt")
    /\ UNCHANGED <<kernel, children>>
-----------------------------------------------------------------------------
\* close(0), dup(previous_read)
Close0(c) ==
    /\ pc[c] = "close0"
    /\ Close(c, 0)
    /\ Goto(c, "dup0")
    /\ UNCHANGED <<len, shell, left>>

Dup0(c) ==
    /\ pc[c] = "dup0"
    /\ Dup(c, inherited[c].previous_read)
    /\ Goto(c, IF c < ncmd THEN "close1" ELSE "closeprev")
    /\ UNCHANGED <<len, shell, left>>

\* close(1), dup(pipefd[1])
Close1(c) ==
    /\ pc[c] = "close1"
    /\ Close(c, 1)
    /\ Goto(c, "dup1")
    /\ UNCHANGED <<len, shell, left>>

Dup1(c) ==
    /\ pc[c] = "dup1"
    /\ Dup(c, inherited[c].pipefd[1])
    /\ Goto(c, IF c > 1 THEN "closeprev" ELSE "closer")
    /\ UNCHANGED <<len, shell, left>>

ChildClosePrev(c) ==
    /\ pc[c] = "closeprev"
    /\ Close(c, inherited[c].previous_read)
    /\ Goto(c, IF c < ncmd THEN "closer" ELSE "exec")
    /\ UNCHANGED <<len, shell, left>>

ChildCloseRead(c) ==
    /\ pc[c] = "closer"
    /\ Close(c, inherited[c].pipefd[0])
    /\ Goto(c, "closew")
    /\ UNCHANGED <<len, shell, left>>

\* Mutant: the child keeps the descriptor it has duplicated.
ChildCloseWriteSkip(c) ==
    /\ pc[c] = "closew"
    /\ Goto(c, "exec")
    /\ UNCHANGED <<kernel, shell, left>>

ChildCloseWrite(c) ==
    /\ pc[c] = "closew"
    /\ Close(c, inherited[c].pipefd[1])
    /\ Goto(c, "exec")
    /\ UNCHANGED <<len, shell, left>>

\* exec() keeps the descriptors; if it fails, the child exits.
Exec(c) ==
    /\ pc[c] = "exec"
    /\ Goto(c, "run")
    /\ UNCHANGED <<kernel, shell, left>>

ExecFails(c) ==
    /\ pc[c] = "exec"
    /\ Exit(c)
    /\ UNCHANGED <<len, shell, left>>
-----------------------------------------------------------------------------
\* A command copies its input to its output and exits at the end of the input,
\* when its output fails, or earlier.  The first has MaxOut bytes to write.
Input(c) == ofile[c][0]
Output(c) == ofile[c][1]

\* write() sleeps while the pipe is full and has a reader, and fails when it is
\* full and has none.
PipeFull(c) == Output(c) # Console /\ len[Output(c)[1]] = PIPESIZE

\* Mutant: a writer waits for space, reader or not.
WriteFailsNever(c) == FALSE

WriteFails(c) == PipeFull(c) /\ ~Readopen(Output(c)[1])

\* One byte from input to output, a read() and a write().
Copy(c) ==
    /\ pc[c] = "run"
    /\ ~PipeFull(c)
    /\ IF Input(c) = Console
       THEN left > 0 /\ left' = left - 1
       ELSE len[Input(c)[1]] > 0 /\ UNCHANGED left
    /\ len' = [k \in 1 .. NCMD - 1 |->
                  len[k] - (IF Input(c) = R(k) THEN 1 ELSE 0)
                         + (IF Output(c) = W(k) THEN 1 ELSE 0)]
    /\ UNCHANGED <<ofile, ref, shell, pc>>

\* read() returns 0, or write() returns -1.
Finish(c) ==
    /\ pc[c] = "run"
    /\ \/ WriteFails(c)
       \/ IF Input(c) = Console
          THEN left = 0
          ELSE len[Input(c)[1]] = 0 /\ ~Writeopen(Input(c)[1])
    /\ Exit(c)
    /\ UNCHANGED <<len, shell, left>>

\* The command exits before the end of its input.
Quit(c) ==
    /\ pc[c] = "run"
    /\ Exit(c)
    /\ UNCHANGED <<len, shell, left>>
-----------------------------------------------------------------------------
Shell ==
    \/ Pipe \/ PipeFails \/ FailPipe \/ Fork \/ ForkFails \/ FailPrev \/ Fail0 \/ Fail1
    \/ ClosePrev \/ CloseWrite \/ Return \/ \E c \in Cmd : Wait(c)

Main ==
    \/ Shell /\ UNCHANGED parseVars
    \/ pc[0] = "parse" /\ ParseStep /\ UNCHANGED <<kernel, shell, pc, left>>
    \/ Reject \/ Builtin \/ Prompt

Child(c) ==
    /\ \/ Close0(c) \/ Dup0(c) \/ Close1(c) \/ Dup1(c)
       \/ ChildClosePrev(c) \/ ChildCloseRead(c) \/ ChildCloseWrite(c)
       \/ Exec(c) \/ ExecFails(c) \/ Copy(c) \/ Finish(c)
    /\ UNCHANGED parseVars

Next ==
    \/ Main
    \/ \E l \in Lines : Gets(l)
    \/ GetsEof
    \/ \E c \in Cmd : Child(c) \/ (Quit(c) /\ UNCHANGED parseVars)

Spec == Init /\ [][Next]_vars

\* Every process is scheduled.
FairSpec == Spec /\ WF_vars(Main) /\ \A c \in Cmd : WF_vars(Child(c))
-----------------------------------------------------------------------------
\* Every command runs with exactly the descriptors its place in the pipeline
\* calls for: a further copy of a write end would keep a reader from its end of
\* file, a further copy of a read end a writer from its error.
Connected ==
    \A c \in Cmd :
        pc[c] = "run" =>
            ofile[c] = [Std EXCEPT ![0] = IF c > 1 THEN R(c - 1) ELSE Console,
                                   ![1] = IF c < ncmd THEN W(c) ELSE Console]

\* Every line typed leads back to the prompt, or out of the shell: every pipeline
\* ends, whatever fails and whoever exits early.
PipelineEnds == pc[0] # "prompt" ~> pc[0] \in {"prompt", "gone"}
=============================================================================
