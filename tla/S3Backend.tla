------------------------------ MODULE S3Backend ------------------------------
(***************************************************************************)
(* Terraform/AWS/s3_backend: users run the example, each from a clone of   *)
(* its own, and share one bucket with the terraform.tfstate of all of      *)
(* them.  The backend has no lock: terraform reads the state, makes or     *)
(* destroys the instance, and writes the state back.  Ctrl+C lets terraform *)
(* finish what it is doing, a second one makes it quit at once; then       *)
(* tearDown runs, from its first command.  Commands that fail are ignored. *)
(* printDNS copies the state into the clone, and removes the copy: when it *)
(* is interrupted the copy stays, and the next terraform init offers to    *)
(* put it in the place of the state in the bucket.                         *)
(***************************************************************************)
EXTENDS Naturals, Sequences, FiniteSets

CONSTANTS
    Users,
    MaxSessions,     \* bound: times the script is run
    MaxAwsFaults,    \* bound: calls to AWS that fail
    MaxPresses       \* bound: times Ctrl+C is pressed

ASSUME S3Assumption ==
    IsFiniteSet(Users) /\ {MaxSessions, MaxAwsFaults, MaxPresses} \subseteq Nat

VARIABLES
    bucket,     \* 1 when the bucket exists
    tfstate,    \* the instances listed in its terraform.tfstate
    instances,  \* the EC2 instances that run
    command,    \* the command of run_all.sh each user is at
    inited,     \* 1 when the clone has a .terraform directory
    terraform,  \* how far the terraform at work is
    memory,     \* the instances it knows of
    copy,       \* the instances listed in the clone's own terraform.tfstate
    pressed,    \* Ctrl+C since the command began
    sessions, overlaps, awsFaults, aborts, presses,  \* counted so far
    stale       \* copies that were put in the place of a newer state

s3Charges == <<sessions, overlaps, awsFaults, aborts, presses, stale>>
s3Vars    == <<bucket, tfstate, instances, command, inited, terraform, memory,
               pressed, copy, s3Charges>>

S3TypeOK ==
    /\ bucket \in {0, 1}
    /\ instances \cup tfstate \subseteq 1..sessions
    /\ command \in [Users -> {"off", "mb", "init", "apply", "dns", "alive", "destroy", "rb"}]
    /\ inited \in [Users -> {0, 1}]
    /\ terraform \in [Users -> {"off", "read", "changed"}]
    /\ memory \in [Users -> SUBSET (1..sessions)]
    /\ copy \in [Users -> SUBSET (1..sessions)]
    /\ pressed \in [Users -> {0, 1}]
    /\ sessions \in 0..MaxSessions /\ overlaps \in 0..MaxSessions
    /\ awsFaults \in 0..MaxAwsFaults
    /\ presses \in 0..MaxPresses /\ aborts \in 0..MaxPresses
    /\ stale \in 0..MaxSessions

S3Init ==
    /\ bucket = 0 /\ tfstate = {} /\ instances = {}
    /\ command = [u \in Users |-> "off"]
    /\ inited = [u \in Users |-> 0]
    /\ terraform = [u \in Users |-> "off"]
    /\ memory = [u \in Users |-> {}]
    /\ pressed = [u \in Users |-> 0]
    /\ copy = [u \in Users |-> {}]
    /\ sessions = 0 /\ overlaps = 0 /\ awsFaults = 0 /\ aborts = 0 /\ presses = 0
    /\ stale = 0

-----------------------------------------------------------------------------
Main == <<"mb", "init", "apply", "dns", "alive">>

(* Mutant: the bucket is removed before the instance is destroyed.         *)
TearDownBucketFirst == <<"rb", "destroy">>

TearDown == <<"destroy", "rb">>

After(c) ==
    LET all == Main \o TearDown
        i   == CHOOSE k \in DOMAIN all : all[k] = c
    IN  IF i = Len(all) THEN "off" ELSE all[i + 1]

(* The command of u ends.  A Ctrl+C that came meanwhile starts tearDown,   *)
(* also from within tearDown; its last command is rm -rf .terraform.       *)
EndCommand(u) ==
    LET next == IF pressed[u] = 1 THEN Head(TearDown) ELSE After(command[u])
    IN  /\ command' = [command EXCEPT ![u] = next]
        /\ inited' = IF next = "off" THEN [inited EXCEPT ![u] = 0] ELSE inited
        /\ pressed' = [pressed EXCEPT ![u] = 0]
        /\ terraform' = [terraform EXCEPT ![u] = "off"]
        /\ memory' = [memory EXCEPT ![u] = {}]

RunExample(u) ==
    /\ command[u] = "off" /\ sessions < MaxSessions
    /\ command' = [command EXCEPT ![u] = "mb"]
    /\ sessions' = sessions + 1
    /\ overlaps' = IF \E v \in Users : command[v] # "off" THEN overlaps + 1 ELSE overlaps
    /\ UNCHANGED <<bucket, tfstate, instances, inited, terraform, memory, pressed,
                   copy, awsFaults, aborts, presses, stale>>

Interrupted(u) == pressed[u] = 1

(* aws s3 mb, refused when the bucket is there.                            *)
MakeBucket(u) ==
    /\ command[u] = "mb"
    /\ \/ bucket' = 1
       \/ Interrupted(u) /\ UNCHANGED bucket
    /\ EndCommand(u)
    /\ UNCHANGED <<tfstate, instances, copy, s3Charges>>

(* terraform init, which needs the bucket.  It asks whether to put a copy  *)
(* that it finds in the place of the state, and empties it either way.     *)
InitDone(u) ==
    /\ command[u] = "init" /\ bucket = 1
    /\ command' = [command EXCEPT ![u] = IF Interrupted(u) THEN Head(TearDown)
                                         ELSE After("init")]
    /\ inited' = [inited EXCEPT ![u] = 1]
    /\ pressed' = [pressed EXCEPT ![u] = 0]
    /\ copy' = [copy EXCEPT ![u] = {}]
    /\ \/ UNCHANGED <<tfstate, stale>>
       \/ /\ copy[u] # {}
          /\ tfstate' = copy[u]
          /\ stale' = IF tfstate \subseteq copy[u] THEN stale ELSE stale + 1
    /\ UNCHANGED <<bucket, instances, terraform, memory, sessions, overlaps,
                   awsFaults, aborts, presses>>

InitNotDone(u) ==
    /\ command[u] = "init" /\ (bucket = 0 \/ Interrupted(u))
    /\ EndCommand(u)
    /\ UNCHANGED <<bucket, tfstate, instances, copy, s3Charges>>

(* printDNS: the state is copied, read, and the copy removed.              *)
PrintDNS(u) ==
    /\ command[u] = "dns"
    /\ \/ copy' = [copy EXCEPT ![u] = {}]
       \/ /\ Interrupted(u)
          /\ copy' = [copy EXCEPT ![u] = IF bucket = 1 THEN tfstate ELSE @]
    /\ EndCommand(u)
    /\ UNCHANGED <<bucket, tfstate, instances, s3Charges>>

(* rb --force removes the state, and then the bucket.                      *)
RemoveBucket(u) ==
    /\ command[u] = "rb"
    /\ \/ bucket' = 0 /\ tfstate' = {}
       \/ Interrupted(u) /\ UNCHANGED bucket /\ tfstate' \in {tfstate, {}}
    /\ EndCommand(u)
    /\ UNCHANGED <<instances, copy, s3Charges>>

-----------------------------------------------------------------------------
(* terraform apply, terraform destroy.                                     *)
AtTerraform(u) == command[u] \in {"apply", "destroy"}

(* The state is read, and refreshed: what is gone is forgotten.            *)
ReadState(u) ==
    /\ AtTerraform(u) /\ terraform[u] = "off"
    /\ bucket = 1 /\ inited[u] = 1
    /\ terraform' = [terraform EXCEPT ![u] = "read"]
    /\ memory' = [memory EXCEPT ![u] = tfstate \cap instances]
    /\ UNCHANGED <<bucket, tfstate, instances, command, inited, pressed, copy,
                   s3Charges>>

(* "Backend initialization required", or no bucket to read from.           *)
CannotRead(u) ==
    /\ AtTerraform(u) /\ terraform[u] = "off"
    /\ bucket = 0 \/ inited[u] = 0
    /\ EndCommand(u)
    /\ UNCHANGED <<bucket, tfstate, instances, copy, s3Charges>>

(* The instances that the state, or a terraform at work, knows of.         *)
Known == tfstate \cup UNION {memory[u] : u \in Users}

Numbered == Known \cup instances \cup UNION {copy[u] : u \in Users}

(* The one aws_instance of the configuration, under a number of its own.   *)
MakeInstance(u) ==
    /\ command[u] = "apply" /\ terraform[u] = "read"
    /\ memory[u] = {} /\ pressed[u] = 0
    /\ \E i \in 1..sessions \ Numbered :
          /\ 1..(i - 1) \subseteq Numbered
          /\ instances' = instances \cup {i}
          /\ memory' = [memory EXCEPT ![u] = {i}]
    /\ terraform' = [terraform EXCEPT ![u] = "changed"]
    /\ UNCHANGED <<bucket, tfstate, command, inited, pressed, copy, s3Charges>>

DestroyInstance(u) ==
    /\ command[u] = "destroy" /\ terraform[u] = "read"
    /\ memory[u] # {} /\ pressed[u] = 0
    /\ instances' = instances \ memory[u]
    /\ memory' = [memory EXCEPT ![u] = {}]
    /\ terraform' = [terraform EXCEPT ![u] = "changed"]
    /\ UNCHANGED <<bucket, tfstate, command, inited, pressed, copy,
                   s3Charges>>

ToDo(u) == (command[u] = "apply") = (memory[u] = {})

(* Nothing to do, or interrupted before it: the state stays as it is.      *)
NothingDone(u) ==
    /\ terraform[u] = "read"
    /\ pressed[u] = 1 \/ ~ToDo(u)
    /\ EndCommand(u)
    /\ UNCHANGED <<bucket, tfstate, instances, copy, s3Charges>>

(* AWS refuses to make or to remove the bucket or the instance; rb --force *)
(* may have removed the state by then.                                     *)
AwsFault(u) ==
    /\ awsFaults < MaxAwsFaults
    /\ \/ command[u] \in {"mb", "rb"}
       \/ terraform[u] = "read" /\ ToDo(u)
    /\ awsFaults' = awsFaults + 1
    /\ \/ UNCHANGED tfstate
       \/ command[u] = "rb" /\ tfstate' = {}
    /\ EndCommand(u)
    /\ UNCHANGED <<bucket, instances, copy, sessions, overlaps, aborts, presses, stale>>

(* What terraform knows replaces whatever the state is by now; without a   *)
(* bucket it ends in errored.tfstate, which the script never reads.        *)
WriteState(u) ==
    /\ terraform[u] = "changed"
    /\ tfstate' = IF bucket = 1 THEN memory[u] ELSE tfstate
    /\ EndCommand(u)
    /\ UNCHANGED <<bucket, instances, copy, s3Charges>>

-----------------------------------------------------------------------------
(* Ctrl+C: keepAlive ends at once, other commands when they are done.      *)
Press(u) ==
    /\ command[u] # "off" /\ pressed[u] = 0 /\ presses < MaxPresses
    /\ presses' = presses + 1
    /\ IF command[u] = "alive"
       THEN /\ command' = [command EXCEPT ![u] = Head(TearDown)]
            /\ UNCHANGED pressed
       ELSE /\ pressed' = [pressed EXCEPT ![u] = 1]
            /\ UNCHANGED command
    /\ UNCHANGED <<bucket, tfstate, instances, inited, terraform, memory, copy,
                   sessions, overlaps, awsFaults, aborts, stale>>

(* "Two interrupts received. Exiting immediately": nothing is written.     *)
PressAgain(u) ==
    /\ terraform[u] # "off" /\ pressed[u] = 1 /\ presses < MaxPresses
    /\ presses' = presses + 1
    /\ aborts' = aborts + 1
    /\ EndCommand(u)
    /\ UNCHANGED <<bucket, tfstate, instances, copy, sessions, overlaps, awsFaults, stale>>

S3Step(u) ==
    \/ RunExample(u) \/ MakeBucket(u) \/ InitDone(u) \/ InitNotDone(u)
    \/ PrintDNS(u) \/ RemoveBucket(u)
    \/ ReadState(u) \/ CannotRead(u) \/ MakeInstance(u) \/ DestroyInstance(u)
    \/ NothingDone(u) \/ AwsFault(u) \/ WriteState(u)
    \/ Press(u) \/ PressAgain(u)

S3Next == \E u \in Users : S3Step(u)

-----------------------------------------------------------------------------
(* Instances nobody will ever destroy: no state and no terraform at work   *)
(* knows of them.                                                          *)
Orphans == instances \ Known

(* One user alone, whose AWS calls succeed and who never presses Ctrl+C    *)
(* twice within one command, loses no instance wherever Ctrl+C comes.      *)
(* Beyond that, each session that overlaps another, each failed call, each *)
(* abort, and each old copy put over a newer state loses at most one.      *)
OrphansCharged ==
    Cardinality(Orphans) <= overlaps + awsFaults + aborts + stale
=============================================================================
