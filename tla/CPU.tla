-------------------------------- MODULE CPU ---------------------------------
(***************************************************************************)
(* The CPU process.  One thread runs the instruction cycle, one receives   *)
(* the Kernel's dispatch socket and one its interrupt socket; they share   *)
(* `proceso`, the flags bloquear and interrupcion, and the semaphores ciclo*)
(* and respuesta.  The sockets are sequences; Kernel actions put in        *)
(* canalDespacho and canalInterrupcion and take from canalContexto.        *)
(*                                                                         *)
(* An instruction is kept for what it makes the CPU do: SET, SUM and SUB   *)
(* are "CALC", MOV_IN and MOV_OUT are "MOV".  Registers are not modelled,  *)
(* so a JNZ may jump or not.                                               *)
(***************************************************************************)
EXTENDS Generales

CONSTANTS
  Args,       \* arguments of the instructions
  Programa,   \* the instructions Memoria loaded for each process
  MaxFallas   \* bound: page faults in a behaviour

Comandos == {"CALC", "JNZ", "MOV", "SLEEP", "WAIT", "SIGNAL",
             "F_SEEK", "F_WRITE", "F_TRUNCATE", "EXIT"}
Instrucciones == [op : Comandos, arg : Args]

ASSUME CPUAssumption ==
  /\ MaxFallas \in Nat
  /\ Programa \in [Pids -> Seq(Instrucciones)]
  /\ \A p \in Pids : \A i \in 1..Len(Programa[p]) :
       Programa[p][i].op = "JNZ" => Programa[p][i].arg \in Nat

VARIABLES
  canalDespacho,      \* Kernel -> CPU: "proceso" and "respuesta"
  canalContexto,      \* CPU -> Kernel: "contexto"
  canalInterrupcion,  \* Kernel -> CPU: "interrupcion"
  proceso,            \* the PCB the cycle works on
  instruccion,        \* the instruction Memoria answered
  ciclo, respuesta,   \* semaphores
  cicloPc,            \* where the cycle thread is
  bloquear, interrupcion, motivo,
  pedido, avisar,     \* of the interrupt receiver: pid (0: none), banderaInterrumpir
  fallas,             \* page faults so far
  avance              \* history: the pc each program has really reached

canales == <<canalDespacho, canalContexto, canalInterrupcion>>
nucleo  == <<proceso, instruccion, ciclo, respuesta, cicloPc, bloquear,
             interrupcion, motivo, pedido, avisar, fallas, avance>>
cpuVars == <<canales, nucleo>>

CPUInit ==
  /\ canalDespacho = <<>> /\ canalContexto = <<>> /\ canalInterrupcion = <<>>
  /\ proceso = [pid |-> 0, pc |-> 0]
  /\ instruccion = [op |-> "CALC", arg |-> 0]
  /\ ciclo = 0 /\ respuesta = 0
  /\ cicloPc = "ciclo"
  /\ bloquear = FALSE /\ interrupcion = FALSE /\ motivo = ""
  /\ pedido = 0 /\ avisar = FALSE
  /\ fallas = 0
  /\ avance = [p \in Pids |-> 0]

-----------------------------------------------------------------------------
(* What the program asks the Kernel for, by the reason of the context.     *)
MotivoDe ==
  [SLEEP |-> "sleep", WAIT |-> "wait", SIGNAL |-> "signal", F_SEEK |-> "f_seek",
   F_WRITE |-> "f_write", F_TRUNCATE |-> "f_truncate", EXIT |-> "procesoExit"]
Syscalls == DOMAIN MotivoDe
ConMMU   == {"MOV", "F_WRITE"}   \* instructions that translate an address

(* contexto_ejecucion: the PCB goes to the Kernel with a reason.           *)
Contexto(razon, pc, arg) == [motivo |-> razon, pid |-> proceso.pid, pc |-> pc, arg |-> arg]

(* sem_wait(&ciclo), fetch: asks for the instruction at pc, then pc++.     *)
Buscar ==
  /\ cicloPc = "ciclo" /\ ciclo > 0
  /\ proceso.pid \in Pids /\ proceso.pc + 1 \in DOMAIN Programa[proceso.pid]
  /\ ciclo' = ciclo - 1
  /\ instruccion' = Programa[proceso.pid][proceso.pc + 1]
  /\ proceso' = [proceso EXCEPT !.pc = @ + 1]
  /\ cicloPc' = "ejecutar"
  /\ UNCHANGED <<canales, respuesta, bloquear, interrupcion, motivo, pedido, avisar, fallas, avance>>

Ejecutado(pc) == avance' = [avance EXCEPT ![proceso.pid] = pc]

(* An instruction the CPU completes by itself.                             *)
Calcular ==
  /\ cicloPc = "ejecutar" /\ instruccion.op \in {"CALC", "JNZ", "MOV"}
  /\ Ejecutado(proceso.pc)
  /\ cicloPc' = "controlar"
  /\ UNCHANGED <<canales, proceso, instruccion, ciclo, respuesta, bloquear, interrupcion,
                 motivo, pedido, avisar, fallas>>

(* jnz of a register that is not zero.                                     *)
Saltar ==
  /\ cicloPc = "ejecutar" /\ instruccion.op = "JNZ"
  /\ proceso' = [proceso EXCEPT !.pc = instruccion.arg]
  /\ Ejecutado(instruccion.arg)
  /\ cicloPc' = "controlar"
  /\ UNCHANGED <<canales, instruccion, ciclo, respuesta, bloquear, interrupcion, motivo,
                 pedido, avisar, fallas>>

(* page_fault: the instruction is to be repeated, so pc--; on a process    *)
(* that has just arrived the unsigned pc wraps, and -1 stands for that.    *)
FallarPagina ==
  /\ cicloPc = "ejecutar" /\ instruccion.op \in ConMMU /\ fallas < MaxFallas
  /\ proceso' = [proceso EXCEPT !.pc = @ - 1]
  /\ bloquear' = TRUE
  /\ canalContexto' = Append(canalContexto, Contexto("page_fault", proceso.pc - 1, instruccion.arg))
  /\ fallas' = fallas + 1
  /\ cicloPc' = "controlar"
  /\ UNCHANGED <<canalDespacho, canalInterrupcion, instruccion, ciclo, respuesta,
                 interrupcion, motivo, pedido, avisar, avance>>

(* Bug: the PCB is sent as it was before fetch advanced it.                *)
PedirKernel_SinAvanzar ==
  /\ cicloPc = "ejecutar" /\ instruccion.op \in Syscalls
  /\ bloquear' = TRUE
  /\ canalContexto' =
       Append(canalContexto, Contexto(MotivoDe[instruccion.op], proceso.pc - 1, instruccion.arg))
  /\ Ejecutado(proceso.pc)
  /\ cicloPc' = "controlar"
  /\ UNCHANGED <<canalDespacho, canalInterrupcion, proceso, instruccion, ciclo, respuesta,
                 interrupcion, motivo, pedido, avisar, fallas>>

(* An instruction that asks the Kernel: send the context, set bloquear.    *)
PedirKernel ==
  /\ cicloPc = "ejecutar" /\ instruccion.op \in Syscalls
  /\ bloquear' = TRUE
  /\ canalContexto' =
       Append(canalContexto, Contexto(MotivoDe[instruccion.op], proceso.pc, instruccion.arg))
  /\ Ejecutado(proceso.pc)
  /\ cicloPc' = "controlar"
  /\ UNCHANGED <<canalDespacho, canalInterrupcion, proceso, instruccion, ciclo, respuesta,
                 interrupcion, motivo, pedido, avisar, fallas>>

(* check_interrupt, first half: with no syscall pending, go on with the    *)
(* same process unless an interrupt is already marked.                     *)
Continuar ==
  /\ cicloPc = "controlar" /\ ~bloquear
  /\ ciclo' = IF interrupcion THEN ciclo ELSE ciclo + 1
  /\ cicloPc' = "interrumpir"
  /\ UNCHANGED <<canales, proceso, instruccion, respuesta, bloquear, interrupcion, motivo,
                 pedido, avisar, fallas, avance>>

(* ... and after a syscall, wait for the Kernel's answer.                  *)
EsperarRespuesta ==
  /\ cicloPc = "controlar" /\ bloquear /\ respuesta > 0
  /\ bloquear' = FALSE
  /\ respuesta' = respuesta - 1
  /\ cicloPc' = "interrumpir"
  /\ UNCHANGED <<canales, proceso, instruccion, ciclo, interrupcion, motivo, pedido, avisar, fallas, avance>>

(* check_interrupt, second half: a marked interrupt sends the process back.*)
AtenderInterrupcion ==
  /\ cicloPc = "interrumpir"
  /\ canalContexto' = IF interrupcion
                      THEN Append(canalContexto, Contexto(motivo, proceso.pc, instruccion.arg))
                      ELSE canalContexto
  /\ interrupcion' = FALSE
  /\ cicloPc' = "ciclo"
  /\ UNCHANGED <<canalDespacho, canalInterrupcion, proceso, instruccion, ciclo, respuesta,
                 bloquear, motivo, pedido, avisar, fallas, avance>>

HiloCiclo ==
  \/ Buscar \/ Calcular \/ Saltar \/ FallarPagina \/ PedirKernel
  \/ Continuar \/ EsperarRespuesta \/ AtenderInterrupcion

-----------------------------------------------------------------------------
(* procesar_mensaje "proceso": whatever the CPU had is overwritten.        *)
RecibirProceso ==
  /\ canalDespacho # <<>> /\ Head(canalDespacho).tipo = "proceso"
  /\ proceso' = [pid |-> Head(canalDespacho).pid, pc |-> Head(canalDespacho).pc]
  /\ ciclo' = ciclo + 1
  /\ canalDespacho' = Tail(canalDespacho)
  /\ UNCHANGED <<canalContexto, canalInterrupcion, instruccion, respuesta, cicloPc, bloquear,
                 interrupcion, motivo, pedido, avisar, fallas, avance>>

(* procesar_mensaje "respuesta".                                           *)
RecibirRespuesta ==
  /\ canalDespacho # <<>> /\ Head(canalDespacho).tipo = "respuesta"
  /\ respuesta' = respuesta + 1
  /\ canalDespacho' = Tail(canalDespacho)
  /\ UNCHANGED <<canalContexto, canalInterrupcion, proceso, instruccion, ciclo, cicloPc,
                 bloquear, interrupcion, motivo, pedido, avisar, fallas, avance>>

HiloDespacho == RecibirProceso \/ RecibirRespuesta

(* procesar_mensaje "interrupcion": the reason, the pid and the flag are   *)
(* each looked at in a critical section of its own, with the other threads *)
(* in between; motivo is overwritten whoever the interrupt is for.         *)
RecibirInterrupcion ==
  /\ canalInterrupcion # <<>> /\ pedido = 0 /\ ~avisar
  /\ motivo' = Head(canalInterrupcion).motivo
  /\ pedido' = Head(canalInterrupcion).pid
  /\ canalInterrupcion' = Tail(canalInterrupcion)
  /\ UNCHANGED <<canalDespacho, canalContexto, proceso, instruccion, ciclo, respuesta,
                 cicloPc, bloquear, interrupcion, avisar, fallas, avance>>

CompararPid ==
  /\ pedido # 0
  /\ avisar' = (pedido = proceso.pid)
  /\ pedido' = 0
  /\ UNCHANGED <<canales, proceso, instruccion, ciclo, respuesta, cicloPc, bloquear,
                 interrupcion, motivo, fallas, avance>>

MarcarInterrupcion ==
  /\ avisar
  /\ avisar' = FALSE
  /\ interrupcion' = TRUE
  /\ UNCHANGED <<canales, proceso, instruccion, ciclo, respuesta, cicloPc, bloquear, motivo,
                 pedido, fallas, avance>>

HiloInterrupcion == RecibirInterrupcion \/ CompararPid \/ MarcarInterrupcion

CPUNext == HiloCiclo \/ HiloDespacho \/ HiloInterrupcion

(* What the threads of the CPU keep typed, and that whoever sends the PCB  *)
(* back has one.                                                           *)
MotivosInterrupcion == {"quantum", "prioridades", "desalojo_signal", "TERMINATED"}
MotivosContexto == MotivosInterrupcion \cup {MotivoDe[x] : x \in Syscalls} \cup {"page_fault"}
MensajesDespacho == [tipo : {"proceso"}, pid : Pids, pc : Int]
                    \cup [tipo : {"respuesta"}, pid : {0}, pc : {0}]
TipoCanales ==
  /\ canalDespacho \in Seq(MensajesDespacho)
  /\ canalContexto \in Seq([motivo : MotivosContexto, pid : Pids, pc : Int, arg : Args \cup {0}])
  /\ canalInterrupcion \in Seq([motivo : MotivosInterrupcion, pid : Nat \ {0}])
TipoNucleo ==
  /\ proceso \in [pid : Pids \cup {0}, pc : Int]
  /\ instruccion \in [op : Comandos, arg : Args \cup {0}]
  /\ ciclo \in Nat /\ respuesta \in Nat /\ fallas \in Nat
  /\ cicloPc \in {"ciclo", "ejecutar", "controlar", "interrumpir"}
  /\ bloquear \in BOOLEAN /\ interrupcion \in BOOLEAN /\ avisar \in BOOLEAN
  /\ motivo \in MotivosInterrupcion \cup {""} /\ pedido \in Nat
  /\ avance \in [Pids -> Int]
TieneProceso ==
  /\ cicloPc # "ciclo" \/ avisar \/ interrupcion => proceso.pid \in Pids
  /\ pedido # 0 \/ avisar \/ interrupcion => motivo \in MotivosInterrupcion
  /\ instruccion.op = "JNZ" => instruccion.arg \in Nat
CPUTypeOK == TipoCanales /\ TipoNucleo /\ TieneProceso
=============================================================================
