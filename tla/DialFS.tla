-------------------------------- MODULE DialFS --------------------------------
(***************************************************************************)
(* DialFS, the interface of entradasalida/src/main.c that keeps files.  Its *)
(* disk is a bitmap and an array of blocks, both mapped to files, and one  *)
(* .metadata file per file with its first block and its size.  The process *)
(* serves one order at a time, but an order writes to several of those     *)
(* places one after the other, and the process may die between two of them *)
(* and be started again on what it left.                                   *)
(*                                                                         *)
(* A step is one write.  Taking a block and zeroing it are one step.       *)
(***************************************************************************)
EXTENDS Integers, FiniteSets

CONSTANTS
  Archivo,      \* names of files
  CantBloques,  \* BLOCK_COUNT
  TamBloque,    \* BLOCK_SIZE
  Tamanios,     \* sizes that programs give to IO_FS_TRUNCATE
  Punteros, Largos,  \* pointers and lengths that they give to IO_FS_WRITE and READ
  Dato, Cero,   \* values of a byte
  Ordenes,      \* what the programs do: see Orden
  Caidas,       \* phases in which the process may be killed
  Reinicios     \* TRUE: it is started again

Orden == {"crear", "borrar", "borrar vacio", "agrandar", "compactar", "achicar",
          "escribir", "leer", "inexistente"}
FaseDeCompactar == {"sacar", "recorrer", "mudar", "mudar ocupar", "mudar escribir",
                    "mudar liberar", "poner ocupar", "poner escribir"}
Fase == {"reposo", "muerto", "reservar", "abrir", "ocupar", "guardar",
         "liberar", "limpiar", "quitar", "recortar"} \cup FaseDeCompactar

ASSUME ConstantesOK ==
  /\ CantBloques \in Nat \ {0} /\ TamBloque \in Nat \ {0}
  /\ Tamanios \subseteq Nat /\ Punteros \subseteq Nat /\ Largos \subseteq Nat \ {0}
  /\ Cero \in Dato
  /\ Ordenes \subseteq Orden /\ Caidas \subseteq Fase
  /\ Reinicios \in BOOLEAN

Bloque == 0 .. CantBloques - 1
Byte == 0 .. CantBloques * TamBloque - 1

(***************************************************************************)
(* bitmap     blocks whose bit is 1                                        *)
(* datos      bytes of bloques.dat                                         *)
(* metadata   the .metadata files with their keys, [inicio, tam]           *)
(* vacias     .metadata files without keys: just created, or emptied to be *)
(*            written when the kill came                                   *)
(* fase       which loop or write of the order comes next                  *)
(* lazo       the file it is about, the range [i, hasta) of the loop and   *)
(*            the keys that its metadata will get                          *)
(* compacta   locals of compactar: file, new size, its bytes in buffer,    *)
(*            primer_bloque_libre, whether a file was moved, and the bytes *)
(*            of the one being moved                                       *)
(* respuesta  the last order and what was answered to the kernel           *)
(* antes      history: the contents of the files when the interface was    *)
(*            last idle                                                    *)
(* intacto    history: no compaction and no shrink has started, and no     *)
(*            kill came in the middle of a deletion                        *)
(***************************************************************************)
VARIABLES bitmap, datos, metadata, vacias, fase, lazo, compacta, respuesta, antes, intacto

disco == <<bitmap, datos, metadata, vacias>>
vars == <<bitmap, datos, metadata, vacias, fase, lazo, compacta, respuesta, antes, intacto>>

Nada == [archivo |-> {}]

FaseDeDanar == FaseDeCompactar \cup {"liberar", "limpiar", "quitar", "recortar"}

-----------------------------------------------------------------------------
(***************************************************************************)
(* Blocks and bytes of a file                                              *)
(***************************************************************************)
Techo(tam) == (tam + TamBloque - 1) \div TamBloque

\* A file of size 0 has one block, although its size says none.
BloquesDe(tam) == IF tam = 0 THEN 1 ELSE Techo(tam)
Extension(m) == m.inicio .. m.inicio + BloquesDe(m.tam) - 1

Leido(m) == [k \in 0 .. m.tam - 1 |->
               LET b == m.inicio * TamBloque + k IN IF b \in Byte THEN datos[b] ELSE Cero]
Contenido == [f \in DOMAIN metadata |-> Leido(metadata[f])]

EscribirBytes(desde, buffer) ==
  datos' = [b \in Byte |-> IF b - desde \in DOMAIN buffer THEN buffer[b - desde] ELSE datos[b]]

LimpiarBloque(i) ==
  datos' = [b \in Byte |-> IF b \div TamBloque = i THEN Cero ELSE datos[b]]

Guardar(f, m) ==
  metadata' = [g \in DOMAIN metadata \cup {f} |-> IF g = f THEN m ELSE metadata[g]]

\* Mutant: the last place does not count.
hay_espacio_estricto(cant) == cant < Cardinality(Bloque \ bitmap)

hay_espacio_suficiente(cant) == cant <= Cardinality(Bloque \ bitmap)

\* Mutant: the search forgets to look at the bit.
PrimeroCualquiera == CHOOSE b \in Bloque : \A c \in Bloque : b <= c

PrimeroLibre == CHOOSE b \in Bloque \ bitmap : \A c \in Bloque \ bitmap : b <= c

-----------------------------------------------------------------------------
(***************************************************************************)
(* Orders                                                                  *)
(***************************************************************************)
Lazo(f, i, hasta, m) == [archivo |-> f, i |-> i, hasta |-> hasta, meta |-> m]

Contestar(tipo, f, tam, hecho) ==
  /\ fase' = "reposo" /\ lazo' = Nada /\ compacta' = Nada
  /\ respuesta' = [tipo |-> tipo, archivo |-> f, tam |-> tam, hecho |-> hecho]
  /\ antes' = Contenido' /\ UNCHANGED intacto

Seguir(fs, l) == fase' = fs /\ lazo' = l /\ UNCHANGED <<compacta, respuesta, antes, intacto>>

\* A NULL is dereferenced, or the process is killed: its locals are lost.
Morir ==
  /\ fase' = "muerto" /\ lazo' = Nada /\ compacta' = Nada
  /\ intacto' = (intacto /\ fase \notin FaseDeDanar)
  /\ UNCHANGED <<respuesta, antes>>

crear_archivo(f) ==
  /\ fase = "reposo" /\ "crear" \in Ordenes /\ UNCHANGED disco
  /\ IF f \in DOMAIN metadata \cup vacias \/ bitmap = Bloque
     THEN Contestar("crear", f, 0, FALSE)
     ELSE Seguir("reservar", Lazo(f, PrimeroLibre, PrimeroLibre + 1, [inicio |-> PrimeroLibre, tam |-> 0]))

\* Mutant: one block more is freed.
borrar_de_mas(f) ==
  /\ fase = "reposo" /\ f \in DOMAIN metadata /\ "borrar" \in Ordenes
  /\ LET m == metadata[f] IN Seguir("liberar", Lazo(f, m.inicio, m.inicio + Techo(m.tam) + 1, m))
  /\ UNCHANGED disco

borrar_archivo(f) ==
  /\ fase = "reposo" /\ f \in DOMAIN metadata
  /\ LET m == metadata[f]
     IN /\ (IF m.tam = 0 THEN "borrar vacio" ELSE "borrar") \in Ordenes
        /\ Seguir("liberar", Lazo(f, m.inicio, m.inicio + Techo(m.tam), m))
  /\ UNCHANGED disco

\* truncar_archivo to a greater size: in place if the blocks that follow are
\* free, at the end of a compacted disk if not.
agrandar_archivo(f, tam) ==
  LET m       == metadata[f]
      agregar == BloquesDe(tam) - BloquesDe(m.tam)
      desde   == m.inicio + BloquesDe(m.tam)
  IN /\ fase = "reposo" /\ f \in DOMAIN metadata /\ tam > m.tam /\ UNCHANGED disco
     /\ \/ /\ \A i \in desde .. desde + agregar - 1 : i \in Bloque \ bitmap
           /\ "agrandar" \in Ordenes
           /\ Seguir("ocupar", Lazo(f, desde, desde + agregar, [m EXCEPT !.tam = tam]))
        \/ /\ \E i \in desde .. desde + agregar - 1 : i \notin Bloque \ bitmap
           /\ "compactar" \in Ordenes
           /\ IF hay_espacio_suficiente(agregar)
              THEN /\ fase' = "sacar"
                   /\ lazo' = Lazo(f, m.inicio, desde, m)
                   /\ compacta' = [archivo |-> f, tam |-> tam, buffer |-> Leido(m),
                                   libre |-> 0, movio |-> FALSE, movido |-> <<>>]
                   /\ intacto' = FALSE
                   /\ UNCHANGED <<respuesta, antes>>
              ELSE Contestar("agrandar", f, tam, FALSE)

\* To a size that is not greater: from the block whose number is the first
\* plus the size in bytes, downwards.
achicar_archivo(f, tam) ==
  LET m == metadata[f]
  IN /\ fase = "reposo" /\ f \in DOMAIN metadata /\ tam <= m.tam /\ "achicar" \in Ordenes
     /\ fase' = "recortar"
     /\ lazo' = Lazo(f, m.inicio + m.tam - (Techo(m.tam) - Techo(tam)) + 1,
                     m.inicio + m.tam + 1, [m EXCEPT !.tam = tam])
     /\ intacto' = FALSE
     /\ UNCHANGED <<bitmap, datos, metadata, vacias, compacta, respuesta, antes>>

escribir_en_archivo(f, k, n, d) ==
  /\ fase = "reposo" /\ f \in DOMAIN metadata /\ "escribir" \in Ordenes
  /\ UNCHANGED <<bitmap, metadata, vacias>>
  /\ LET m == metadata[f]
     IN /\ IF k + n > m.tam
           THEN UNCHANGED datos
           ELSE EscribirBytes(m.inicio * TamBloque + k, [j \in 0 .. n - 1 |-> d])
        /\ Contestar("escribir", f, n, k + n <= m.tam)

\* What is asked beyond the size is read as NULL, and its length is then taken.
\* If not, as many bytes as the file has are read from the pointer on, and past
\* the end of the disk the process may fall.  Which bytes the memory gets, and
\* whether it ever answers, is left out.
leer_en_archivo(f, k, n) ==
  /\ fase = "reposo" /\ f \in DOMAIN metadata /\ "leer" \in Ordenes /\ UNCHANGED disco
  /\ LET m == metadata[f]
     IN \/ k + n <= m.tam /\ Contestar("leer", f, n, TRUE)
        \/ /\ \/ k + n > m.tam
              \/ m.inicio * TamBloque + k + m.tam > CantBloques * TamBloque
           /\ Morir

\* Any order but the creation, on a file without metadata or without keys.
archivo_inexistente(f) ==
  /\ fase = "reposo" /\ f \notin DOMAIN metadata /\ "inexistente" \in Ordenes
  /\ Morir
  /\ UNCHANGED disco

-----------------------------------------------------------------------------
(***************************************************************************)
(* Writes of an order                                                      *)
(***************************************************************************)
ocupar_bloque ==
  /\ fase \in {"reservar", "ocupar", "mudar ocupar", "poner ocupar"} /\ lazo.i < lazo.hasta
  /\ bitmap' = bitmap \cup ({lazo.i} \cap Bloque)
  /\ IF lazo.i \in bitmap THEN UNCHANGED datos ELSE LimpiarBloque(lazo.i)
  /\ Seguir(fase, [lazo EXCEPT !.i = @ + 1])
  /\ UNCHANGED <<metadata, vacias>>

liberar_bloque ==
  /\ fase \in {"liberar", "sacar", "mudar liberar"} /\ lazo.i < lazo.hasta
  /\ bitmap' = bitmap \ {lazo.i}
  /\ Seguir(fase, [lazo EXCEPT !.i = @ + 1])
  /\ UNCHANGED <<datos, metadata, vacias>>

RecortarBloque ==
  /\ fase = "recortar" /\ lazo.i < lazo.hasta
  /\ bitmap' = bitmap \ {lazo.hasta - 1}
  /\ Seguir(fase, [lazo EXCEPT !.hasta = @ - 1])
  /\ UNCHANGED <<datos, metadata, vacias>>

limpiar_bloque ==
  /\ fase = "limpiar" /\ lazo.i < lazo.hasta
  /\ LimpiarBloque(lazo.i)
  /\ Seguir(fase, [lazo EXCEPT !.i = @ + 1])
  /\ UNCHANGED <<bitmap, metadata, vacias>>

\* The loop ends and the next write is
Luego(fs) == CASE fs = "reservar"     -> "abrir"
               [] fs = "ocupar"       -> "guardar"
               [] fs = "liberar"      -> "limpiar"
               [] fs = "limpiar"      -> "quitar"
               [] fs = "mudar ocupar" -> "mudar escribir"
               [] fs = "poner ocupar" -> "poner escribir"

FinDeLazo ==
  /\ fase \in {"reservar", "ocupar", "liberar", "limpiar", "mudar ocupar", "poner ocupar"}
  /\ lazo.i >= lazo.hasta
  /\ Seguir(Luego(fase), IF fase = "liberar" THEN [lazo EXCEPT !.i = metadata[lazo.archivo].inicio] ELSE lazo)
  /\ UNCHANGED disco

\* config_set_value is given the new size as if it were a text.
FinDeRecorte ==
  /\ fase = "recortar" /\ lazo.i >= lazo.hasta
  /\ Morir
  /\ UNCHANGED disco

AbrirMetadata ==
  /\ fase = "abrir"
  /\ vacias' = vacias \cup {lazo.archivo}
  /\ Seguir("guardar", lazo)
  /\ UNCHANGED <<bitmap, datos, metadata>>

\* Mutant: the file of metadata just opened is left as it was.
GuardarSinCerrar ==
  /\ fase = "guardar"
  /\ Guardar(lazo.archivo, lazo.meta)
  /\ UNCHANGED <<bitmap, datos, vacias>>
  /\ Contestar("crear", lazo.archivo, lazo.meta.tam, TRUE)

GuardarMetadata ==
  /\ fase = "guardar"
  /\ Guardar(lazo.archivo, lazo.meta)
  /\ vacias' = vacias \ {lazo.archivo}
  /\ UNCHANGED <<bitmap, datos>>
  /\ Contestar(IF lazo.archivo \in vacias THEN "crear" ELSE "agrandar", lazo.archivo, lazo.meta.tam, TRUE)

QuitarMetadata ==
  /\ fase = "quitar"
  /\ metadata' = [g \in DOMAIN metadata \ {lazo.archivo} |-> metadata[g]]
  /\ UNCHANGED <<bitmap, datos, vacias>>
  /\ Contestar("borrar", lazo.archivo, 0, TRUE)

-----------------------------------------------------------------------------
(***************************************************************************)
(* compactar                                                               *)
(***************************************************************************)
FinDeSacar ==
  /\ fase = "sacar" /\ lazo.i >= lazo.hasta
  /\ fase' = "recorrer" /\ lazo' = Nada
  /\ compacta' = [compacta EXCEPT !.libre = IF bitmap = Bloque THEN 0 ELSE PrimeroLibre]
  /\ UNCHANGED <<bitmap, datos, metadata, vacias, respuesta, antes, intacto>>

\* Occupied blocks that the walk has yet to see.  Without a free block it
\* never starts looking for one to move.
Ocupados == IF bitmap = Bloque /\ ~compacta.movio THEN {} ELSE {b \in bitmap : b >= compacta.libre}

\* conseguir_config_archivo_por_inicio reads metadata in the order of the
\* directory and stops at the one that starts at i; without any, it is left
\* with the last it read.
PorInicio(i) ==
  LET hallados == {f \in DOMAIN metadata : metadata[f].inicio = i}
  IN IF hallados = {} THEN DOMAIN metadata ELSE hallados

MudarArchivo ==
  /\ fase = "recorrer" /\ Ocupados # {}
  /\ LET i == CHOOSE b \in Ocupados : \A c \in Ocupados : b <= c
     IN \E f \in PorInicio(i) :
          \/ /\ \/ vacias = {}
                \/ metadata[f].inicio = i
             /\ fase' = "mudar" /\ lazo' = Lazo(f, compacta.libre, metadata[f].inicio, metadata[f])
             /\ compacta' = [compacta EXCEPT !.movio = TRUE, !.movido = Leido(metadata[f])]
             /\ UNCHANGED <<respuesta, antes, intacto>>
          \/ vacias # {} /\ Morir
  /\ UNCHANGED disco

MudarMetadata ==
  /\ fase = "mudar"
  /\ Guardar(lazo.archivo, [lazo.meta EXCEPT !.inicio = compacta.libre])
  /\ Seguir("mudar ocupar", lazo)
  /\ UNCHANGED <<bitmap, datos, vacias>>

\* Mutant: as many blocks are freed as the file has.
MudarYLiberarCant ==
  /\ fase = "mudar escribir"
  /\ EscribirBytes(compacta.libre * TamBloque, compacta.movido)
  /\ LET desde == compacta.libre + BloquesDe(lazo.meta.tam)
     IN Seguir("mudar liberar", [lazo EXCEPT !.i = desde, !.hasta = desde + BloquesDe(lazo.meta.tam)])
  /\ UNCHANGED <<bitmap, metadata, vacias>>

MudarDatos ==
  /\ fase = "mudar escribir"
  /\ EscribirBytes(compacta.libre * TamBloque, compacta.movido)
  /\ LET cant == BloquesDe(lazo.meta.tam)
     IN Seguir("mudar liberar", [lazo EXCEPT !.i = compacta.libre + cant, !.hasta = lazo.meta.inicio + cant])
  /\ UNCHANGED <<bitmap, metadata, vacias>>

\* Mutant: the walk goes on from the start of the file it has moved.
FinDeMudanzaSinAvanzar ==
  /\ fase = "mudar liberar" /\ lazo.i >= lazo.hasta
  /\ fase' = "recorrer" /\ lazo' = Nada
  /\ compacta' = [compacta EXCEPT !.movido = <<>>]
  /\ UNCHANGED <<bitmap, datos, metadata, vacias, respuesta, antes, intacto>>

FinDeMudanza ==
  /\ fase = "mudar liberar" /\ lazo.i >= lazo.hasta
  /\ fase' = "recorrer" /\ lazo' = Nada
  /\ compacta' = [compacta EXCEPT !.libre = @ + BloquesDe(lazo.meta.tam), !.movido = <<>>]
  /\ UNCHANGED <<bitmap, datos, metadata, vacias, respuesta, antes, intacto>>

\* config_destroy gets a pointer that was never set if no file was moved:
\* the process dies or goes on.
FinDeRecorrido ==
  /\ fase = "recorrer" /\ Ocupados = {}
  /\ \/ LET m == [inicio |-> compacta.libre, tam |-> compacta.tam]
        IN Seguir("poner ocupar", Lazo(compacta.archivo, m.inicio, m.inicio + Techo(m.tam), m))
     \/ ~compacta.movio /\ Morir
  /\ UNCHANGED disco

PonerDatos ==
  /\ fase = "poner escribir"
  /\ EscribirBytes(compacta.libre * TamBloque, compacta.buffer)
  /\ Seguir("guardar", lazo)
  /\ UNCHANGED <<bitmap, metadata, vacias>>

-----------------------------------------------------------------------------
Caer == /\ fase \in Caidas \ {"muerto"}
        /\ Morir
        /\ UNCHANGED disco

\* config_save empties the file of metadata before it writes it.
CaerAlGuardar ==
  /\ fase \in {"guardar", "mudar"} \cap Caidas
  /\ Morir
  /\ metadata' = [g \in DOMAIN metadata \ {lazo.archivo} |-> metadata[g]]
  /\ vacias' = vacias \cup {lazo.archivo}
  /\ UNCHANGED <<bitmap, datos>>

\* crear_nueva_interfaz opens the files that are there.
Reiniciar == /\ fase = "muerto" /\ Reinicios
             /\ UNCHANGED disco
             /\ Contestar("reinicio", {}, 0, TRUE)

Init ==
  /\ bitmap = {} /\ datos = [b \in Byte |-> Cero]
  /\ metadata = [f \in {} |-> Nada] /\ vacias = {}
  /\ fase = "reposo" /\ lazo = Nada /\ compacta = Nada
  /\ respuesta = [tipo |-> "nada"]
  /\ antes = [f \in {} |-> <<>>] /\ intacto = TRUE

Pedido ==
  \E f \in Archivo :
    \/ crear_archivo(f) \/ borrar_archivo(f) \/ archivo_inexistente(f)
    \/ \E tam \in Tamanios : agrandar_archivo(f, tam) \/ achicar_archivo(f, tam)
    \/ \E k \in Punteros, n \in Largos :
         leer_en_archivo(f, k, n) \/ \E d \in Dato : escribir_en_archivo(f, k, n, d)

Paso ==
  \/ ocupar_bloque \/ liberar_bloque \/ RecortarBloque \/ limpiar_bloque \/ FinDeLazo
  \/ FinDeRecorte \/ AbrirMetadata \/ GuardarMetadata \/ QuitarMetadata
  \/ FinDeSacar \/ MudarArchivo \/ MudarMetadata \/ MudarDatos \/ FinDeMudanza
  \/ FinDeRecorrido \/ PonerDatos

Next == Pedido \/ Paso \/ Caer \/ CaerAlGuardar \/ Reiniciar

Spec == Init /\ [][Next]_vars
SpecJusta == Spec /\ WF_vars(Paso)

-----------------------------------------------------------------------------
(***************************************************************************)
(* Properties                                                              *)
(***************************************************************************)
\* Every value is of its kind, and a file without keys is not among those
\* that have them.
TypeOK ==
  /\ bitmap \subseteq Bloque /\ datos \in [Byte -> Dato]
  /\ DOMAIN metadata \subseteq Archivo /\ vacias \subseteq Archivo \ DOMAIN metadata
  /\ \A f \in DOMAIN metadata : metadata[f] \in [inicio: Nat, tam: Nat]
  /\ fase \in Fase
  /\ fase \notin {"reposo", "muerto", "recorrer"} =>
       lazo \in [archivo: Archivo, i: Nat, hasta: Nat, meta: [inicio: Nat, tam: Nat]]
  /\ fase \in FaseDeCompactar => compacta.archivo \in DOMAIN metadata /\ compacta.tam \in Tamanios

\* While nobody kills the interface nor asks it to delete an empty file, the
\* bitmap says exactly which blocks the metadata of the files say, after any
\* number of compactions.
BitmapCoherente == fase = "reposo" => bitmap = UNION {Extension(metadata[f]) : f \in DOMAIN metadata}

\* The files from outside: compaction keeps every byte of every file, and a
\* creation or a growth is refused only when the whole disk has no room.
PromesaDeArchivos == INSTANCE Archivos WITH contenido <- antes
Implementa == PromesaDeArchivos!Spec

\* A file that is being deleted no longer counts.
Vigentes == DOMAIN metadata \ (IF fase \in {"liberar", "limpiar", "quitar"} THEN {lazo.archivo} ELSE {})

\* Killed in the middle of creating or growing a file in its place and started
\* again, the interface never leaves a file with a block that the bitmap says is
\* free.  It is said until the first compaction or shrink starts, or a kill cuts
\* a deletion: with a block that a kill left taken by nobody, even a compaction
\* that ends takes the wrong file for the one it has to move,
Reservados == intacto => \A f \in Vigentes : Extension(metadata[f]) \subseteq bitmap

\* so it never gives one block to two files.
Disjuntos ==
  intacto => \A f, g \in Vigentes :
               f # g => Extension(metadata[f]) \cap Extension(metadata[g]) = {}

\* Every order is answered or ends with the process, even on a disk that a
\* kill left in disorder: the walk of the compaction, which sets its own
\* index back, does not go round for ever.
SeContesta == fase # "reposo" ~> fase \in {"reposo", "muerto"}
=============================================================================
