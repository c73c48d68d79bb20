---------------------------- MODULE DialFS_proofs ----------------------------
(***************************************************************************)
(* Proofs about DialFS, for any number of files and blocks and any sizes.  *)
(* Whatever the phases in which the interface may be killed, no file loses *)
(* a block nor shares one, until a compaction or a shrink starts or a      *)
(* deletion is cut short.  While nobody starts it again after a kill, its  *)
(* bitmap and its metadata agree after any number of compactions, and what *)
(* it answers is what Archivos promises.                                   *)
(***************************************************************************)
EXTENDS DialFS, FiniteSetTheorems, FunctionTheorems, WellFoundedInduction, TLAPS

-----------------------------------------------------------------------------
(***************************************************************************)
(* Blocks of a file                                                        *)
(***************************************************************************)
(* A size takes as many blocks as a natural number not above it.           *)
LEMMA TechoNat ==
  ASSUME NEW t \in Nat
  PROVE  Techo(t) \in Nat /\ Techo(t) <= t
  <1> DEFINE q == (t + TamBloque - 1) \div TamBloque
  <1>1. TamBloque \in Nat /\ TamBloque >= 1
      BY ConstantesOK
  <1>2. q \in Int /\ q * TamBloque <= t + TamBloque - 1 /\ t + TamBloque - 1 < (q + 1) * TamBloque
      BY <1>1, SMTT(30)
  <1>3. q >= 0
    <2>1. SUFFICES ASSUME q + 1 <= 0 PROVE FALSE
        BY <1>2
    <2>2. (q + 1) * TamBloque <= 0
        BY <1>1, <1>2, <2>1, SMTT(30)
    <2> QED BY <1>1, <1>2, <2>2
  <1>4. q <= t
    <2>1. SUFFICES ASSUME q >= t + 1 PROVE FALSE
        BY <1>2
    <2>2. (t + 1) * TamBloque <= q * TamBloque /\ (t + 1) * TamBloque = t * TamBloque + TamBloque
        BY <1>1, <1>2, <2>1, SMTT(30)
    <2>3. t * TamBloque >= t
        BY <1>1, SMTT(30)
    <2> QED BY <1>1, <1>2, <2>2, <2>3
  <1> HIDE DEF q
  <1> QED BY <1>2, <1>3, <1>4 DEF Techo, q

(* Every file has blocks of its own, those of its size or one.             *)
LEMMA BloquesNat ==
  ASSUME NEW t \in Nat
  PROVE  BloquesDe(t) \in Nat /\ Techo(t) <= BloquesDe(t) /\ BloquesDe(0) = 1
  BY TechoNat DEF BloquesDe

(* A set of natural numbers that has one has a least.                      *)
LEMMA HayMenor ==
  ASSUME NEW S, S \subseteq Nat, S # {}
  PROVE  \E x \in S : \A y \in S : x <= y
  <1>1. OpToRel(<, Nat) = {ss \in Nat \X Nat : ss[1] < ss[2]}
      BY DEF OpToRel
  <1>2. PICK x \in S : \A y \in S : ~ (<<y, x>> \in OpToRel(<, Nat))
      BY NatLessThanWellFounded, WFMin
  <1>3. \A y \in S : ~ (y < x)
      BY <1>1, <1>2
  <1> QED BY <1>3

(* The search in the bitmap finds a block that is free.                    *)
LEMMA HayPrimero ==
  ASSUME bitmap \subseteq Bloque, bitmap # Bloque
  PROVE  PrimeroLibre \in Bloque /\ PrimeroLibre \notin bitmap /\ PrimeroLibre \in Nat
  <1>1. Bloque \subseteq Nat
      BY ConstantesOK DEF Bloque
  <1>2. Bloque \ bitmap # {} /\ Bloque \ bitmap \subseteq Nat
      BY <1>1
  <1>3. \E b \in Bloque \ bitmap : \A c \in Bloque \ bitmap : b <= c
      BY <1>2, HayMenor
  <1>4. PrimeroLibre \in Bloque \ bitmap
      BY <1>3 DEF PrimeroLibre
  <1> QED BY <1>1, <1>4

-----------------------------------------------------------------------------
(***************************************************************************)
(* Types                                                                   *)
(***************************************************************************)
FaseDeMudar == {"mudar", "mudar ocupar", "mudar escribir", "mudar liberar"}

DiscoOK ==
  /\ bitmap \subseteq Bloque /\ datos \in [Byte -> Dato]
  /\ DOMAIN metadata \subseteq Archivo /\ vacias \subseteq Archivo \ DOMAIN metadata
  /\ \A f \in DOMAIN metadata : metadata[f] \in [inicio: Nat, tam: Nat]

LazoOK ==
  fase \notin {"reposo", "muerto", "recorrer"} =>
    /\ lazo \in [archivo: Archivo, i: Nat, hasta: Nat, meta: [inicio: Nat, tam: Nat]]
    /\ fase \in {"reservar", "abrir"} => lazo.archivo \notin DOMAIN metadata \cup vacias
    /\ fase \in {"liberar", "limpiar", "quitar"} \cup FaseDeMudar => lazo.archivo \in DOMAIN metadata

Buffer(s) == \A k \in DOMAIN s : s[k] \in Dato

CompactaOK ==
  fase \in FaseDeCompactar =>
    /\ DOMAIN compacta = {"archivo", "tam", "buffer", "libre", "movio", "movido"}
    /\ compacta.archivo \in DOMAIN metadata /\ compacta.tam \in Tamanios /\ compacta.libre \in Nat
    /\ Buffer(compacta.buffer) /\ Buffer(compacta.movido)

Tipos == fase \in Fase /\ DiscoOK /\ LazoOK /\ CompactaOK

LEMMA TiposImplicaTypeOK == Tipos => TypeOK
  BY DEF Tipos, DiscoOK, LazoOK, CompactaOK, TypeOK

LEMMA InicioTipos == Init => Tipos
  BY ConstantesOK DEF Init, Tipos, DiscoOK, LazoOK, CompactaOK, Fase, FaseDeCompactar

(* Blocks of a file are numbers, and its first byte is one.                *)
LEMMA LeidoEsBuffer ==
  ASSUME DiscoOK, NEW m
  PROVE  Buffer(Leido(m))
  BY ConstantesOK DEF DiscoOK, Buffer, Leido

LEMMA EscribirEsBuffer ==
  ASSUME DiscoOK, NEW desde, NEW s, Buffer(s), EscribirBytes(desde, s)
  PROVE  datos' \in [Byte -> Dato]
  BY DEF DiscoOK, Buffer, EscribirBytes

LEMMA LimpiarEsBuffer ==
  ASSUME DiscoOK, NEW i, LimpiarBloque(i)
  PROVE  datos' \in [Byte -> Dato]
  BY ConstantesOK DEF DiscoOK, LimpiarBloque

(* Whoever dies or answers leaves no local behind.                         *)
LEMMA MorirTipos ==
  ASSUME Tipos, Morir, UNCHANGED disco
  PROVE  Tipos'
  BY DEF Tipos, DiscoOK, LazoOK, CompactaOK, Morir, disco, Fase, FaseDeCompactar

LEMMA CaerAlGuardarTipos ==
  ASSUME Tipos, CaerAlGuardar
  PROVE  Tipos'
  <1>1. lazo.archivo \in Archivo /\ fase' = "muerto" /\ UNCHANGED <<bitmap, datos>>
      BY DEF CaerAlGuardar, Morir, Tipos, LazoOK
  <1>2. metadata' = [g \in DOMAIN metadata \ {lazo.archivo} |-> metadata[g]]
        /\ vacias' = vacias \cup {lazo.archivo}
      BY DEF CaerAlGuardar
  <1>3. DiscoOK'
      BY <1>1, <1>2 DEF Tipos, DiscoOK
  <1>4. LazoOK' /\ CompactaOK'
      BY <1>1 DEF LazoOK, CompactaOK, FaseDeCompactar
  <1> QED BY <1>1, <1>3, <1>4 DEF Tipos, Fase

LEMMA ContestarTipos ==
  ASSUME DiscoOK', NEW t, NEW f, NEW tam, NEW h, Contestar(t, f, tam, h)
  PROVE  Tipos'
  BY DEF Tipos, LazoOK, CompactaOK, Contestar, Fase, FaseDeCompactar

LEMMA DiscoIgual ==
  ASSUME DiscoOK, UNCHANGED disco
  PROVE  DiscoOK'
  BY DEF DiscoOK, disco

LEMMA CrearTipos ==
  ASSUME Tipos, NEW f \in Archivo, crear_archivo(f)
  PROVE  Tipos'
  <1>1. DiscoOK'
      BY DiscoIgual DEF crear_archivo, Tipos
  <1>2. CASE f \in DOMAIN metadata \cup vacias \/ bitmap = Bloque
      BY <1>1, <1>2, ContestarTipos DEF crear_archivo
  <1>3. CASE ~(f \in DOMAIN metadata \cup vacias \/ bitmap = Bloque)
    <2>1. PrimeroLibre \in Nat
        BY <1>3, HayPrimero DEF Tipos, DiscoOK
    <2>2. PICK r \in Nat : Seguir("reservar", Lazo(f, r, r + 1, [inicio |-> r, tam |-> 0]))
        BY <1>3, <2>1 DEF crear_archivo
    <2>3. LazoOK'
        BY <1>3, <2>2 DEF crear_archivo, Seguir, Lazo, LazoOK, disco, FaseDeMudar
    <2> QED BY <1>1, <2>2, <2>3 DEF Tipos, CompactaOK, Seguir, Fase, FaseDeCompactar
  <1> QED BY <1>2, <1>3

LEMMA BorrarTipos ==
  ASSUME Tipos, NEW f \in Archivo, borrar_archivo(f)
  PROVE  Tipos'
  <1>1. DiscoOK'
      BY DiscoIgual DEF borrar_archivo, Tipos, disco
  <1>2. metadata[f] \in [inicio: Nat, tam: Nat] /\ f \in DOMAIN metadata /\ UNCHANGED metadata
      BY DEF borrar_archivo, Tipos, DiscoOK, disco
  <1>3. Techo(metadata[f].tam) \in Nat
      BY <1>2, TechoNat
  <1>4. PICK n \in Nat :
          Seguir("liberar", Lazo(f, metadata[f].inicio, metadata[f].inicio + n, metadata[f]))
      BY <1>3 DEF borrar_archivo
  <1>5. LazoOK'
      BY <1>2, <1>4 DEF Seguir, Lazo, LazoOK, FaseDeMudar
  <1> QED BY <1>1, <1>4, <1>5 DEF Tipos, CompactaOK, Seguir, Fase, FaseDeCompactar

LEMMA AgrandarTipos ==
  ASSUME Tipos, NEW f \in Archivo, NEW tam \in Tamanios, agrandar_archivo(f, tam)
  PROVE  Tipos'
  <1> DEFINE m       == metadata[f]
             agregar == BloquesDe(tam) - BloquesDe(m.tam)
             desde   == m.inicio + BloquesDe(m.tam)
  <1>1. DiscoOK'
      BY DiscoIgual DEF agrandar_archivo, Tipos
  <1>2. m \in [inicio: Nat, tam: Nat] /\ tam \in Nat /\ f \in DOMAIN metadata
      BY ConstantesOK DEF agrandar_archivo, Tipos, DiscoOK
  <1>3. BloquesDe(m.tam) \in Nat /\ BloquesDe(tam) \in Nat
      BY <1>2, BloquesNat
  <1>4. desde \in Nat /\ desde + agregar \in Nat
      BY <1>2, <1>3
  <1>5. CASE Seguir("ocupar", Lazo(f, desde, desde + agregar, [m EXCEPT !.tam = tam]))
    <2>1. [m EXCEPT !.tam = tam] \in [inicio: Nat, tam: Nat]
        BY <1>2
    <2>2. LazoOK'
        BY <1>2, <1>4, <1>5, <2>1 DEF Seguir, Lazo, LazoOK, FaseDeMudar
    <2> QED BY <1>1, <1>5, <2>2 DEF Tipos, CompactaOK, Seguir, Fase, FaseDeCompactar
  <1>6. CASE /\ fase' = "sacar" /\ lazo' = Lazo(f, m.inicio, desde, m)
             /\ compacta' = [archivo |-> f, tam |-> tam, buffer |-> Leido(m),
                             libre |-> 0, movio |-> FALSE, movido |-> <<>>]
             /\ UNCHANGED disco
    <2>1. LazoOK'
        BY <1>2, <1>4, <1>6 DEF Lazo, LazoOK, FaseDeMudar
    <2>2. Buffer(Leido(m)) /\ Buffer(<<>>)
        BY LeidoEsBuffer DEF Tipos, Buffer
    <2>3. CompactaOK'
        BY <1>2, <1>6, <2>2 DEF CompactaOK, disco
    <2> QED BY <1>1, <1>6, <2>1, <2>3 DEF Tipos, Fase, FaseDeCompactar
  <1>7. CASE Contestar("agrandar", f, tam, FALSE)
      BY <1>1, <1>7, ContestarTipos
  <1> HIDE DEF m, agregar, desde
  <1> QED BY <1>5, <1>6, <1>7 DEF agrandar_archivo, m, agregar, desde

(* A file is shrunk by fewer blocks than its bytes.                        *)
LEMMA AchicarTipos ==
  ASSUME Tipos, NEW f \in Archivo, NEW tam \in Tamanios, achicar_archivo(f, tam)
  PROVE  Tipos'
  <1> DEFINE m == metadata[f]
             desde == m.inicio + m.tam - (Techo(m.tam) - Techo(tam)) + 1
  <1>1. DiscoOK'
      BY DiscoIgual DEF achicar_archivo, Tipos, disco
  <1>2. m \in [inicio: Nat, tam: Nat] /\ tam \in Nat
      BY ConstantesOK DEF achicar_archivo, Tipos, DiscoOK
  <1>3. desde \in Nat
      BY <1>2, TechoNat
  <1>4. [m EXCEPT !.tam = tam] \in [inicio: Nat, tam: Nat]
      BY <1>2
  <1>5. fase' = "recortar" /\ lazo' = Lazo(f, desde, m.inicio + m.tam + 1, [m EXCEPT !.tam = tam])
      BY DEF achicar_archivo
  <1> HIDE DEF desde
  <1>6. LazoOK'
      BY <1>2, <1>3, <1>4, <1>5 DEF Lazo, LazoOK, FaseDeMudar
  <1> QED BY <1>1, <1>5, <1>6 DEF Tipos, CompactaOK, Fase, FaseDeCompactar

LEMMA EscribirTipos ==
  ASSUME Tipos, NEW f \in Archivo, NEW k, NEW n, NEW d \in Dato, escribir_en_archivo(f, k, n, d)
  PROVE  Tipos'
  <1>1. Buffer([j \in 0 .. n - 1 |-> d])
      BY DEF Buffer
  <1>2. datos' \in [Byte -> Dato]
      BY <1>1, EscribirEsBuffer DEF escribir_en_archivo, Tipos, DiscoOK
  <1>3. DiscoOK'
      BY <1>2 DEF escribir_en_archivo, Tipos, DiscoOK
  <1> QED BY <1>3, ContestarTipos DEF escribir_en_archivo

LEMMA LeerTipos ==
  ASSUME Tipos, NEW f \in Archivo, NEW k, NEW n, leer_en_archivo(f, k, n)
  PROVE  Tipos'
  BY MorirTipos, ContestarTipos, DiscoIgual DEF leer_en_archivo, Tipos

LEMMA InexistenteTipos ==
  ASSUME Tipos, NEW f \in Archivo, archivo_inexistente(f)
  PROVE  Tipos'
  BY MorirTipos DEF archivo_inexistente

-----------------------------------------------------------------------------
(***************************************************************************)
(* Types: the writes of an order                                           *)
(***************************************************************************)
(* Steps that only take an index on leave the types as they are.           *)
LEMMA IndiceTipos ==
  ASSUME Tipos, DiscoOK', fase \notin {"reposo", "muerto", "recorrer"},
         fase' = fase, UNCHANGED <<metadata, vacias, compacta>>,
         \/ lazo' = [lazo EXCEPT !.i = @ + 1]
         \/ lazo' = [lazo EXCEPT !.hasta = @ - 1] /\ lazo.i < lazo.hasta
  PROVE  Tipos'
  <1>1. LazoOK'
      BY DEF Tipos, LazoOK
  <1>2. CompactaOK'
      BY DEF Tipos, CompactaOK
  <1> QED BY <1>1, <1>2 DEF Tipos

LEMMA OcuparTipos ==
  ASSUME Tipos, ocupar_bloque
  PROVE  Tipos'
  <1>1. fase \in {"reservar", "ocupar", "mudar ocupar", "poner ocupar"}
        /\ lazo.i < lazo.hasta /\ fase' = fase /\ lazo' = [lazo EXCEPT !.i = @ + 1]
        /\ UNCHANGED <<metadata, vacias, compacta>>
      BY DEF ocupar_bloque, Seguir
  <1>2. datos' \in [Byte -> Dato]
      BY LimpiarEsBuffer DEF ocupar_bloque, Tipos, DiscoOK
  <1>3. DiscoOK'
      BY <1>1, <1>2 DEF ocupar_bloque, Tipos, DiscoOK
  <1> QED BY <1>1, <1>3, IndiceTipos

LEMMA BorradoTipos ==
  ASSUME Tipos, liberar_bloque \/ RecortarBloque \/ limpiar_bloque
  PROVE  Tipos'
  <1>1. CASE liberar_bloque
    <2>1. DiscoOK'
        BY <1>1 DEF liberar_bloque, Tipos, DiscoOK
    <2> QED BY <1>1, <2>1, IndiceTipos DEF liberar_bloque, Seguir
  <1>2. CASE RecortarBloque
    <2>1. DiscoOK'
        BY <1>2 DEF RecortarBloque, Tipos, DiscoOK
    <2> QED BY <1>2, <2>1, IndiceTipos DEF RecortarBloque, Seguir
  <1>3. CASE limpiar_bloque
    <2>1. DiscoOK'
        BY <1>3, LimpiarEsBuffer DEF limpiar_bloque, Tipos, DiscoOK
    <2> QED BY <1>3, <2>1, IndiceTipos DEF limpiar_bloque, Seguir
  <1> QED BY <1>1, <1>2, <1>3

LEMMA FinDeLazoTipos ==
  ASSUME Tipos, FinDeLazo
  PROVE  Tipos'
  <1>1. DiscoOK'
      BY DiscoIgual DEF FinDeLazo, Tipos
  <1>2. UNCHANGED <<metadata, vacias, compacta>>
      BY DEF FinDeLazo, Seguir, disco
  <1>3. CASE fase = "liberar"
    <2>1. fase' = "limpiar" /\ lazo' = [lazo EXCEPT !.i = metadata[lazo.archivo].inicio]
        BY <1>3 DEF FinDeLazo, Seguir, Luego
    <2>2. metadata[lazo.archivo].inicio \in Nat
        BY <1>3 DEF Tipos, LazoOK, DiscoOK
    <2>3. LazoOK'
        BY <1>2, <1>3, <2>1, <2>2 DEF Tipos, LazoOK, FaseDeMudar
    <2> QED BY <1>1, <2>1, <2>3 DEF Tipos, CompactaOK, Fase, FaseDeCompactar
  <1>4. CASE fase # "liberar"
    <2>1. lazo' = lazo /\ fase \in {"reservar", "ocupar", "limpiar", "mudar ocupar", "poner ocupar"}
          /\ fase' = Luego(fase)
        BY <1>4 DEF FinDeLazo, Seguir
    <2>2. \/ fase = "reservar" /\ fase' = "abrir"
          \/ fase = "ocupar" /\ fase' = "guardar"
          \/ fase = "limpiar" /\ fase' = "quitar"
          \/ fase = "mudar ocupar" /\ fase' = "mudar escribir"
          \/ fase = "poner ocupar" /\ fase' = "poner escribir"
        BY <2>1 DEF Luego
    <2>3. LazoOK'
        BY <1>2, <2>1, <2>2 DEF Tipos, LazoOK, FaseDeMudar
    <2>4. CompactaOK'
        BY <1>2, <2>2 DEF Tipos, CompactaOK, FaseDeCompactar
    <2> QED BY <1>1, <2>2, <2>3, <2>4 DEF Tipos, Fase, FaseDeCompactar
  <1> QED BY <1>3, <1>4

LEMMA AbrirTipos ==
  ASSUME Tipos, AbrirMetadata
  PROVE  Tipos'
  <1>1. DiscoOK'
      BY DEF AbrirMetadata, Tipos, DiscoOK, LazoOK
  <1>2. LazoOK'
      BY DEF AbrirMetadata, Seguir, Tipos, LazoOK, FaseDeMudar
  <1> QED BY <1>1, <1>2 DEF AbrirMetadata, Seguir, Tipos, CompactaOK, Fase, FaseDeCompactar

LEMMA GuardarTipos ==
  ASSUME Tipos, GuardarMetadata \/ QuitarMetadata
  PROVE  Tipos'
  <1>1. CASE GuardarMetadata
    <2>1. DiscoOK'
        BY <1>1 DEF GuardarMetadata, Guardar, Tipos, DiscoOK, LazoOK
    <2> QED BY <1>1, <2>1, ContestarTipos DEF GuardarMetadata
  <1>2. CASE QuitarMetadata
    <2>1. DiscoOK'
        BY <1>2 DEF QuitarMetadata, Tipos, DiscoOK, LazoOK
    <2> QED BY <1>2, <2>1, ContestarTipos DEF QuitarMetadata
  <1> QED BY <1>1, <1>2

-----------------------------------------------------------------------------
(***************************************************************************)
(* Types: compaction                                                       *)
(***************************************************************************)
LEMMA FinDeSacarTipos ==
  ASSUME Tipos, FinDeSacar
  PROVE  Tipos'
  <1>1. DiscoOK' /\ UNCHANGED <<metadata, vacias>>
      BY DEF FinDeSacar, Tipos, DiscoOK
  <1>2. PICK n \in Nat : compacta' = [compacta EXCEPT !.libre = n]
    <2>1. (IF bitmap = Bloque THEN 0 ELSE PrimeroLibre) \in Nat
        BY HayPrimero DEF Tipos, DiscoOK
    <2> QED BY <2>1 DEF FinDeSacar
  <1>3. CompactaOK
      BY DEF Tipos
  <1>4. CompactaOK'
      BY <1>1, <1>2, <1>3 DEF FinDeSacar, CompactaOK, FaseDeCompactar
  <1> QED BY <1>1, <1>4 DEF FinDeSacar, Tipos, LazoOK, Fase, FaseDeCompactar

LEMMA MudarArchivoTipos ==
  ASSUME Tipos, MudarArchivo
  PROVE  Tipos'
  <1>1. DiscoOK' /\ UNCHANGED <<metadata, vacias>> /\ fase = "recorrer"
      BY DiscoIgual DEF MudarArchivo, Tipos, disco
  <1>2. CASE Morir
      BY <1>2, MorirTipos DEF MudarArchivo
  <1>3. CASE ~Morir
    <2>1. PICK f \in DOMAIN metadata :
            /\ fase' = "mudar"
            /\ lazo' = Lazo(f, compacta.libre, metadata[f].inicio, metadata[f])
            /\ compacta' = [compacta EXCEPT !.movio = TRUE, !.movido = Leido(metadata[f])]
        BY <1>3 DEF MudarArchivo, PorInicio
    <2>2. CompactaOK /\ compacta.libre \in Nat /\ DiscoOK
        BY <1>1 DEF Tipos, CompactaOK, FaseDeCompactar
    <2>3. metadata[f] \in [inicio: Nat, tam: Nat] /\ f \in Archivo
        BY <2>2 DEF DiscoOK
    <2>4. LazoOK'
        BY <1>1, <2>1, <2>2, <2>3 DEF LazoOK, Lazo
    <2>5. Buffer(Leido(metadata[f]))
        BY <2>2, LeidoEsBuffer
    <2>6. CompactaOK'
        BY <1>1, <2>1, <2>2, <2>5 DEF CompactaOK, FaseDeCompactar
    <2> QED BY <1>1, <2>1, <2>4, <2>6 DEF Tipos, Fase, FaseDeCompactar
  <1> QED BY <1>2, <1>3

LEMMA MudarMetadataTipos ==
  ASSUME Tipos, MudarMetadata
  PROVE  Tipos'
  <1>1. /\ fase = "mudar" /\ fase' = "mudar ocupar" /\ lazo' = lazo /\ UNCHANGED <<bitmap, datos, vacias, compacta>>
        /\ Guardar(lazo.archivo, [lazo.meta EXCEPT !.inicio = compacta.libre])
      BY DEF MudarMetadata, Seguir
  <1>2. lazo.archivo \in DOMAIN metadata /\ lazo.meta \in [inicio: Nat, tam: Nat] /\ compacta.libre \in Nat
      BY <1>1 DEF Tipos, LazoOK, CompactaOK, FaseDeMudar, FaseDeCompactar
  <1>3. [lazo.meta EXCEPT !.inicio = compacta.libre] \in [inicio: Nat, tam: Nat]
      BY <1>2
  <1>4. DOMAIN metadata' = DOMAIN metadata
      BY <1>1, <1>2 DEF Guardar
  <1>5. DiscoOK'
      BY <1>1, <1>2, <1>3 DEF Guardar, Tipos, DiscoOK
  <1>6. LazoOK'
      BY <1>1, <1>2, <1>4 DEF Tipos, LazoOK
  <1>7. CompactaOK'
      BY <1>1, <1>4 DEF Tipos, CompactaOK, FaseDeCompactar
  <1> QED BY <1>1, <1>5, <1>6, <1>7 DEF Tipos, Fase, FaseDeCompactar

LEMMA MudarDatosTipos ==
  ASSUME Tipos, MudarDatos
  PROVE  Tipos'
  <1>1. /\ fase = "mudar escribir" /\ fase' = "mudar liberar"
        /\ UNCHANGED <<bitmap, metadata, vacias, compacta>>
        /\ EscribirBytes(compacta.libre * TamBloque, compacta.movido)
      BY DEF MudarDatos, Seguir
  <1>2. lazo \in [archivo: Archivo, i: Nat, hasta: Nat, meta: [inicio: Nat, tam: Nat]]
      BY <1>1 DEF Tipos, LazoOK
  <1>3. compacta.libre \in Nat /\ BloquesDe(lazo.meta.tam) \in Nat /\ Buffer(compacta.movido)
      BY <1>1, <1>2, BloquesNat DEF Tipos, CompactaOK, FaseDeCompactar
  <1>4. PICK a, b \in Nat : lazo' = [lazo EXCEPT !.i = a, !.hasta = b]
    <2>1. compacta.libre + BloquesDe(lazo.meta.tam) \in Nat
          /\ lazo.meta.inicio + BloquesDe(lazo.meta.tam) \in Nat
        BY <1>2, <1>3
    <2> QED BY <2>1 DEF MudarDatos, Seguir
  <1>5. DiscoOK'
      BY <1>1, <1>3, EscribirEsBuffer DEF Tipos, DiscoOK
  <1>6. LazoOK'
      BY <1>1, <1>4 DEF Tipos, LazoOK, FaseDeMudar
  <1> QED BY <1>1, <1>5, <1>6 DEF Tipos, CompactaOK, Fase, FaseDeCompactar

LEMMA FinDeMudanzaTipos ==
  ASSUME Tipos, FinDeMudanza
  PROVE  Tipos'
  <1>1. DiscoOK' /\ UNCHANGED metadata /\ fase = "mudar liberar" /\ fase' = "recorrer"
      BY DiscoIgual DEF FinDeMudanza, Tipos, disco
  <1>2. compacta.libre \in Nat /\ BloquesDe(lazo.meta.tam) \in Nat
      BY <1>1, BloquesNat DEF Tipos, LazoOK, CompactaOK, FaseDeCompactar
  <1>3. PICK n \in Nat : compacta' = [compacta EXCEPT !.libre = n, !.movido = <<>>]
    <2>1. compacta.libre + BloquesDe(lazo.meta.tam) \in Nat
        BY <1>2
    <2> QED BY <2>1 DEF FinDeMudanza
  <1>4. Buffer(<<>>)
      BY DEF Buffer
  <1>5. CompactaOK'
      BY <1>1, <1>3, <1>4 DEF Tipos, CompactaOK, FaseDeCompactar
  <1> QED BY <1>1, <1>5 DEF Tipos, LazoOK, Fase, FaseDeCompactar

LEMMA FinDeRecorridoTipos ==
  ASSUME Tipos, FinDeRecorrido
  PROVE  Tipos'
  <1>1. CASE Morir
      BY <1>1, MorirTipos DEF FinDeRecorrido
  <1>2. CASE ~Morir
    <2>1. DiscoOK' /\ UNCHANGED <<metadata, vacias>> /\ fase = "recorrer"
        BY DiscoIgual DEF FinDeRecorrido, Tipos, disco
    <2>2. compacta.libre \in Nat /\ compacta.tam \in Nat /\ compacta.archivo \in Archivo
        BY <2>1, ConstantesOK DEF Tipos, CompactaOK, DiscoOK, FaseDeCompactar
    <2>3. compacta.libre + Techo(compacta.tam) \in Nat
        BY <2>2, TechoNat
    <2>4. PICK n \in Nat :
            Seguir("poner ocupar", Lazo(compacta.archivo, compacta.libre, n,
                                        [inicio |-> compacta.libre, tam |-> compacta.tam]))
        BY <1>2, <2>3 DEF FinDeRecorrido
    <2>5. LazoOK'
        BY <2>1, <2>2, <2>4 DEF Seguir, Lazo, LazoOK, FaseDeMudar
    <2> QED BY <2>1, <2>4, <2>5 DEF Seguir, Tipos, CompactaOK, Fase, FaseDeCompactar
  <1> QED BY <1>1, <1>2

LEMMA PonerDatosTipos ==
  ASSUME Tipos, PonerDatos
  PROVE  Tipos'
  <1>1. /\ fase = "poner escribir" /\ fase' = "guardar" /\ lazo' = lazo
        /\ UNCHANGED <<bitmap, metadata, vacias, compacta>>
        /\ EscribirBytes(compacta.libre * TamBloque, compacta.buffer)
      BY DEF PonerDatos, Seguir
  <1>2. Buffer(compacta.buffer)
      BY <1>1 DEF Tipos, CompactaOK, FaseDeCompactar
  <1>3. DiscoOK'
      BY <1>1, <1>2, EscribirEsBuffer DEF Tipos, DiscoOK
  <1> QED BY <1>1, <1>3 DEF Tipos, LazoOK, CompactaOK, Fase, FaseDeCompactar, FaseDeMudar

(* Every step keeps the types.                                             *)
LEMMA PasoTipos == Tipos /\ [Next]_vars => Tipos'
  <1> SUFFICES ASSUME Tipos, [Next]_vars PROVE Tipos'
      OBVIOUS
  <1>1. CASE Pedido
      BY <1>1, CrearTipos, BorrarTipos, AgrandarTipos, AchicarTipos,
         EscribirTipos, LeerTipos, InexistenteTipos DEF Pedido
  <1>2. CASE Paso
    <2>1. CASE FinDeRecorte
        BY <2>1, MorirTipos DEF FinDeRecorte
    <2> QED BY <1>2, <2>1, OcuparTipos, BorradoTipos, FinDeLazoTipos, AbrirTipos, GuardarTipos,
               FinDeSacarTipos, MudarArchivoTipos, MudarMetadataTipos, MudarDatosTipos,
               FinDeMudanzaTipos, FinDeRecorridoTipos, PonerDatosTipos DEF Paso
  <1>3. CASE Caer \/ CaerAlGuardar
      BY <1>3, MorirTipos, CaerAlGuardarTipos DEF Caer
  <1>4. CASE Reiniciar
      BY <1>4, DiscoIgual, ContestarTipos DEF Reiniciar, Tipos
  <1>5. CASE UNCHANGED vars
      BY <1>5 DEF vars, Tipos, DiscoOK, LazoOK, CompactaOK
  <1> QED BY <1>1, <1>2, <1>3, <1>4, <1>5 DEF Next

(* Every value is of its kind in every state that the interface reaches,   *)
(* killed and started again as often as it may be: an index of a loop is   *)
(* never negative and the file that an order is about is there.            *)
THEOREM SiempreTipos == Spec => []TypeOK
  <1>1. Spec => []Tipos
      BY InicioTipos, PasoTipos, PTL DEF Spec
  <1> QED BY <1>1, TiposImplicaTypeOK, PTL

-----------------------------------------------------------------------------
(***************************************************************************)
(* Blocks                                                                  *)
(***************************************************************************)
SinMudar == intacto => fase \notin FaseDeCompactar \cup {"recortar"}

\* The blocks that an order is taking are of no other file, and those behind
\* the index are taken already.
Apartado ==
  intacto /\ fase \in {"reservar", "abrir", "ocupar", "guardar"} =>
    /\ Extension(lazo.meta) \subseteq Bloque
    /\ \A g \in DOMAIN metadata \ {lazo.archivo} : Extension(metadata[g]) \cap Extension(lazo.meta) = {}
    /\ lazo.meta.inicio <= lazo.i /\ lazo.meta.inicio .. lazo.i - 1 \subseteq bitmap
    /\ lazo.hasta = lazo.meta.inicio + BloquesDe(lazo.meta.tam)
    /\ fase \in {"abrir", "guardar"} => lazo.hasta <= lazo.i

\* Nor are those that a deletion frees.
Liberado ==
  intacto /\ fase = "liberar" =>
    \A g \in DOMAIN metadata \ {lazo.archivo} : Extension(metadata[g]) \cap lazo.i .. lazo.hasta - 1 = {}

Bloques == SinMudar /\ Reservados /\ Disjuntos /\ Apartado /\ Liberado

IInv == Tipos /\ Bloques

LEMMA InicioBloques == Init => Bloques
  BY DEF Init, Bloques, SinMudar, Reservados, Disjuntos, Apartado, Liberado, Vigentes, FaseDeCompactar

(* Once the disk is damaged nothing is said of it.                         *)
LEMMA YaDanado == ~intacto' => Bloques'
  BY DEF Bloques, SinMudar, Reservados, Disjuntos, Apartado, Liberado

(* Files keep their blocks while the metadata is the same and no bit that  *)
(* they use is cleared.                                                    *)
LEMMA MismosArchivos ==
  ASSUME Bloques, intacto, UNCHANGED metadata, Vigentes' \subseteq Vigentes,
         \A f \in Vigentes' : \A b \in Extension(metadata[f]) : b \in bitmap => b \in bitmap'
  PROVE  Reservados' /\ Disjuntos'
  <1>1. \A f \in Vigentes' : Extension(metadata[f]) \subseteq bitmap'
      BY DEF Bloques, Reservados
  <1>2. \A f, g \in Vigentes' : f # g => Extension(metadata[f]) \cap Extension(metadata[g]) = {}
      BY DEF Bloques, Disjuntos
  <1> QED BY <1>1, <1>2 DEF Reservados, Disjuntos

(* An answer, or the end of the process, leaves them too.                  *)
LEMMA QuietoBloques ==
  ASSUME Bloques, UNCHANGED <<bitmap, metadata>>, fase' \in {"reposo", "muerto"},
         intacto' => intacto /\ fase \notin FaseDeDanar
  PROVE  Bloques'
  <1> SUFFICES ASSUME intacto' PROVE Bloques'
      BY YaDanado
  <1>1. Vigentes' = Vigentes /\ intacto
      BY DEF Vigentes, FaseDeDanar
  <1>2. Reservados' /\ Disjuntos'
      BY <1>1, MismosArchivos
  <1> QED BY <1>2 DEF Bloques, SinMudar, Apartado, Liberado, FaseDeCompactar

LEMMA MorirBloques ==
  ASSUME Bloques, Morir, UNCHANGED disco
  PROVE  Bloques'
  BY QuietoBloques DEF Morir, disco

\* The file whose metadata was being written is lost, and no other is touched.
LEMMA CaerAlGuardarBloques ==
  ASSUME Bloques, CaerAlGuardar
  PROVE  Bloques'
  <1> SUFFICES ASSUME intacto' PROVE Bloques'
      BY YaDanado
  <1>1. UNCHANGED bitmap /\ intacto /\ fase \in {"guardar", "mudar"} /\ fase' = "muerto"
        /\ metadata' = [g \in DOMAIN metadata \ {lazo.archivo} |-> metadata[g]]
      BY DEF CaerAlGuardar, Morir
  <1>2. Vigentes' \subseteq Vigentes /\ \A g \in Vigentes' : metadata'[g] = metadata[g]
      BY <1>1 DEF Vigentes
  <1>3. Reservados' /\ Disjuntos'
      BY <1>1, <1>2 DEF Bloques, Reservados, Disjuntos, Extension
  <1>4. SinMudar' /\ Apartado' /\ Liberado'
      BY <1>1 DEF SinMudar, Apartado, Liberado, FaseDeCompactar
  <1> QED BY <1>3, <1>4 DEF Bloques

LEMMA ContestarBloques ==
  ASSUME Bloques, UNCHANGED <<bitmap, metadata>>, fase \in {"reposo", "muerto"},
         NEW t, NEW f, NEW tam, NEW h, Contestar(t, f, tam, h)
  PROVE  Bloques'
  BY QuietoBloques DEF Contestar, FaseDeDanar, FaseDeCompactar

LEMMA CrearBloques ==
  ASSUME Tipos, Bloques, NEW f \in Archivo, crear_archivo(f)
  PROVE  Bloques'
  <1>1. UNCHANGED <<bitmap, metadata>> /\ fase = "reposo"
      BY DEF crear_archivo, disco
  <1>2. CASE f \in DOMAIN metadata \cup vacias \/ bitmap = Bloque
      BY <1>1, <1>2, ContestarBloques DEF crear_archivo
  <1>3. CASE ~(f \in DOMAIN metadata \cup vacias \/ bitmap = Bloque) /\ intacto'
    <2>1. PrimeroLibre \in Bloque /\ PrimeroLibre \notin bitmap /\ PrimeroLibre \in Nat
        BY <1>3, HayPrimero DEF Tipos, DiscoOK
    <2>2. PICK r : /\ r \in Bloque \ bitmap /\ r \in Nat
                   /\ Seguir("reservar", Lazo(f, r, r + 1, [inicio |-> r, tam |-> 0]))
        BY <1>3, <2>1 DEF crear_archivo
    <2>3. intacto /\ fase' = "reservar" /\ lazo'.i = r /\ lazo'.hasta = r + 1 /\ lazo'.archivo = f
          /\ lazo'.meta = [inicio |-> r, tam |-> 0]
        BY <1>3, <2>2 DEF Seguir, Lazo
    <2>4. Vigentes' = Vigentes /\ Vigentes = DOMAIN metadata
        BY <1>1, <2>3 DEF Vigentes
    <2>5. Reservados' /\ Disjuntos'
        BY <1>1, <2>3, <2>4, MismosArchivos
    <2>6. BloquesDe(0) = 1
        BY BloquesNat
    <2>7. Extension([inicio |-> r, tam |-> 0]) = {r}
        BY <2>2, <2>6 DEF Extension
    <2>8. \A g \in DOMAIN metadata : Extension(metadata[g]) \subseteq bitmap
        BY <2>3, <2>4 DEF Bloques, Reservados
    <2>9. Apartado'
        BY <1>1, <2>2, <2>3, <2>6, <2>7, <2>8 DEF Apartado
    <2> QED BY <2>3, <2>5, <2>9 DEF Bloques, SinMudar, Liberado, FaseDeCompactar
  <1> QED BY <1>2, <1>3, YaDanado

LEMMA BorrarBloques ==
  ASSUME Tipos, Bloques, NEW f \in Archivo, borrar_archivo(f)
  PROVE  Bloques'
  <1> SUFFICES ASSUME intacto' PROVE Bloques'
      BY YaDanado
  <1>1. UNCHANGED <<bitmap, metadata>> /\ fase = "reposo" /\ f \in DOMAIN metadata
      BY DEF borrar_archivo, disco
  <1>2. PICK m : m = metadata[f] /\ Seguir("liberar", Lazo(f, m.inicio, m.inicio + Techo(m.tam), m))
      BY DEF borrar_archivo
  <1>3. m \in [inicio: Nat, tam: Nat]
      BY <1>1, <1>2 DEF Tipos, DiscoOK
  <1>4. intacto /\ fase' = "liberar" /\ lazo'.archivo = f
        /\ lazo'.i = m.inicio /\ lazo'.hasta = m.inicio + Techo(m.tam)
      BY <1>2 DEF Seguir, Lazo
  <1>5. Vigentes' \subseteq Vigentes /\ Vigentes = DOMAIN metadata
      BY <1>1, <1>4 DEF Vigentes
  <1>6. Reservados' /\ Disjuntos'
      BY <1>1, <1>4, <1>5, MismosArchivos
  <1>7. m.inicio .. m.inicio + Techo(m.tam) - 1 \subseteq Extension(m)
      BY <1>3, TechoNat, BloquesNat DEF Extension
  <1>8. \A g \in DOMAIN metadata \ {f} : Extension(metadata[g]) \cap Extension(m) = {}
      BY <1>1, <1>2, <1>4, <1>5 DEF Bloques, Disjuntos
  <1>9. \A g \in DOMAIN metadata \ {f} :
          Extension(metadata[g]) \cap m.inicio .. m.inicio + Techo(m.tam) - 1 = {}
      BY <1>7, <1>8
  <1>10. Liberado'
    <2>1. lazo'.i .. lazo'.hasta - 1 = m.inicio .. m.inicio + Techo(m.tam) - 1
        BY <1>3, <1>4, TechoNat
    <2>2. \A g \in DOMAIN metadata \ {f} : Extension(metadata'[g]) \cap lazo'.i .. lazo'.hasta - 1 = {}
        BY <1>1, <1>9, <2>1
    <2> QED BY <1>1, <1>4, <2>2 DEF Liberado
  <1> QED BY <1>4, <1>6, <1>10 DEF Bloques, SinMudar, Apartado, FaseDeCompactar

(* Blocks that follow a file and are free may be taken for it.             *)
LEMMA AgrandarBloques ==
  ASSUME Tipos, Bloques, NEW f \in Archivo, NEW tam \in Tamanios, agrandar_archivo(f, tam)
  PROVE  Bloques'
  <1> SUFFICES ASSUME intacto' PROVE Bloques'
      BY YaDanado
  <1> DEFINE v       == metadata[f]
             agregar == BloquesDe(tam) - BloquesDe(v.tam)
             desde   == v.inicio + BloquesDe(v.tam)
             n       == [v EXCEPT !.tam = tam]
  <1>1. UNCHANGED <<bitmap, metadata>> /\ fase = "reposo" /\ f \in DOMAIN metadata
      BY DEF agrandar_archivo, disco
  <1>2. v \in [inicio: Nat, tam: Nat] /\ tam \in Nat
      BY <1>1, ConstantesOK DEF Tipos, DiscoOK
  <1>3. BloquesDe(v.tam) \in Nat /\ BloquesDe(tam) \in Nat
      BY <1>2, BloquesNat
  <1>4. n.inicio = v.inicio /\ n.tam = tam
      BY <1>2
  <1>5. CASE Contestar("agrandar", f, tam, FALSE)
      BY <1>1, <1>5, ContestarBloques
  <1>6. CASE /\ \A i \in desde .. desde + agregar - 1 : i \in Bloque \ bitmap
             /\ Seguir("ocupar", Lazo(f, desde, desde + agregar, n))
    <2>1. intacto /\ fase' = "ocupar" /\ lazo'.i = desde /\ lazo'.hasta = desde + agregar
          /\ lazo'.archivo = f /\ lazo'.meta = n
        BY <1>6 DEF Seguir, Lazo
    <2>2. Vigentes' = Vigentes /\ Vigentes = DOMAIN metadata
        BY <1>1, <2>1 DEF Vigentes
    <2>3. Reservados' /\ Disjuntos'
        BY <1>1, <2>1, <2>2, MismosArchivos
    <2>4. Extension(v) = v.inicio .. desde - 1 /\ Extension(v) \subseteq bitmap
      <3>1. \A g \in DOMAIN metadata : Extension(metadata[g]) \subseteq bitmap
          BY <2>1, <2>2 DEF Bloques, Reservados
      <3>2. Extension(v) = v.inicio .. desde - 1
        <4> HIDE DEF v
        <4> QED BY <1>2, <1>3 DEF Extension
      <3>3. Extension(v) \subseteq bitmap
          BY <1>1, <3>1
      <3> QED BY <3>2, <3>3
    <2>5. Extension(n) = n.inicio .. desde + agregar - 1
      <3> HIDE DEF v, n
      <3>1. n.inicio + BloquesDe(n.tam) - 1 = desde + agregar - 1
          BY <1>2, <1>3, <1>4
      <3> QED BY <3>1 DEF Extension
    <2>6. \A b \in Extension(n) : b \in Extension(v) \/ b \in desde .. desde + agregar - 1
        BY <1>2, <1>3, <1>4, <2>4, <2>5
    <2>7. Extension(n) \subseteq Bloque
        BY <1>6, <2>4, <2>6 DEF Tipos, DiscoOK
    <2>8. ASSUME NEW g \in DOMAIN metadata \ {f} PROVE Extension(metadata[g]) \cap Extension(n) = {}
      <3>1. Extension(metadata[g]) \subseteq bitmap /\ Extension(metadata[g]) \cap Extension(v) = {}
          BY <1>1, <2>1, <2>2 DEF Bloques, Reservados, Disjuntos
      <3> QED BY <1>6, <2>6, <3>1
    <2>9. desde + agregar = n.inicio + BloquesDe(n.tam) /\ n.inicio <= desde
        BY <1>2, <1>3, <1>4
    <2> HIDE DEF v, desde, agregar, n
    <2>10. n.inicio .. desde - 1 \subseteq bitmap
        BY <1>4, <2>4
    <2>11. Apartado'
        BY <1>1, <2>1, <2>7, <2>8, <2>9, <2>10 DEF Apartado
    <2> QED BY <2>1, <2>3, <2>11 DEF Bloques, SinMudar, Liberado, FaseDeCompactar
  <1>7. CASE intacto' = FALSE
      BY <1>7
  <1> HIDE DEF v, agregar, desde, n
  <1> QED BY <1>5, <1>6, <1>7 DEF agrandar_archivo, v, agregar, desde, n

LEMMA OtrosBloques ==
  ASSUME Tipos, Bloques, NEW f \in Archivo,
         \/ \E tam \in Tamanios : achicar_archivo(f, tam)
         \/ \E k \in Punteros, n \in Largos, d \in Dato : escribir_en_archivo(f, k, n, d)
         \/ \E k \in Punteros, n \in Largos : leer_en_archivo(f, k, n)
         \/ archivo_inexistente(f)
  PROVE  Bloques'
  <1>1. CASE \E tam \in Tamanios : achicar_archivo(f, tam)
      BY <1>1, YaDanado DEF achicar_archivo
  <1>2. CASE \E k \in Punteros, n \in Largos, d \in Dato : escribir_en_archivo(f, k, n, d)
      BY <1>2, ContestarBloques DEF escribir_en_archivo
  <1>3. CASE \E k \in Punteros, n \in Largos : leer_en_archivo(f, k, n)
      BY <1>3, MorirBloques, ContestarBloques DEF leer_en_archivo, disco
  <1>4. CASE archivo_inexistente(f)
      BY <1>4, MorirBloques DEF archivo_inexistente
  <1> QED BY <1>1, <1>2, <1>3, <1>4

-----------------------------------------------------------------------------
(***************************************************************************)
(* Blocks: the writes of an order                                          *)
(***************************************************************************)
LEMMA OcuparBloques ==
  ASSUME Tipos, Bloques, ocupar_bloque
  PROVE  Bloques'
  <1> SUFFICES ASSUME intacto' PROVE Bloques'
      BY YaDanado
  <1>1. /\ lazo.i < lazo.hasta /\ fase' = fase /\ lazo' = [lazo EXCEPT !.i = @ + 1] /\ intacto
        /\ UNCHANGED metadata /\ bitmap' = bitmap \cup ({lazo.i} \cap Bloque)
      BY DEF ocupar_bloque, Seguir
  <1>2. fase \in {"reservar", "ocupar"}
      BY <1>1 DEF ocupar_bloque, Bloques, SinMudar, FaseDeCompactar
  <1>3. lazo \in [archivo: Archivo, i: Nat, hasta: Nat, meta: [inicio: Nat, tam: Nat]]
      BY <1>2 DEF Tipos, LazoOK
  <1>4. Vigentes' = Vigentes
      BY <1>1, <1>2 DEF Vigentes
  <1>5. Reservados' /\ Disjuntos'
      BY <1>1, <1>4, MismosArchivos
  <1>6. lazo'.i = lazo.i + 1 /\ lazo'.hasta = lazo.hasta /\ lazo'.archivo = lazo.archivo
        /\ lazo'.meta = lazo.meta
      BY <1>1, <1>3
  <1>7. Apartado
      BY DEF Bloques
  <1>8. lazo.i \in Extension(lazo.meta)
      BY <1>1, <1>2, <1>3, <1>7, BloquesNat DEF Apartado, Extension
  <1>9. lazo.i \in bitmap'
      BY <1>1, <1>2, <1>7, <1>8 DEF Apartado
  <1>10. lazo'.meta.inicio .. lazo'.i - 1 \subseteq bitmap'
      BY <1>1, <1>2, <1>3, <1>6, <1>7, <1>9 DEF Apartado
  <1>11. lazo'.meta.inicio <= lazo'.i
      BY <1>1, <1>2, <1>3, <1>6, <1>7 DEF Apartado
  <1>12. Apartado'
      BY <1>1, <1>2, <1>6, <1>7, <1>10, <1>11 DEF Apartado
  <1> QED BY <1>1, <1>2, <1>5, <1>12 DEF Bloques, SinMudar, Liberado, FaseDeCompactar

LEMMA LiberarBloques ==
  ASSUME Tipos, Bloques, liberar_bloque \/ RecortarBloque \/ limpiar_bloque
  PROVE  Bloques'
  <1> SUFFICES ASSUME intacto' PROVE Bloques'
      BY YaDanado
  <1>1. CASE liberar_bloque
    <2>1. /\ lazo.i < lazo.hasta /\ fase' = fase /\ lazo' = [lazo EXCEPT !.i = @ + 1] /\ intacto
          /\ UNCHANGED metadata /\ bitmap' = bitmap \ {lazo.i}
        BY <1>1 DEF liberar_bloque, Seguir
    <2>2. fase = "liberar"
        BY <1>1, <2>1 DEF liberar_bloque, Bloques, SinMudar, FaseDeCompactar
    <2>3. lazo \in [archivo: Archivo, i: Nat, hasta: Nat, meta: [inicio: Nat, tam: Nat]]
        BY <2>2 DEF Tipos, LazoOK
    <2>4. lazo'.i = lazo.i + 1 /\ lazo'.hasta = lazo.hasta /\ lazo'.archivo = lazo.archivo
        BY <2>1, <2>3
    <2>5. Vigentes' = Vigentes /\ Vigentes = DOMAIN metadata \ {lazo.archivo}
        BY <2>1, <2>2, <2>4 DEF Vigentes
    <2>6. lazo.i \in lazo.i .. lazo.hasta - 1 /\ lazo'.i .. lazo'.hasta - 1 \subseteq lazo.i .. lazo.hasta - 1
        BY <2>1, <2>3, <2>4
    <2>7. \A g \in DOMAIN metadata \ {lazo.archivo} :
            Extension(metadata[g]) \cap lazo.i .. lazo.hasta - 1 = {}
        BY <2>1, <2>2 DEF Bloques, Liberado
    <2>8. Reservados' /\ Disjuntos'
        BY <2>1, <2>5, <2>6, <2>7, MismosArchivos
    <2>9. \A g \in DOMAIN metadata \ {lazo.archivo} :
            Extension(metadata[g]) \cap lazo'.i .. lazo'.hasta - 1 = {}
        BY <2>6, <2>7
    <2>10. Liberado'
        BY <2>1, <2>4, <2>9 DEF Liberado
    <2> QED BY <2>1, <2>2, <2>8, <2>10 DEF Bloques, SinMudar, Apartado, FaseDeCompactar
  <1>2. CASE RecortarBloque
      BY <1>2 DEF RecortarBloque, Seguir, Bloques, SinMudar
  <1>3. CASE limpiar_bloque
    <2>1. fase = "limpiar" /\ fase' = "limpiar" /\ UNCHANGED <<bitmap, metadata>> /\ intacto
          /\ lazo' = [lazo EXCEPT !.i = @ + 1]
        BY <1>3 DEF limpiar_bloque, Seguir
    <2>2. lazo'.archivo = lazo.archivo
        BY <2>1 DEF Tipos, LazoOK
    <2>3. Reservados' /\ Disjuntos'
        BY <2>1, <2>2, MismosArchivos DEF Vigentes
    <2> QED BY <2>1, <2>3 DEF Bloques, SinMudar, Apartado, Liberado, FaseDeCompactar
  <1> QED BY <1>1, <1>2, <1>3

LEMMA FinDeLazoBloques ==
  ASSUME Tipos, Bloques, FinDeLazo
  PROVE  Bloques'
  <1> SUFFICES ASSUME intacto' PROVE Bloques'
      BY YaDanado
  <1>1. UNCHANGED <<bitmap, metadata>> /\ intacto /\ lazo.i >= lazo.hasta
      BY DEF FinDeLazo, Seguir, disco
  <1>2. fase \in {"reservar", "ocupar", "liberar", "limpiar"}
      BY <1>1 DEF FinDeLazo, Bloques, SinMudar, FaseDeCompactar
  <1>3. CASE fase \in {"reservar", "ocupar"}
    <2>1. fase' \in {"abrir", "guardar"} /\ lazo' = lazo
        BY <1>3 DEF FinDeLazo, Luego, Seguir
    <2>2. Vigentes' = Vigentes
        BY <1>1, <1>3, <2>1 DEF Vigentes
    <2>3. Reservados' /\ Disjuntos'
        BY <1>1, <2>2, MismosArchivos
    <2>4. lazo \in [archivo: Archivo, i: Nat, hasta: Nat, meta: [inicio: Nat, tam: Nat]]
        BY <1>3 DEF Tipos, LazoOK
    <2>5. lazo.hasta <= lazo.i
        BY <1>1, <2>4
    <2>6. Apartado'
        BY <1>1, <1>3, <2>1, <2>5 DEF Bloques, Apartado
    <2> QED BY <2>1, <2>3, <2>6 DEF Bloques, SinMudar, Liberado, FaseDeCompactar
  <1>4. CASE fase \in {"liberar", "limpiar"}
    <2>1. fase' \in {"limpiar", "quitar"} /\ lazo'.archivo = lazo.archivo
        BY <1>4 DEF FinDeLazo, Luego, Seguir, Tipos, LazoOK
    <2>2. Reservados' /\ Disjuntos'
        BY <1>1, <1>4, <2>1, MismosArchivos DEF Vigentes
    <2> QED BY <2>1, <2>2 DEF Bloques, SinMudar, Apartado, Liberado, FaseDeCompactar
  <1> QED BY <1>2, <1>3, <1>4

LEMMA AbrirBloques ==
  ASSUME Tipos, Bloques, AbrirMetadata
  PROVE  Bloques'
  <1> SUFFICES ASSUME intacto' PROVE Bloques'
      BY YaDanado
  <1>1. UNCHANGED <<bitmap, metadata, lazo>> /\ intacto /\ fase = "abrir" /\ fase' = "guardar"
      BY DEF AbrirMetadata, Seguir
  <1>2. Vigentes' = Vigentes
      BY <1>1 DEF Vigentes
  <1>3. Reservados' /\ Disjuntos'
      BY <1>1, <1>2, MismosArchivos
  <1>4. Apartado'
      BY <1>1 DEF Bloques, Apartado
  <1> QED BY <1>1, <1>3, <1>4 DEF Bloques, SinMudar, Liberado, FaseDeCompactar

(* The metadata is written when every block that it tells of is taken.     *)
LEMMA GuardarBloques ==
  ASSUME Tipos, Bloques, GuardarMetadata
  PROVE  Bloques'
  <1> SUFFICES ASSUME intacto' PROVE Bloques'
      BY YaDanado
  <1>1. UNCHANGED bitmap /\ intacto /\ fase = "guardar" /\ fase' = "reposo"
        /\ Guardar(lazo.archivo, lazo.meta)
      BY DEF GuardarMetadata, Contestar
  <1>2. lazo \in [archivo: Archivo, i: Nat, hasta: Nat, meta: [inicio: Nat, tam: Nat]]
      BY <1>1 DEF Tipos, LazoOK
  <1>3. Vigentes' = DOMAIN metadata \cup {lazo.archivo} /\ Vigentes = DOMAIN metadata
      BY <1>1 DEF Guardar, Vigentes
  <1>4. metadata'[lazo.archivo] = lazo.meta
        /\ \A g \in DOMAIN metadata \ {lazo.archivo} : metadata'[g] = metadata[g]
      BY <1>1 DEF Guardar
  <1>5. Apartado
      BY DEF Bloques
  <1>6. Extension(lazo.meta) \subseteq bitmap
    <2>1. lazo.hasta <= lazo.i /\ lazo.hasta = lazo.meta.inicio + BloquesDe(lazo.meta.tam)
          /\ lazo.meta.inicio .. lazo.i - 1 \subseteq bitmap
        BY <1>1, <1>5 DEF Apartado
    <2>2. lazo.meta.inicio + BloquesDe(lazo.meta.tam) - 1 <= lazo.i - 1
          /\ lazo.meta.inicio \in Nat /\ BloquesDe(lazo.meta.tam) \in Nat /\ lazo.i \in Nat
        BY <1>2, <2>1, BloquesNat
    <2>3. lazo.meta.inicio .. lazo.meta.inicio + BloquesDe(lazo.meta.tam) - 1
            \subseteq lazo.meta.inicio .. lazo.i - 1
        BY <2>2
    <2> QED BY <2>1, <2>3 DEF Extension
  <1>7. \A g \in DOMAIN metadata \ {lazo.archivo} : Extension(metadata[g]) \subseteq bitmap
      BY <1>1, <1>3 DEF Bloques, Reservados
  <1>8. Reservados'
      BY <1>1, <1>3, <1>4, <1>6, <1>7 DEF Reservados
  <1>9. \A g \in DOMAIN metadata \ {lazo.archivo} : Extension(metadata[g]) \cap Extension(lazo.meta) = {}
      BY <1>1, <1>5 DEF Apartado
  <1>10. \A g, h \in DOMAIN metadata : g # h => Extension(metadata[g]) \cap Extension(metadata[h]) = {}
      BY <1>1, <1>3 DEF Bloques, Disjuntos
  <1>11. Disjuntos'
    <2> SUFFICES ASSUME NEW g \in Vigentes', NEW h \in Vigentes', g # h
                 PROVE  Extension(metadata'[g]) \cap Extension(metadata'[h]) = {}
        BY DEF Disjuntos
    <2>1. CASE g = lazo.archivo
        BY <1>3, <1>4, <1>9, <2>1
    <2>2. CASE h = lazo.archivo
        BY <1>3, <1>4, <1>9, <2>2
    <2>3. CASE g # lazo.archivo /\ h # lazo.archivo
        BY <1>3, <1>4, <1>10, <2>3
    <2> QED BY <2>1, <2>2, <2>3
  <1> QED BY <1>1, <1>8, <1>11 DEF Bloques, SinMudar, Apartado, Liberado, FaseDeCompactar

LEMMA QuitarBloques ==
  ASSUME Tipos, Bloques, QuitarMetadata
  PROVE  Bloques'
  <1> SUFFICES ASSUME intacto' PROVE Bloques'
      BY YaDanado
  <1>1. UNCHANGED bitmap /\ intacto /\ fase = "quitar" /\ fase' = "reposo"
        /\ metadata' = [g \in DOMAIN metadata \ {lazo.archivo} |-> metadata[g]]
      BY DEF QuitarMetadata, Contestar
  <1>2. Vigentes' = Vigentes /\ \A g \in Vigentes : metadata'[g] = metadata[g]
      BY <1>1 DEF Vigentes
  <1>3. Reservados'
      BY <1>1, <1>2 DEF Bloques, Reservados
  <1>4. Disjuntos'
      BY <1>1, <1>2 DEF Bloques, Disjuntos
  <1> QED BY <1>1, <1>3, <1>4 DEF Bloques, SinMudar, Apartado, Liberado, FaseDeCompactar

(* A compaction and a shrinking have damaged the disk before they start,   *)
(* and nothing mends it.                                                   *)
LEMMA CompactarBloques ==
  ASSUME Bloques, fase \in FaseDeCompactar \cup {"recortar"}, intacto' => intacto
  PROVE  Bloques'
  BY YaDanado DEF Bloques, SinMudar

LEMMA CompactacionBloques ==
  ASSUME Bloques,
         \/ FinDeSacar \/ MudarArchivo \/ MudarMetadata \/ MudarDatos \/ FinDeMudanza
         \/ FinDeRecorrido \/ PonerDatos \/ FinDeRecorte
  PROVE  Bloques'
  <1>1. fase \in FaseDeCompactar \cup {"recortar"}
      BY DEF FinDeSacar, MudarArchivo, MudarMetadata, MudarDatos, FinDeMudanza,
             FinDeRecorrido, PonerDatos, FinDeRecorte, FaseDeCompactar
  <1>2. intacto' => intacto
      BY DEF FinDeSacar, MudarArchivo, MudarMetadata, MudarDatos, FinDeMudanza,
             FinDeRecorrido, PonerDatos, FinDeRecorte, Seguir, Morir
  <1> QED BY <1>1, <1>2, CompactarBloques

(* Every step keeps the blocks apart.                                      *)
LEMMA PasoBloques == Tipos /\ Bloques /\ [Next]_vars => Bloques'
  <1> SUFFICES ASSUME Tipos, Bloques, [Next]_vars PROVE Bloques'
      OBVIOUS
  <1>1. CASE Pedido
      BY <1>1, CrearBloques, BorrarBloques, AgrandarBloques, OtrosBloques DEF Pedido
  <1>2. CASE Paso
      BY <1>2, OcuparBloques, LiberarBloques, FinDeLazoBloques, AbrirBloques, GuardarBloques,
         QuitarBloques, CompactacionBloques DEF Paso
  <1>3. CASE Caer \/ CaerAlGuardar
      BY <1>3, MorirBloques, CaerAlGuardarBloques DEF Caer
  <1>4. CASE Reiniciar
      BY <1>4, ContestarBloques DEF Reiniciar, disco
  <1>5. CASE UNCHANGED vars
      BY <1>5 DEF vars, Bloques, SinMudar, Reservados, Disjuntos, Apartado, Liberado, Vigentes
  <1> QED BY <1>1, <1>2, <1>3, <1>4, <1>5 DEF Next

LEMMA SiempreIInv == Spec => []IInv
  BY InicioTipos, PasoTipos, InicioBloques, PasoBloques, PTL DEF Spec, IInv

(* Until a compaction or a shrink starts, or a deletion is cut short: for  *)
(* any disk and any moment in which the interface is killed while it       *)
(* creates a file or grows one in its place, no file is left with a block  *)
(* that the bitmap says is free.  The blocks are taken before the metadata *)
(* tells of them, and freed only by the deletion of the file.              *)
THEOREM SiempreReservados == Spec => []Reservados
  <1>1. IInv => Reservados
      BY DEF IInv, Bloques
  <1> QED BY <1>1, SiempreIInv, PTL

(* Nor do two files share a block until then: the ones an order takes were *)
(* free when it began, and no other order runs until it is answered or the *)
(* process is killed.                                                      *)
THEOREM SiempreDisjuntos == Spec => []Disjuntos
  <1>1. IInv => Disjuntos
      BY DEF IInv, Bloques
  <1> QED BY <1>1, SiempreIInv, PTL
-----------------------------------------------------------------------------
(***************************************************************************)
(* The bitmap and the metadata                                             *)
(***************************************************************************)
(* Blocks of the files of M that are not in F, and that those share none.  *)
DeOtros(M, F) == UNION {Extension(M[g]) : g \in DOMAIN M \ F}

Separados(M, F) ==
  \A g, h \in DOMAIN M \ F : g # h => Extension(M[g]) \cap Extension(M[h]) = {}

(* The bitmap has those and P, and a range is of none of them.             *)
Reparto(F, P) == Separados(metadata, F) /\ bitmap = DeOtros(metadata, F) \cup P
Lugar(F, P) == P \subseteq Bloque \ DeOtros(metadata, F)

FaseDeCrecer == {"reservar", "abrir", "ocupar", "guardar", "poner ocupar", "poner escribir"}

Fin(m) == m.inicio + BloquesDe(m.tam)

(* A file that is being made or grown has the blocks up to the loop's      *)
(* index, and the rest of its place is free.                               *)
Crece(l) ==
  /\ Reparto({l.archivo}, l.meta.inicio .. l.i - 1)
  /\ Lugar({l.archivo}, Extension(l.meta))
  /\ l.hasta = Fin(l.meta) /\ l.meta.inicio <= l.i /\ l.i <= l.hasta

AlCrecer ==
  /\ fase \in FaseDeCrecer => Crece(lazo)
  /\ fase \in {"abrir", "guardar", "poner escribir"} => lazo.i = lazo.hasta

(* One that is being deleted, or taken out, those from the index on.       *)
Suelta(l) == Reparto({l.archivo}, l.i .. l.hasta - 1) /\ Lugar({l.archivo}, l.i .. l.hasta - 1)

AlSoltar ==
  /\ fase \in {"liberar", "sacar"} => Suelta(lazo)
  /\ fase \in {"limpiar", "quitar"} => Reparto({lazo.archivo}, {})

(* There is room for the file that was taken out, by what the others have. *)
Caben(F, n) == Cardinality(DeOtros(metadata, F)) + n + BloquesDe(compacta.tam) <= CantBloques

(* A file is all before the block b or from the block c on, where the one  *)
(* that was taken out does not start.                                      *)
Partidos(M, F, x, b, c) ==
  \A g \in DOMAIN M \ F :
    Fin(M[g]) <= b \/ (M[g].inicio >= c /\ M[x].inicio \notin Extension(M[g]))

ConTamanio == fase \in {"sacar", "recorrer"} \cup FaseDeMudar => compacta.tam > 0

AlSacar ==
  fase = "sacar" =>
    /\ lazo.archivo = compacta.archivo /\ Caben({compacta.archivo}, 0)
    /\ metadata[compacta.archivo].inicio \notin DeOtros(metadata, {compacta.archivo})

(* Between two files, what is before the first free block is full.         *)
Recorre(x, b) ==
  /\ Reparto({x}, {}) /\ Caben({x}, 0) /\ Partidos(metadata, {x}, x, b, b + 1)
  /\ 0 .. b - 1 \subseteq DeOtros(metadata, {x}) /\ Lugar({x}, {b})

AlRecorrer == fase = "recorrer" => Recorre(compacta.archivo, compacta.libre)

(* A file moves to the first free block b, over what is free and its own   *)
(* blocks: until it is there,                                              *)
Muda(f, x, b, s, n) ==
  /\ f # x /\ b < s /\ Separados(metadata, {f, x}) /\ Caben({f, x}, n)
  /\ Partidos(metadata, {f, x}, x, b, s + n)
  /\ 0 .. b - 1 \subseteq DeOtros(metadata, {f, x}) /\ Lugar({f, x}, b .. s + n - 1)

(* and what the bitmap has meanwhile.                                      *)
Mudado(f, x, b, s, n, i, hasta, m) ==
  /\ fase = "mudar" =>
       /\ Reparto({f, x}, s .. s + n - 1) /\ i = b /\ hasta = s /\ metadata[f] = m
  /\ fase # "mudar" => metadata[f] = [m EXCEPT !.inicio = b]
  /\ fase = "mudar ocupar" =>
       Reparto({f, x}, (b .. i - 1) \cup (s .. s + n - 1)) /\ hasta = s /\ b <= i /\ i <= s
  /\ fase = "mudar escribir" => Reparto({f, x}, b .. s + n - 1)
  /\ fase = "mudar liberar" =>
       Reparto({f, x}, (b .. b + n - 1) \cup (i .. s + n - 1)) /\ hasta = s + n /\ b + n <= i /\ i <= s + n

AlMudar ==
  fase \in FaseDeMudar =>
    LET b == compacta.libre
        s == lazo.meta.inicio
        n == BloquesDe(lazo.meta.tam)
    IN /\ Muda(lazo.archivo, compacta.archivo, b, s, n)
       /\ Mudado(lazo.archivo, compacta.archivo, b, s, n, lazo.i, lazo.hasta, lazo.meta)

EnReposo == fase = "reposo" => Reparto({}, {})

(* What BitmapCoherente needs to be kept by every step.                    *)
BInv ==
  Tipos /\ EnReposo /\ AlCrecer /\ AlSoltar /\ ConTamanio /\ AlSacar /\ AlRecorrer /\ AlMudar

-----------------------------------------------------------------------------
(* A file has one block at least, those of its size unless it is empty,    *)
LEMMA BloquesPositivo ==
  ASSUME NEW t \in Nat
  PROVE  BloquesDe(t) \in Nat /\ BloquesDe(t) >= 1 /\ (t > 0 => BloquesDe(t) = Techo(t))
  <1>1. CASE t = 0
      BY <1>1 DEF BloquesDe
  <1>2. CASE t > 0
    <2> DEFINE q == (t + TamBloque - 1) \div TamBloque
    <2>1. TamBloque \in Nat /\ TamBloque >= 1
        BY ConstantesOK
    <2>2. q \in Int /\ t + TamBloque - 1 < (q + 1) * TamBloque
        BY <2>1, SMTT(30)
    <2>3. q >= 1
      <3>1. SUFFICES ASSUME q + 1 <= 1 PROVE FALSE
          BY <2>2
      <3>2. (q + 1) * TamBloque <= 1 * TamBloque
          BY <2>1, <2>2, <3>1, SMTT(30)
      <3> QED BY <1>2, <2>1, <2>2, <3>2
    <2>4. BloquesDe(t) = Techo(t) /\ Techo(t) = q
        BY <1>2 DEF BloquesDe, Techo
    <2> HIDE DEF q
    <2> QED BY <2>2, <2>3, <2>4
  <1> QED BY <1>1, <1>2

(* and not fewer when it grows.                                            *)
LEMMA BloquesCrecen ==
  ASSUME NEW t \in Nat, NEW u \in Nat, t <= u
  PROVE  BloquesDe(t) <= BloquesDe(u)
  <1> DEFINE p == (t + TamBloque - 1) \div TamBloque
             q == (u + TamBloque - 1) \div TamBloque
  <1>1. TamBloque \in Nat /\ TamBloque >= 1
      BY ConstantesOK
  <1>2. p \in Int /\ p * TamBloque <= t + TamBloque - 1
      BY <1>1, SMTT(30)
  <1>3. q \in Int /\ u + TamBloque - 1 < (q + 1) * TamBloque
      BY <1>1, SMTT(30)
  <1>4. p <= q
    <2>1. SUFFICES ASSUME p >= q + 1 PROVE FALSE
        BY <1>2, <1>3
    <2>2. (q + 1) * TamBloque <= p * TamBloque
        BY <1>1, <1>2, <1>3, <2>1, SMTT(30)
    <2> QED BY <1>1, <1>2, <1>3, <2>2
  <1>5. Techo(t) = p /\ Techo(u) = q
      BY DEF Techo
  <1> HIDE DEF p, q
  <1>6. CASE t = 0
      BY <1>6, BloquesPositivo DEF BloquesDe
  <1>7. CASE t > 0
      BY <1>2, <1>3, <1>4, <1>5, <1>7 DEF BloquesDe
  <1> QED BY <1>6, <1>7

LEMMA RangoCardinal ==
  ASSUME NEW a \in Nat, NEW n \in Nat
  PROVE  IsFiniteSet(a .. a + n - 1) /\ Cardinality(a .. a + n - 1) = n
  <1>1. a \in Int /\ a + n - 1 \in Int
      OBVIOUS
  <1>2. IsFiniteSet(a .. a + n - 1)
        /\ Cardinality(a .. a + n - 1) = IF a > a + n - 1 THEN 0 ELSE a + n - 1 - a + 1
      BY <1>1, FS_Interval
  <1> QED BY <1>2

LEMMA BloqueCardinal == IsFiniteSet(Bloque) /\ Cardinality(Bloque) = CantBloques
  <1>1. 0 \in Nat /\ CantBloques \in Nat /\ Bloque = 0 .. 0 + CantBloques - 1
      BY ConstantesOK DEF Bloque
  <1> QED BY <1>1, RangoCardinal

(* The blocks of a file are those from its first up to Fin.                *)
LEMMA ExtensionEs ==
  ASSUME NEW m \in [inicio: Nat, tam: Nat]
  PROVE  /\ BloquesDe(m.tam) \in Nat /\ BloquesDe(m.tam) >= 1
         /\ m.inicio \in Nat /\ Fin(m) \in Nat /\ Fin(m) = m.inicio + BloquesDe(m.tam)
         /\ Extension(m) = m.inicio .. m.inicio + BloquesDe(m.tam) - 1
         /\ m.inicio \in Extension(m) /\ Extension(m) \subseteq Nat
  <1>1. BloquesDe(m.tam) \in Nat /\ BloquesDe(m.tam) >= 1
      BY BloquesPositivo
  <1> QED BY <1>1 DEF Extension, Fin

(* A file among the others, and one that is not.                           *)
LEMMA DeMas ==
  ASSUME NEW M, NEW F, NEW f \in DOMAIN M \ F
  PROVE  /\ DeOtros(M, F) = DeOtros(M, F \cup {f}) \cup Extension(M[f])
         /\ Separados(M, F) <=> Separados(M, F \cup {f}) /\ Extension(M[f]) \cap DeOtros(M, F \cup {f}) = {}
  <1>1. DOMAIN M \ F = (DOMAIN M \ (F \cup {f})) \cup {f}
      OBVIOUS
  <1>2. DeOtros(M, F) = DeOtros(M, F \cup {f}) \cup Extension(M[f])
      BY <1>1 DEF DeOtros
  <1>3. ASSUME Separados(M, F)
        PROVE  Separados(M, F \cup {f}) /\ Extension(M[f]) \cap DeOtros(M, F \cup {f}) = {}
      BY <1>1, <1>3 DEF Separados, DeOtros
  <1>4. ASSUME Separados(M, F \cup {f}), Extension(M[f]) \cap DeOtros(M, F \cup {f}) = {}
        PROVE  Separados(M, F)
    <2>1. \A g \in DOMAIN M \ (F \cup {f}) : Extension(M[f]) \cap Extension(M[g]) = {}
        BY <1>4 DEF DeOtros
    <2> QED BY <1>1, <1>4, <2>1 DEF Separados
  <1> QED BY <1>2, <1>3, <1>4

LEMMA TodosYUno ==
  ASSUME NEW M, NEW f \in DOMAIN M
  PROVE  /\ DeOtros(M, {}) = DeOtros(M, {f}) \cup Extension(M[f])
         /\ Separados(M, {}) => Separados(M, {f}) /\ Extension(M[f]) \cap DeOtros(M, {f}) = {}
         /\ Separados(M, {f}) /\ Extension(M[f]) \cap DeOtros(M, {f}) = {} => Separados(M, {})
  <1>1. f \in DOMAIN M \ {} /\ {} \cup {f} = {f}
      OBVIOUS
  <1>2. /\ DeOtros(M, {}) = DeOtros(M, {} \cup {f}) \cup Extension(M[f])
        /\ Separados(M, {}) <=> Separados(M, {} \cup {f}) /\ Extension(M[f]) \cap DeOtros(M, {} \cup {f}) = {}
      BY <1>1, DeMas
  <1> QED BY <1>1, <1>2

(* What F's metadata says does not matter.                                 *)
LEMMA DeIgual ==
  ASSUME NEW M, NEW N, NEW F, NEW G, DOMAIN M \ F = DOMAIN N \ G,
         \A g \in DOMAIN M \ F : M[g] = N[g]
  PROVE  /\ DeOtros(M, F) = DeOtros(N, G)
         /\ Separados(M, F) <=> Separados(N, G)
  BY DEF DeOtros, Separados

LEMMA DeUno ==
  ASSUME NEW M, NEW F, NEW g \in DOMAIN M \ F
  PROVE  Extension(M[g]) \subseteq DeOtros(M, F)
  BY DEF DeOtros

-----------------------------------------------------------------------------
(***************************************************************************)
(* What the invariant says of each phase                                   *)
(***************************************************************************)
LEMMA Reposa ==
  ASSUME Tipos', fase' = "reposo", Reparto({}, {})'
  PROVE  BInv'
  BY DEF BInv, EnReposo, AlCrecer, AlSoltar, ConTamanio, AlSacar, AlRecorrer, AlMudar,
         FaseDeCrecer, FaseDeMudar

LEMMA NadaDice ==
  ASSUME Tipos', fase' \in {"muerto", "recortar"}
  PROVE  BInv'
  BY DEF BInv, EnReposo, AlCrecer, AlSoltar, ConTamanio, AlSacar, AlRecorrer, AlMudar,
         FaseDeCrecer, FaseDeMudar

LEMMA EstaCreciendo ==
  ASSUME Tipos', fase' \in FaseDeCrecer, Crece(lazo)',
         fase' \in {"abrir", "guardar", "poner escribir"} => lazo'.i = lazo'.hasta
  PROVE  BInv'
  BY DEF BInv, EnReposo, AlCrecer, AlSoltar, ConTamanio, AlSacar, AlRecorrer, AlMudar,
         FaseDeCrecer, FaseDeMudar

LEMMA EstaLiberando ==
  ASSUME Tipos', fase' = "liberar", Suelta(lazo)'
  PROVE  BInv'
  BY DEF BInv, EnReposo, AlCrecer, AlSoltar, ConTamanio, AlSacar, AlRecorrer, AlMudar,
         FaseDeCrecer, FaseDeMudar

LEMMA EstaBorrando ==
  ASSUME Tipos', fase' \in {"limpiar", "quitar"}, Reparto({lazo.archivo}, {})'
  PROVE  BInv'
  BY DEF BInv, EnReposo, AlCrecer, AlSoltar, ConTamanio, AlSacar, AlRecorrer, AlMudar,
         FaseDeCrecer, FaseDeMudar

LEMMA EstaSacando ==
  ASSUME Tipos', fase' = "sacar", Suelta(lazo)', ConTamanio', AlSacar'
  PROVE  BInv'
  BY DEF BInv, EnReposo, AlCrecer, AlSoltar, AlRecorrer, AlMudar, FaseDeCrecer, FaseDeMudar

LEMMA EstaRecorriendo ==
  ASSUME Tipos', fase' = "recorrer", ConTamanio', AlRecorrer'
  PROVE  BInv'
  BY DEF BInv, EnReposo, AlCrecer, AlSoltar, AlSacar, AlMudar, FaseDeCrecer, FaseDeMudar

LEMMA EstaMudando ==
  ASSUME Tipos', fase' \in FaseDeMudar, ConTamanio', AlMudar'
  PROVE  BInv'
  BY DEF BInv, EnReposo, AlCrecer, AlSoltar, AlSacar, AlRecorrer, FaseDeCrecer, FaseDeMudar

LEMMA InicioBitmap == Init => BInv
  <1> SUFFICES ASSUME Init PROVE BInv
      OBVIOUS
  <1>1. Tipos
      BY InicioTipos
  <1>2. DOMAIN metadata = {}
      BY DEF Init
  <1>3. Reparto({}, {})
      BY <1>2 DEF Init, Reparto, Separados, DeOtros
  <1> QED BY <1>1, <1>3 DEF Init, BInv, EnReposo, AlCrecer, AlSoltar, ConTamanio, AlSacar, AlRecorrer,
         AlMudar, FaseDeCrecer, FaseDeMudar

-----------------------------------------------------------------------------
(***************************************************************************)
(* The bitmap and the metadata: orders                                     *)
(***************************************************************************)
(* An order that leaves bitmap and metadata as they are.                   *)
LEMMA SigueEnReposo ==
  ASSUME BInv, fase = "reposo", Tipos', fase' = "reposo", UNCHANGED <<bitmap, metadata>>
  PROVE  BInv'
  <1>1. Reparto({}, {})'
      BY DEF BInv, EnReposo, Reparto
  <1> QED BY <1>1, Reposa

LEMMA CrearBitmap ==
  ASSUME BInv, Tipos', NEW f \in Archivo, crear_archivo(f)
  PROVE  BInv'
  <1>1. CASE f \in DOMAIN metadata \cup vacias \/ bitmap = Bloque
      BY <1>1, SigueEnReposo DEF crear_archivo, Contestar, disco
  <1>2. CASE ~(f \in DOMAIN metadata \cup vacias \/ bitmap = Bloque)
    <2>1. Tipos /\ bitmap \subseteq Bloque /\ Reparto({}, {}) /\ UNCHANGED <<bitmap, metadata>>
        BY DEF BInv, EnReposo, Tipos, DiscoOK, crear_archivo, disco
    <2>2. PICK p \in Nat : p = PrimeroLibre /\ p \in Bloque /\ p \notin bitmap
        BY <1>2, <2>1, HayPrimero
    <2>3. fase' = "reservar" /\ lazo' = [archivo |-> f, i |-> p, hasta |-> p + 1, meta |-> [inicio |-> p, tam |-> 0]]
        BY <1>2, <2>2 DEF crear_archivo, Seguir, Lazo
    <2>4. PICK m \in [inicio: Nat, tam: Nat] : m = [inicio |-> p, tam |-> 0] /\ m.inicio = p /\ BloquesDe(m.tam) = 1
      <3>1. [inicio |-> p, tam |-> 0] \in [inicio: Nat, tam: Nat] /\ [inicio |-> p, tam |-> 0].tam = 0
            /\ [inicio |-> p, tam |-> 0].inicio = p
          OBVIOUS
      <3>2. BloquesDe(0) = 1
          BY DEF BloquesDe
      <3> QED BY <3>1, <3>2
    <2>5. Extension(m) = {p} /\ Fin(m) = p + 1
        BY <2>4, ExtensionEs
    <2>6. DOMAIN metadata \ {} = DOMAIN metadata \ {f}
        BY <1>2
    <2>7. DeOtros(metadata, {f}) = bitmap /\ Separados(metadata, {f})
        BY <2>1, <2>6, DeIgual DEF Reparto
    <2>8. lazo'.archivo = f /\ lazo'.i = p /\ lazo'.hasta = p + 1 /\ lazo'.meta = m
        BY <2>3, <2>4
    <2>9. p .. p - 1 = {}
        OBVIOUS
    <2>10. Reparto({f}, m.inicio .. p - 1)' /\ Lugar({f}, Extension(m))'
        BY <2>1, <2>2, <2>4, <2>5, <2>7, <2>9 DEF Reparto, Lugar
    <2>11. Crece(lazo)'
        BY <2>4, <2>5, <2>8, <2>10 DEF Crece
    <2> QED BY <2>3, <2>11, EstaCreciendo DEF FaseDeCrecer
  <1> QED BY <1>1, <1>2

(* Nobody asks to delete a file of size 0, whose block would stay taken.   *)
SinBorrarVacios == "borrar vacio" \notin Ordenes

LEMMA BorrarBitmap ==
  ASSUME SinBorrarVacios, BInv, Tipos', NEW f \in Archivo, borrar_archivo(f)
  PROVE  BInv'
  <1>0. PICK m \in [inicio: Nat, tam: Nat] : m = metadata[f]
      BY DEF BInv, Tipos, DiscoOK, borrar_archivo
  <1>1. bitmap \subseteq Bloque /\ Reparto({}, {}) /\ UNCHANGED <<bitmap, metadata>> /\ f \in DOMAIN metadata
        /\ m \in [inicio: Nat, tam: Nat]
      BY <1>0 DEF BInv, EnReposo, Tipos, DiscoOK, borrar_archivo, disco
  <1>2. m.tam > 0 /\ m.tam \in Nat
    <2>1. m.tam # 0
        BY <1>0 DEF borrar_archivo, SinBorrarVacios
    <2>2. m.tam \in Nat
        BY <1>1
    <2> QED BY <2>1, <2>2
  <1>3. Techo(m.tam) = BloquesDe(m.tam)
      BY <1>2, BloquesPositivo
  <1>4. PICK n \in Nat : n = BloquesDe(m.tam)
      BY <1>2, BloquesPositivo
  <1>5. fase' = "liberar" /\ lazo' = Lazo(f, m.inicio, m.inicio + n, m)
      BY <1>0, <1>3, <1>4 DEF borrar_archivo, Seguir
  <1>6. lazo'.archivo = f /\ lazo'.i = m.inicio /\ lazo'.hasta = m.inicio + n
      BY <1>5 DEF Lazo
  <1>7. Extension(m) = m.inicio .. m.inicio + n - 1
      BY <1>1, <1>4, ExtensionEs
  <1>8. f \in DOMAIN metadata \ {} /\ {} \cup {f} = {f}
      BY <1>1
  <1>9. /\ DeOtros(metadata, {}) = DeOtros(metadata, {f}) \cup Extension(m)
        /\ Separados(metadata, {}) =>
             Separados(metadata, {f}) /\ Extension(m) \cap DeOtros(metadata, {f}) = {}
      BY <1>0, <1>8, TodosYUno
  <1>10. Reparto({f}, m.inicio .. m.inicio + n - 1)' /\ Lugar({f}, m.inicio .. m.inicio + n - 1)'
      BY <1>1, <1>7, <1>9 DEF Reparto, Lugar
  <1>11. Suelta(lazo)'
    <2>1. PICK a, b : a = lazo'.i /\ b = lazo'.hasta - 1 /\ a = m.inicio /\ b = m.inicio + n - 1
        BY <1>6
    <2>2. Reparto({f}, a .. b)' /\ Lugar({f}, a .. b)'
        BY <1>10, <2>1
    <2> QED BY <1>6, <2>1, <2>2 DEF Suelta
  <1> QED BY <1>5, <1>11, EstaLiberando

(* An order that is about the loop l.                                      *)
PasaAOcupar(l) == fase = "reposo" /\ fase' = "ocupar" /\ UNCHANGED <<bitmap, metadata>> /\ lazo' = l
PasaASacar(l) == fase = "reposo" /\ fase' = "sacar" /\ UNCHANGED <<bitmap, metadata>> /\ lazo' = l

(* In its place: the blocks that follow the file's are free.               *)
LEMMA AgrandarEnSuLugar ==
  ASSUME BInv, Tipos', NEW f \in DOMAIN metadata,
         NEW m \in [inicio: Nat, tam: Nat], m = metadata[f], NEW tam \in Nat, tam > m.tam,
         NEW h \in Nat, h = m.inicio + BloquesDe(tam),
         \A i \in Fin(m) .. h - 1 : i \in Bloque \ bitmap,
         PasaAOcupar(Lazo(f, Fin(m), h, [m EXCEPT !.tam = tam]))
  PROVE  BInv'
  <1>1. bitmap \subseteq Bloque /\ Reparto({}, {})
      BY DEF BInv, EnReposo, Tipos, DiscoOK, PasaAOcupar
  <1>2. PICK n \in Nat : n = BloquesDe(m.tam) /\ Fin(m) = m.inicio + n /\ Fin(m) \in Nat
                         /\ Extension(m) = m.inicio .. m.inicio + n - 1 /\ n >= 1
      BY ExtensionEs
  <1>3. m.inicio \in Nat /\ m.tam \in Nat
      OBVIOUS
  <1>4. BloquesDe(tam) \in Nat /\ n <= BloquesDe(tam)
    <2>1. m.tam <= tam
        BY <1>3
    <2> QED BY <1>2, <1>3, <2>1, BloquesCrecen, BloquesNat
  <1>5. PICK k \in [inicio: Nat, tam: Nat] : k = [m EXCEPT !.tam = tam] /\ k.inicio = m.inicio /\ k.tam = tam
      OBVIOUS
  <1>6. Fin(k) = h /\ Extension(k) = m.inicio .. h - 1 /\ Fin(m) <= h /\ m.inicio <= Fin(m)
    <2>1. Fin(k) = k.inicio + BloquesDe(k.tam) /\ Extension(k) = k.inicio .. k.inicio + BloquesDe(k.tam) - 1
        BY ExtensionEs
    <2>2. k.inicio + BloquesDe(k.tam) = h
        BY <1>5
    <2> QED BY <1>2, <1>3, <1>4, <1>5, <2>1, <2>2
  <1>7. Extension(k) = Extension(m) \cup (Fin(m) .. h - 1)
      BY <1>2, <1>3, <1>6
  <1>8. f \in DOMAIN metadata \ {} /\ {} \cup {f} = {f}
      OBVIOUS
  <1>9. /\ DeOtros(metadata, {}) = DeOtros(metadata, {f}) \cup Extension(m)
        /\ Separados(metadata, {}) =>
             Separados(metadata, {f}) /\ Extension(m) \cap DeOtros(metadata, {f}) = {}
      BY TodosYUno
  <1>10. Reparto({f}, Extension(m))' /\ Extension(k) \subseteq Bloque \ DeOtros(metadata, {f})
      BY <1>1, <1>7, <1>9 DEF Reparto, PasaAOcupar
  <1>11. Lugar({f}, Extension(k))'
      BY <1>10 DEF Lugar, PasaAOcupar
  <1>12. PICK i \in Nat : i = Fin(m)
      BY <1>2
  <1>13. lazo'.archivo = f /\ lazo'.i = i /\ lazo'.hasta = h /\ lazo'.meta = k
      BY <1>5, <1>12 DEF Lazo, PasaAOcupar
  <1>14. Reparto({f}, k.inicio .. i - 1)'
      BY <1>2, <1>5, <1>10, <1>12
  <1>15. Crece(lazo)'
    <2>1. h = Fin(k) /\ k.inicio <= i /\ i <= h
        BY <1>5, <1>6, <1>12
    <2> QED BY <1>11, <1>13, <1>14, <2>1 DEF Crece
  <1> QED BY <1>15, EstaCreciendo DEF FaseDeCrecer, PasaAOcupar

(* By compaction: it is taken out of a disk that has room for the whole of *)
(* it.                                                                     *)
LEMMA AgrandarCompactando ==
  ASSUME BInv, Tipos', NEW f \in DOMAIN metadata,
         NEW m \in [inicio: Nat, tam: Nat], m = metadata[f], NEW tam \in Nat, tam > m.tam,
         hay_espacio_suficiente(BloquesDe(tam) - BloquesDe(m.tam)),
         PasaASacar(Lazo(f, m.inicio, Fin(m), m)),
         compacta'.archivo = f, compacta'.tam = tam
  PROVE  BInv'
  <1>1. bitmap \subseteq Bloque /\ Reparto({}, {})
      BY DEF BInv, EnReposo, Tipos, DiscoOK, PasaASacar
  <1>2. PICK n \in Nat : n = BloquesDe(m.tam) /\ Fin(m) = m.inicio + n /\ Fin(m) \in Nat
                         /\ Extension(m) = m.inicio .. m.inicio + n - 1 /\ n >= 1 /\ m.inicio \in Extension(m)
      BY ExtensionEs
  <1>3. m.inicio \in Nat /\ m.tam \in Nat
      OBVIOUS
  <1>4. f \in DOMAIN metadata \ {} /\ {} \cup {f} = {f}
      OBVIOUS
  <1>5. /\ DeOtros(metadata, {}) = DeOtros(metadata, {f}) \cup Extension(m)
        /\ Separados(metadata, {}) =>
             Separados(metadata, {f}) /\ Extension(m) \cap DeOtros(metadata, {f}) = {}
      BY TodosYUno
  <1> DEFINE O == DeOtros(metadata, {f})
             E == Extension(m)
  <1>6. bitmap = O \cup E /\ O \cap E = {} /\ Separados(metadata, {f})
      BY <1>1, <1>5 DEF Reparto
  <1>7. E = m.inicio .. m.inicio + n - 1
      BY <1>2
  <1>8. m.inicio \notin O
      BY <1>2, <1>6
  <1> HIDE DEF O, E
  <1>9. IsFiniteSet(O) /\ IsFiniteSet(E) /\ Cardinality(E) = n
    <2>1. O \subseteq Bloque /\ E \subseteq Bloque
        BY <1>1, <1>6
    <2> QED BY <1>3, <1>7, <2>1, RangoCardinal, BloqueCardinal, FS_Subset
  <1>10. Cardinality(O) + BloquesDe(tam) <= CantBloques
    <2>1. Cardinality(O) \in Nat /\ BloquesDe(tam) \in Nat
        BY <1>9, FS_CardinalityType, BloquesNat
    <2>2. Cardinality(bitmap) = Cardinality(O) + n
      <3>1. Cardinality(O \cup E) = Cardinality(O) + Cardinality(E) - Cardinality(O \cap E)
          BY <1>9, FS_Union
      <3>2. Cardinality({}) = 0
          BY FS_EmptySet
      <3>3. PICK c \in Nat : c = Cardinality(O)
          BY <2>1
      <3>4. Cardinality(O \cup E) = c + n - 0
          BY <1>6, <1>9, <3>1, <3>2, <3>3
      <3>5. Cardinality(bitmap) = Cardinality(O \cup E)
          BY <1>6
      <3> QED BY <3>3, <3>4, <3>5
    <2>3. Cardinality(Bloque \ bitmap) = CantBloques - Cardinality(bitmap)
      <3>1. Bloque \cap bitmap = bitmap
          BY <1>1
      <3>2. Cardinality(Bloque \ bitmap) = Cardinality(Bloque) - Cardinality(Bloque \cap bitmap)
          BY BloqueCardinal, FS_Difference
      <3> QED BY <3>1, <3>2, BloqueCardinal
    <2>4. BloquesDe(tam) - n <= Cardinality(Bloque \ bitmap)
        BY <1>2 DEF hay_espacio_suficiente
    <2> QED BY <2>1, <2>2, <2>3, <2>4, ConstantesOK
  <1>11. PICK h \in Nat : h = Fin(m)
      BY <1>2
  <1>12. lazo'.archivo = f /\ lazo'.i = m.inicio /\ lazo'.hasta = h
      BY <1>11 DEF Lazo, PasaASacar
  <1>13. Reparto({f}, m.inicio .. h - 1)' /\ Lugar({f}, m.inicio .. h - 1)'
    <2>1. E = m.inicio .. h - 1
        BY <1>2, <1>7, <1>11
    <2>2. bitmap = DeOtros(metadata, {f}) \cup E /\ Separados(metadata, {f}) /\ E \subseteq Bloque \ DeOtros(metadata, {f})
        BY <1>1, <1>6 DEF O
    <2> QED BY <2>1, <2>2 DEF Reparto, Lugar, PasaASacar
  <1>14. Suelta(lazo)'
      BY <1>12, <1>13 DEF Suelta
  <1>15. Caben({f}, 0)'
    <2>1. Cardinality(O)' + 0 + BloquesDe(tam) <= CantBloques
      <3>1. O' = O
          BY DEF O, PasaASacar
      <3>2. Cardinality(O) \in Nat /\ BloquesDe(tam) \in Nat
          BY <1>9, FS_CardinalityType, BloquesNat
      <3> QED BY <1>10, <3>1, <3>2
    <2> QED BY <2>1 DEF Caben, O
  <1>16. (metadata[compacta.archivo].inicio \notin DeOtros(metadata, {compacta.archivo}))'
      BY <1>8 DEF O, PasaASacar
  <1>17. AlSacar'
      BY <1>12, <1>15, <1>16 DEF AlSacar
  <1>18. ConTamanio'
      BY <1>3 DEF ConTamanio
  <1> QED BY <1>14, <1>17, <1>18, EstaSacando DEF PasaASacar

LEMMA AgrandarBitmap ==
  ASSUME BInv, Tipos', NEW f \in Archivo, NEW tam \in Tamanios, agrandar_archivo(f, tam)
  PROVE  BInv'
  <1>1. PICK m \in [inicio: Nat, tam: Nat] : m = metadata[f]
      BY DEF BInv, Tipos, DiscoOK, agrandar_archivo
  <1>2. fase = "reposo" /\ f \in DOMAIN metadata /\ UNCHANGED <<bitmap, metadata>> /\ tam > m.tam
      BY <1>1 DEF agrandar_archivo, disco
  <1>3. tam \in Nat /\ m.tam \in Nat /\ m.inicio \in Nat
      BY ConstantesOK
  <1>4. PICK n \in Nat, t \in Nat : n = BloquesDe(m.tam) /\ t = BloquesDe(tam) /\ Fin(m) = m.inicio + n
      BY <1>3, BloquesNat DEF Fin
  <1>5. PICK h \in Nat : h = m.inicio + t /\ h = m.inicio + n + (t - n)
      BY <1>3, <1>4
  <1>6. CASE /\ \A i \in Fin(m) .. h - 1 : i \in Bloque \ bitmap
             /\ Seguir("ocupar", Lazo(f, Fin(m), h, [m EXCEPT !.tam = tam]))
      BY <1>1, <1>2, <1>3, <1>4, <1>5, <1>6, AgrandarEnSuLugar DEF Seguir, PasaAOcupar
  <1>7. CASE /\ hay_espacio_suficiente(t - n)
             /\ fase' = "sacar" /\ lazo' = Lazo(f, m.inicio, Fin(m), m)
             /\ compacta'.archivo = f /\ compacta'.tam = tam
      BY <1>1, <1>2, <1>3, <1>4, <1>7, AgrandarCompactando DEF PasaASacar
  <1>8. CASE Contestar("agrandar", f, tam, FALSE)
      BY <1>2, <1>8, SigueEnReposo DEF Contestar
  <1>9. PICK k \in Int : k = BloquesDe(tam) - BloquesDe(metadata[f].tam) /\ k = t - n
      BY <1>1, <1>4
  <1>10. PICK d \in Nat : d = metadata[f].inicio + BloquesDe(metadata[f].tam) /\ d = Fin(m)
      BY <1>1, <1>3, <1>4
  <1>11. PICK e : e = d + k /\ e = h
      BY <1>3, <1>4, <1>5, <1>9, <1>10
  <1>12. \/ /\ \A i \in d .. e - 1 : i \in Bloque \ bitmap
            /\ Seguir("ocupar", Lazo(f, d, e, [m EXCEPT !.tam = tam]))
         \/ /\ hay_espacio_suficiente(k)
            /\ fase' = "sacar" /\ lazo' = Lazo(f, m.inicio, d, m)
            /\ compacta'.archivo = f /\ compacta'.tam = tam
         \/ Contestar("agrandar", f, tam, FALSE)
    <2> DEFINE M == metadata[f]
               K == BloquesDe(tam) - BloquesDe(M.tam)
               D == M.inicio + BloquesDe(M.tam)
               R == D .. D + K - 1
               L == Lazo(f, D, D + K, [M EXCEPT !.tam = tam])
               Q == Lazo(f, M.inicio, D, M)
    <2>1. \/ /\ \A i \in R : i \in Bloque \ bitmap
             /\ Seguir("ocupar", L)
          \/ /\ hay_espacio_suficiente(K)
             /\ fase' = "sacar" /\ lazo' = Q
             /\ compacta' = [archivo |-> f, tam |-> tam, buffer |-> Leido(M),
                             libre |-> 0, movio |-> FALSE, movido |-> <<>>]
          \/ Contestar("agrandar", f, tam, FALSE)
        BY DEF agrandar_archivo
    <2>2. M = m /\ K = k /\ D = d /\ D + K = e
        BY <1>1, <1>9, <1>10, <1>11
    <2> HIDE DEF M, K, D
    <2>3. R = d .. e - 1 /\ L = Lazo(f, d, e, [m EXCEPT !.tam = tam]) /\ Q = Lazo(f, m.inicio, d, m)
        BY <2>2
    <2> HIDE DEF R, L, Q
    <2>4. compacta' = [archivo |-> f, tam |-> tam, buffer |-> Leido(M),
                       libre |-> 0, movio |-> FALSE, movido |-> <<>>] => compacta'.archivo = f /\ compacta'.tam = tam
        OBVIOUS
    <2> QED BY <2>1, <2>2, <2>3, <2>4
  <1> QED BY <1>6, <1>7, <1>8, <1>9, <1>10, <1>11, <1>12

LEMMA OtrasOrdenesBitmap ==
  ASSUME BInv, Tipos', NEW f \in Archivo,
         \/ archivo_inexistente(f)
         \/ \E tam \in Tamanios : achicar_archivo(f, tam)
         \/ \E k \in Punteros, n \in Largos :
              leer_en_archivo(f, k, n) \/ \E d \in Dato : escribir_en_archivo(f, k, n, d)
  PROVE  BInv'
  <1>1. CASE archivo_inexistente(f)
      BY <1>1, NadaDice DEF archivo_inexistente, Morir
  <1>2. CASE \E tam \in Tamanios : achicar_archivo(f, tam)
      BY <1>2, NadaDice DEF achicar_archivo
  <1>3. ASSUME NEW k \in Punteros, NEW n \in Largos, leer_en_archivo(f, k, n)
        PROVE  BInv'
      BY <1>3, NadaDice, SigueEnReposo DEF leer_en_archivo, Morir, Contestar, disco
  <1>4. ASSUME NEW k \in Punteros, NEW n \in Largos, NEW d \in Dato, escribir_en_archivo(f, k, n, d)
        PROVE  BInv'
      BY <1>4, SigueEnReposo DEF escribir_en_archivo, Contestar
  <1> QED BY <1>1, <1>2, <1>3, <1>4

-----------------------------------------------------------------------------
(***************************************************************************)
(* The bitmap and the metadata: loops                                      *)
(***************************************************************************)
UnLazo == [archivo: Archivo, i: Nat, hasta: Nat, meta: [inicio: Nat, tam: Nat]]

(* The values that the loop has when a step of it begins.                  *)
LEMMA LazoEs ==
  ASSUME Tipos, fase \notin {"reposo", "muerto", "recorrer"}
  PROVE  \E l \in UnLazo : l = lazo
  BY DEF Tipos, LazoOK, UnLazo

LEMMA OtroIndice ==
  ASSUME NEW l \in UnLazo
  PROVE  /\ [l EXCEPT !.i = @ + 1] \in UnLazo
         /\ [l EXCEPT !.i = @ + 1].i = l.i + 1
         /\ [l EXCEPT !.i = @ + 1].hasta = l.hasta
         /\ [l EXCEPT !.i = @ + 1].archivo = l.archivo
         /\ [l EXCEPT !.i = @ + 1].meta = l.meta
  BY DEF UnLazo

LEMMA CreceUno ==
  ASSUME NEW l \in UnLazo, NEW k \in UnLazo, k.archivo = l.archivo, k.meta = l.meta, k.hasta = l.hasta,
         k.i = l.i + 1, Crece(l), l.i < l.hasta, bitmap' = bitmap \cup ({l.i} \cap Bloque), metadata' = metadata
  PROVE  Crece(k)'
  <1>1. PICK m \in [inicio: Nat, tam: Nat] : m = l.meta
      BY DEF UnLazo
  <1>2. l.i \in Nat /\ l.hasta \in Nat /\ m.inicio \in Nat /\ l.hasta = Fin(m) /\ m.inicio <= l.i
      BY <1>1 DEF UnLazo, Crece
  <1>3. Extension(m) = m.inicio .. l.hasta - 1
      BY <1>2, ExtensionEs
  <1>4. PICK i \in Nat : i = l.i /\ i \in Extension(m) /\ k.i = i + 1 /\ m.inicio <= i
      BY <1>2, <1>3
  <1>5. Extension(m) \subseteq Bloque \ DeOtros(metadata, {l.archivo})
      BY <1>1 DEF Crece, Lugar
  <1>6. Reparto({l.archivo}, m.inicio .. i - 1)
      BY <1>1, <1>4 DEF Crece
  <1>7. m.inicio .. i = (m.inicio .. i - 1) \cup {i}
      BY <1>4
  <1>8. Reparto({l.archivo}, m.inicio .. i)'
      BY <1>4, <1>5, <1>6, <1>7 DEF Reparto
  <1>9. Lugar({l.archivo}, Extension(m))'
      BY <1>5 DEF Lugar
  <1>10. k.i - 1 = i /\ m.inicio <= k.i /\ k.i <= k.hasta
      BY <1>2, <1>4
  <1> QED BY <1>1, <1>2, <1>8, <1>9, <1>10 DEF Crece

LEMMA SueltaUno ==
  ASSUME NEW l \in UnLazo, NEW k \in UnLazo, k.archivo = l.archivo, k.hasta = l.hasta, k.i = l.i + 1,
         Suelta(l), l.i < l.hasta, bitmap' = bitmap \ {l.i}, metadata' = metadata
  PROVE  Suelta(k)'
  <1>1. PICK i \in Nat, h \in Nat, f \in Archivo : i = l.i /\ h = l.hasta /\ i < h /\ f = l.archivo
      BY DEF UnLazo
  <1>2. i .. h - 1 = {i} \cup (i + 1 .. h - 1) /\ i \notin i + 1 .. h - 1
      BY <1>1
  <1>3. Reparto({f}, i .. h - 1) /\ Lugar({f}, i .. h - 1)
      BY <1>1 DEF Suelta
  <1>4. Reparto({f}, i + 1 .. h - 1)' /\ Lugar({f}, i + 1 .. h - 1)'
      BY <1>1, <1>2, <1>3 DEF Reparto, Lugar
  <1> QED BY <1>1, <1>4 DEF Suelta

(* The file that moves has its own metadata and bits; the others' do not   *)
(* change.                                                                 *)
LEMMA MudaIgual ==
  ASSUME NEW f, NEW x, NEW b, NEW s, NEW n, Muda(f, x, b, s, n), DOMAIN metadata' = DOMAIN metadata,
         \A g \in DOMAIN metadata \ {f} : metadata'[g] = metadata[g], x \in DOMAIN metadata,
         compacta'.tam = compacta.tam
  PROVE  /\ Muda(f, x, b, s, n)'
         /\ DeOtros(metadata, {f, x})' = DeOtros(metadata, {f, x})
         /\ Separados(metadata, {f, x})' /\ Separados(metadata, {f, x})
  <1>1. DOMAIN metadata \ {f, x} = DOMAIN metadata' \ {f, x}
        /\ \A g \in DOMAIN metadata \ {f, x} : metadata[g] = metadata'[g]
      OBVIOUS
  <1>2. DeOtros(metadata, {f, x}) = DeOtros(metadata', {f, x})
        /\ (Separados(metadata, {f, x}) <=> Separados(metadata', {f, x}))
      BY <1>1, DeIgual
  <1>3. Partidos(metadata, {f, x}, x, b, s + n)'
      BY <1>1 DEF Muda, Partidos
  <1> QED BY <1>2, <1>3 DEF Muda, Caben, Lugar

(* Bits between the first free block and the end of the file's old place.  *)
LEMMA MudaUno ==
  ASSUME NEW f, NEW x, NEW b \in Nat, NEW s \in Nat, NEW n \in Nat, Muda(f, x, b, s, n),
         NEW i \in Nat, b <= i, i < s, metadata' = metadata, bitmap' = bitmap \cup ({i} \cap Bloque),
         Reparto({f, x}, (b .. i - 1) \cup (s .. s + n - 1))
  PROVE  Reparto({f, x}, (b .. i) \cup (s .. s + n - 1))'
  <1>1. b .. i = (b .. i - 1) \cup {i} /\ i \in b .. s + n - 1
      OBVIOUS
  <1>2. i \in Bloque
      BY <1>1 DEF Muda, Lugar
  <1> QED BY <1>1, <1>2 DEF Reparto

LEMMA MudaSuelta ==
  ASSUME NEW f, NEW x, NEW b \in Nat, NEW s \in Nat, NEW n \in Nat, Muda(f, x, b, s, n),
         NEW i \in Nat, b + n <= i, i < s + n, metadata' = metadata, bitmap' = bitmap \ {i},
         Reparto({f, x}, (b .. b + n - 1) \cup (i .. s + n - 1))
  PROVE  Reparto({f, x}, (b .. b + n - 1) \cup (i + 1 .. s + n - 1))'
  <1>1. i .. s + n - 1 = {i} \cup (i + 1 .. s + n - 1) /\ i \notin i + 1 .. s + n - 1
        /\ i \notin b .. b + n - 1 /\ i \in b .. s + n - 1
      OBVIOUS
  <1>2. i \notin DeOtros(metadata, {f, x})
      BY <1>1 DEF Muda, Lugar
  <1> QED BY <1>1, <1>2 DEF Reparto

(* The values that the move of a file has when a step of it begins.        *)
LEMMA MudanzaEs ==
  ASSUME BInv, fase \in FaseDeMudar
  PROVE  \E l \in UnLazo, x \in DOMAIN metadata, b \in Nat, s \in Nat, n \in Nat :
           /\ l = lazo /\ x = compacta.archivo /\ b = compacta.libre
           /\ s = l.meta.inicio /\ n = BloquesDe(l.meta.tam) /\ n >= 1
           /\ Muda(l.archivo, x, b, s, n)
           /\ Mudado(l.archivo, x, b, s, n, l.i, l.hasta, l.meta)
  <1>1. PICK l \in UnLazo : l = lazo
      BY LazoEs DEF BInv, FaseDeMudar
  <1>2. l.meta \in [inicio: Nat, tam: Nat]
      BY DEF UnLazo
  <1>3. PICK x, b, s, n : x = compacta.archivo /\ b = compacta.libre /\ s = l.meta.inicio /\ n = BloquesDe(l.meta.tam)
      OBVIOUS
  <1>4. x \in DOMAIN metadata /\ b \in Nat
      BY <1>3 DEF BInv, Tipos, CompactaOK, FaseDeMudar, FaseDeCompactar
  <1>5. s \in Nat /\ n \in Nat /\ n >= 1
      BY <1>2, <1>3, ExtensionEs
  <1>6. Muda(l.archivo, x, b, s, n) /\ Mudado(l.archivo, x, b, s, n, l.i, l.hasta, l.meta)
      BY <1>1, <1>3 DEF BInv, AlMudar
  <1> QED BY <1>1, <1>3, <1>4, <1>5, <1>6

(* and when it ends: what it had to be shown to have.                      *)
LEMMA SigueMudando ==
  ASSUME Tipos', fase' \in FaseDeMudar, ConTamanio, fase \in FaseDeMudar, compacta' = compacta,
         NEW k \in UnLazo, k = lazo', NEW x, x = compacta.archivo, NEW b, b = compacta.libre,
         NEW s, s = k.meta.inicio, NEW n, n = BloquesDe(k.meta.tam),
         Muda(k.archivo, x, b, s, n)', Mudado(k.archivo, x, b, s, n, k.i, k.hasta, k.meta)'
  PROVE  BInv'
  <1>1. ConTamanio'
      BY DEF ConTamanio
  <1>2. AlMudar'
      BY DEF AlMudar
  <1> QED BY <1>1, <1>2, EstaMudando

LEMMA OcuparBitmap ==
  ASSUME BInv, Tipos', ocupar_bloque
  PROVE  BInv'
  <1>1. PICK l \in UnLazo : l = lazo
      BY LazoEs DEF BInv, ocupar_bloque
  <1>2. PICK k \in UnLazo : k = [l EXCEPT !.i = @ + 1] /\ k.i = l.i + 1 /\ k.hasta = l.hasta
                            /\ k.archivo = l.archivo /\ k.meta = l.meta
      BY OtroIndice
  <1>3. l.i < l.hasta /\ lazo' = k /\ fase' = fase /\ compacta' = compacta
        /\ bitmap' = bitmap \cup ({l.i} \cap Bloque) /\ metadata' = metadata
      BY <1>1, <1>2 DEF ocupar_bloque, Seguir
  <1>4. CASE fase \in {"reservar", "ocupar", "poner ocupar"}
    <2>1. Crece(l)
        BY <1>1, <1>4 DEF BInv, AlCrecer, FaseDeCrecer
    <2>2. Crece(k)'
        BY <1>2, <1>3, <2>1, CreceUno
    <2> QED BY <1>3, <1>4, <2>2, EstaCreciendo DEF FaseDeCrecer
  <1>5. CASE fase = "mudar ocupar"
    <2>1. fase \in FaseDeMudar
        BY <1>5 DEF FaseDeMudar
    <2>2. PICK q \in UnLazo, x \in DOMAIN metadata, b \in Nat, s \in Nat, n \in Nat :
             /\ q = lazo /\ x = compacta.archivo /\ b = compacta.libre
             /\ s = q.meta.inicio /\ n = BloquesDe(q.meta.tam) /\ n >= 1
             /\ Muda(q.archivo, x, b, s, n)
             /\ Mudado(q.archivo, x, b, s, n, q.i, q.hasta, q.meta)
        BY <2>1, MudanzaEs
    <2>3. PICK f \in Archivo, i \in Nat : f = l.archivo /\ i = l.i
        BY DEF UnLazo
    <2>4. Muda(f, x, b, s, n) /\ Mudado(f, x, b, s, n, i, l.hasta, l.meta)
        BY <1>1, <2>2, <2>3
    <2>5. /\ metadata[f] = [l.meta EXCEPT !.inicio = b]
          /\ Reparto({f, x}, (b .. i - 1) \cup (s .. s + n - 1)) /\ l.hasta = s /\ b <= i /\ i <= s
        BY <1>5, <2>4 DEF Mudado
    <2>6. i < s
        BY <1>3, <2>3, <2>5
    <2>7. Reparto({f, x}, (b .. i) \cup (s .. s + n - 1))'
        BY <1>3, <2>2, <2>3, <2>4, <2>5, <2>6, MudaUno
    <2>8. Muda(f, x, b, s, n)'
        BY <1>3, <2>2, <2>4, MudaIgual
    <2>9. PICK j \in Nat : j = i + 1 /\ j - 1 = i /\ b <= j /\ j <= s
        BY <2>5, <2>6
    <2>10. Reparto({f, x}, (b .. j - 1) \cup (s .. s + n - 1))'
        BY <2>7, <2>9
    <2>11. Mudado(f, x, b, s, n, j, s, l.meta)'
        BY <1>3, <1>5, <2>5, <2>9, <2>10 DEF Mudado
    <2>12. k.i = j /\ k.archivo = f /\ k.hasta = s /\ k.meta = l.meta
        BY <1>2, <2>3, <2>5, <2>9
    <2>13. Muda(k.archivo, x, b, s, n)' /\ Mudado(k.archivo, x, b, s, n, k.i, k.hasta, k.meta)'
        BY <2>8, <2>11, <2>12
    <2>14. s = k.meta.inicio /\ n = BloquesDe(k.meta.tam)
        BY <1>1, <1>2, <2>2
    <2> QED BY <1>3, <2>1, <2>2, <2>13, <2>14, SigueMudando DEF BInv
  <1> QED BY <1>4, <1>5 DEF ocupar_bloque

LEMMA LiberarBitmap ==
  ASSUME BInv, Tipos', liberar_bloque
  PROVE  BInv'
  <1>1. PICK l \in UnLazo : l = lazo
      BY LazoEs DEF BInv, liberar_bloque
  <1>2. PICK k \in UnLazo : k = [l EXCEPT !.i = @ + 1] /\ k.i = l.i + 1 /\ k.hasta = l.hasta
                            /\ k.archivo = l.archivo /\ k.meta = l.meta
      BY OtroIndice
  <1>3. l.i < l.hasta /\ lazo' = k /\ fase' = fase /\ compacta' = compacta
        /\ bitmap' = bitmap \ {l.i} /\ metadata' = metadata
      BY <1>1, <1>2 DEF liberar_bloque, Seguir
  <1>4. ASSUME fase \in {"liberar", "sacar"}
        PROVE  Suelta(lazo)'
    <2>1. Suelta(l)
        BY <1>1, <1>4 DEF BInv, AlSoltar
    <2> QED BY <1>2, <1>3, <2>1, SueltaUno
  <1>5. CASE fase = "liberar"
      BY <1>3, <1>4, <1>5, EstaLiberando
  <1>6. CASE fase = "sacar"
    <2>1. ConTamanio' /\ AlSacar'
        BY <1>1, <1>2, <1>3, <1>6 DEF BInv, ConTamanio, AlSacar, Caben
    <2> QED BY <1>3, <1>4, <1>6, <2>1, EstaSacando
  <1>7. CASE fase = "mudar liberar"
    <2>1. fase \in FaseDeMudar
        BY <1>7 DEF FaseDeMudar
    <2>2. PICK q \in UnLazo, x \in DOMAIN metadata, b \in Nat, s \in Nat, n \in Nat :
             /\ q = lazo /\ x = compacta.archivo /\ b = compacta.libre
             /\ s = q.meta.inicio /\ n = BloquesDe(q.meta.tam) /\ n >= 1
             /\ Muda(q.archivo, x, b, s, n)
             /\ Mudado(q.archivo, x, b, s, n, q.i, q.hasta, q.meta)
        BY <2>1, MudanzaEs
    <2>3. PICK f \in Archivo, i \in Nat, h \in Nat : f = l.archivo /\ i = l.i /\ h = l.hasta
        BY DEF UnLazo
    <2>4. Muda(f, x, b, s, n) /\ Mudado(f, x, b, s, n, i, h, l.meta)
        BY <1>1, <2>2, <2>3
    <2>5. /\ metadata[f] = [l.meta EXCEPT !.inicio = b]
          /\ Reparto({f, x}, (b .. b + n - 1) \cup (i .. s + n - 1)) /\ h = s + n /\ b + n <= i /\ i <= s + n
        BY <1>7, <2>4 DEF Mudado
    <2>6. i < s + n
        BY <1>3, <2>3, <2>5
    <2>7. Reparto({f, x}, (b .. b + n - 1) \cup (i + 1 .. s + n - 1))'
        BY <1>3, <2>2, <2>3, <2>4, <2>5, <2>6, MudaSuelta
    <2>8. Muda(f, x, b, s, n)'
        BY <1>3, <2>2, <2>4, MudaIgual
    <2>9. PICK j \in Nat : j = i + 1 /\ b + n <= j /\ j <= s + n
        BY <2>5, <2>6
    <2>10. Reparto({f, x}, (b .. b + n - 1) \cup (j .. s + n - 1))'
        BY <2>7, <2>9
    <2>11. Mudado(f, x, b, s, n, j, h, l.meta)'
        BY <1>3, <1>7, <2>5, <2>9, <2>10 DEF Mudado
    <2>12. k.i = j /\ k.archivo = f /\ k.hasta = h /\ k.meta = l.meta
        BY <1>2, <2>3, <2>9
    <2>13. Muda(k.archivo, x, b, s, n)' /\ Mudado(k.archivo, x, b, s, n, k.i, k.hasta, k.meta)'
        BY <2>8, <2>11, <2>12
    <2>14. s = k.meta.inicio /\ n = BloquesDe(k.meta.tam)
        BY <1>1, <1>2, <2>2
    <2> QED BY <1>3, <2>1, <2>2, <2>13, <2>14, SigueMudando DEF BInv
  <1> QED BY <1>5, <1>6, <1>7 DEF liberar_bloque

(* Deleting writes no bit but those of the loop; what a shrunk file leaves *)
(* is said by nobody, and the interface dies of it.                        *)
LEMMA LimpiarBitmap ==
  ASSUME BInv, Tipos', RecortarBloque \/ FinDeRecorte \/ limpiar_bloque
  PROVE  BInv'
  <1>1. CASE RecortarBloque
      BY <1>1, NadaDice DEF RecortarBloque, Seguir
  <1>2. CASE FinDeRecorte
      BY <1>2, NadaDice DEF FinDeRecorte, Morir
  <1>3. CASE limpiar_bloque
    <2>1. PICK l \in UnLazo : l = lazo
        BY <1>3, LazoEs DEF BInv, limpiar_bloque
    <2>2. fase = "limpiar" /\ fase' = fase /\ UNCHANGED <<bitmap, metadata>> /\ lazo' = [l EXCEPT !.i = @ + 1]
        BY <1>3, <2>1 DEF limpiar_bloque, Seguir
    <2>3. lazo'.archivo = l.archivo
        BY <2>2, OtroIndice
    <2>4. Reparto({l.archivo}, {})
        BY <2>1, <2>2 DEF BInv, AlSoltar
    <2>5. Reparto({lazo.archivo}, {})'
        BY <2>2, <2>3, <2>4 DEF Reparto
    <2> QED BY <2>2, <2>5, EstaBorrando
  <1> QED BY <1>1, <1>2, <1>3

LEMMA FinDeLazoBitmap ==
  ASSUME BInv, Tipos', FinDeLazo
  PROVE  BInv'
  <1>1. PICK l \in UnLazo : l = lazo
      BY LazoEs DEF BInv, FinDeLazo
  <1>2. UNCHANGED <<bitmap, metadata>> /\ compacta' = compacta /\ l.i >= l.hasta
      BY <1>1 DEF FinDeLazo, Seguir, disco
  <1>3. \/ fase = "reservar" /\ fase' = "abrir" /\ lazo' = l
        \/ fase = "ocupar" /\ fase' = "guardar" /\ lazo' = l
        \/ fase = "poner ocupar" /\ fase' = "poner escribir" /\ lazo' = l
        \/ fase = "limpiar" /\ fase' = "quitar" /\ lazo' = l
        \/ fase = "mudar ocupar" /\ fase' = "mudar escribir" /\ lazo' = l
        \/ fase = "liberar" /\ fase' = "limpiar" /\ lazo' = [l EXCEPT !.i = metadata[l.archivo].inicio]
      BY <1>1 DEF FinDeLazo, Seguir, Luego
  <1>4. CASE fase \in {"reservar", "ocupar", "poner ocupar"}
    <2>1. Crece(l)
        BY <1>1, <1>4 DEF BInv, AlCrecer, FaseDeCrecer
    <2>2. l.i = l.hasta
      <3>1. l.i \in Nat /\ l.hasta \in Nat /\ l.i <= l.hasta
          BY <2>1 DEF UnLazo, Crece
      <3> QED BY <1>2, <3>1
    <2>3. Crece(l)'
        BY <1>2, <2>1 DEF Crece, Reparto, Lugar
    <2>4. lazo' = l /\ fase' \in {"abrir", "guardar", "poner escribir"}
        BY <1>3, <1>4
    <2> QED BY <2>2, <2>3, <2>4, EstaCreciendo DEF FaseDeCrecer
  <1>5. CASE fase = "limpiar"
    <2>1. Reparto({l.archivo}, {}) /\ lazo' = l /\ fase' = "quitar"
        BY <1>1, <1>3, <1>5 DEF BInv, AlSoltar
    <2>2. Reparto({lazo.archivo}, {})'
        BY <1>2, <2>1 DEF Reparto
    <2> QED BY <2>1, <2>2, EstaBorrando
  <1>6. CASE fase = "liberar"
    <2>1. Reparto({l.archivo}, l.i .. l.hasta - 1) /\ fase' = "limpiar" /\ lazo'.archivo = l.archivo
        BY <1>1, <1>3, <1>6 DEF BInv, AlSoltar, Suelta, UnLazo
    <2>2. l.i .. l.hasta - 1 = {}
      <3>1. l.i \in Nat /\ l.hasta \in Nat
          BY DEF UnLazo
      <3> QED BY <1>2, <3>1
    <2>3. Reparto({lazo.archivo}, {})'
        BY <1>2, <2>1, <2>2 DEF Reparto
    <2> QED BY <2>1, <2>3, EstaBorrando
  <1>7. CASE fase = "mudar ocupar"
    <2>1. fase \in FaseDeMudar /\ fase' = "mudar escribir" /\ fase' \in FaseDeMudar /\ lazo' = l
        BY <1>3, <1>7 DEF FaseDeMudar
    <2>2. PICK q \in UnLazo, x \in DOMAIN metadata, b \in Nat, s \in Nat, n \in Nat :
             /\ q = lazo /\ x = compacta.archivo /\ b = compacta.libre
             /\ s = q.meta.inicio /\ n = BloquesDe(q.meta.tam) /\ n >= 1
             /\ Muda(q.archivo, x, b, s, n)
             /\ Mudado(q.archivo, x, b, s, n, q.i, q.hasta, q.meta)
        BY <2>1, MudanzaEs
    <2>3. PICK f \in Archivo, i \in Nat, h \in Nat : f = l.archivo /\ i = l.i /\ h = l.hasta
        BY DEF UnLazo
    <2>4. Muda(f, x, b, s, n) /\ Mudado(f, x, b, s, n, i, h, l.meta)
        BY <1>1, <2>2, <2>3
    <2>5. /\ metadata[f] = [l.meta EXCEPT !.inicio = b]
          /\ Reparto({f, x}, (b .. i - 1) \cup (s .. s + n - 1)) /\ h = s /\ b <= i /\ i <= s
        BY <1>7, <2>4 DEF Mudado
    <2>6. i >= h
        BY <1>2, <2>3
    <2>7. i = s
        BY <2>5, <2>6
    <2>8. (b .. i - 1) \cup (s .. s + n - 1) = b .. s + n - 1
        BY <2>5, <2>7
    <2>9. Reparto({f, x}, b .. s + n - 1)'
        BY <1>2, <2>5, <2>8 DEF Reparto
    <2>10. Muda(f, x, b, s, n)'
        BY <1>2, <2>2, <2>4, MudaIgual
    <2>11. Mudado(f, x, b, s, n, i, h, l.meta)'
        BY <1>2, <2>1, <2>5, <2>9 DEF Mudado
    <2>12. Muda(l.archivo, x, b, s, n)' /\ Mudado(l.archivo, x, b, s, n, l.i, l.hasta, l.meta)'
        BY <2>3, <2>10, <2>11
    <2>13. s = l.meta.inicio /\ n = BloquesDe(l.meta.tam)
        BY <1>1, <2>2
    <2> QED BY <1>2, <2>1, <2>2, <2>12, <2>13, SigueMudando DEF BInv
  <1> QED BY <1>3, <1>4, <1>5, <1>6, <1>7

LEMMA AbrirBitmap ==
  ASSUME BInv, Tipos', AbrirMetadata \/ PonerDatos
  PROVE  BInv'
  <1>1. fase \in {"abrir", "poner escribir"} /\ fase' = "guardar" /\ lazo' = lazo /\ UNCHANGED <<bitmap, metadata>>
      BY DEF AbrirMetadata, PonerDatos, Seguir
  <1>2. PICK l \in UnLazo : l = lazo
      BY <1>1, LazoEs DEF BInv
  <1>3. Crece(l) /\ l.i = l.hasta
      BY <1>1, <1>2 DEF BInv, AlCrecer, FaseDeCrecer
  <1>4. Crece(l)'
      BY <1>1, <1>3 DEF Crece, Reparto, Lugar
  <1> QED BY <1>1, <1>2, <1>3, <1>4, EstaCreciendo DEF FaseDeCrecer

LEMMA GuardarBitmap ==
  ASSUME BInv, Tipos', GuardarMetadata
  PROVE  BInv'
  <1>1. fase = "guardar" /\ fase' = "reposo" /\ bitmap' = bitmap /\ Guardar(lazo.archivo, lazo.meta)
      BY DEF GuardarMetadata, Contestar
  <1>2. PICK l \in UnLazo : l = lazo
      BY <1>1, LazoEs DEF BInv
  <1>3. Crece(l) /\ l.i = l.hasta
      BY <1>1, <1>2 DEF BInv, AlCrecer, FaseDeCrecer
  <1>4. PICK f \in Archivo, m \in [inicio: Nat, tam: Nat] : f = l.archivo /\ m = l.meta
      BY DEF UnLazo
  <1>5. PICK i \in Nat : i = l.i /\ i = Fin(m)
    <2>1. l.i \in Nat /\ l.hasta = Fin(m)
        BY <1>3, <1>4 DEF Crece, UnLazo
    <2> QED BY <1>3, <2>1
  <1>6. Extension(m) = m.inicio .. i - 1
      BY <1>5, ExtensionEs
  <1>7. Reparto({f}, Extension(m)) /\ Lugar({f}, Extension(m))
      BY <1>3, <1>4, <1>5, <1>6 DEF Crece
  <1>8. metadata' = [g \in DOMAIN metadata \cup {f} |-> IF g = f THEN m ELSE metadata[g]]
      BY <1>1, <1>2, <1>4 DEF Guardar
  <1>9. f \in DOMAIN metadata' /\ metadata'[f] = m /\ DOMAIN metadata \ {f} = DOMAIN metadata' \ {f}
        /\ \A g \in DOMAIN metadata \ {f} : metadata[g] = metadata'[g]
      BY <1>8
  <1>10. DeOtros(metadata, {f}) = DeOtros(metadata', {f})
         /\ (Separados(metadata, {f}) <=> Separados(metadata', {f}))
      BY <1>9, DeIgual
  <1>11. /\ DeOtros(metadata', {}) = DeOtros(metadata', {f}) \cup Extension(m)
         /\ Separados(metadata', {f}) /\ Extension(m) \cap DeOtros(metadata', {f}) = {} => Separados(metadata', {})
    <2>1. /\ DeOtros(metadata', {}) = DeOtros(metadata', {f}) \cup Extension(metadata'[f])
          /\ Separados(metadata', {f}) /\ Extension(metadata'[f]) \cap DeOtros(metadata', {f}) = {}
               => Separados(metadata', {})
        BY <1>9, TodosYUno
    <2> QED BY <1>9, <2>1
  <1>12. Reparto({}, {})'
      BY <1>1, <1>7, <1>10, <1>11 DEF Reparto, Lugar
  <1> QED BY <1>1, <1>12, Reposa

LEMMA QuitarBitmap ==
  ASSUME BInv, Tipos', QuitarMetadata
  PROVE  BInv'
  <1>1. PICK f : f = lazo.archivo
      OBVIOUS
  <1>2. fase = "quitar" /\ fase' = "reposo" /\ bitmap' = bitmap
        /\ metadata' = [g \in DOMAIN metadata \ {f} |-> metadata[g]]
      BY <1>1 DEF QuitarMetadata, Contestar
  <1>3. Reparto({f}, {})
      BY <1>1, <1>2 DEF BInv, AlSoltar
  <1>4. DOMAIN metadata \ {f} = DOMAIN metadata' \ {} /\ \A g \in DOMAIN metadata \ {f} : metadata[g] = metadata'[g]
      BY <1>2
  <1>5. DeOtros(metadata, {f}) = DeOtros(metadata', {})
        /\ (Separados(metadata, {f}) <=> Separados(metadata', {}))
      BY <1>4, DeIgual
  <1>6. Reparto({}, {})'
      BY <1>2, <1>3, <1>5 DEF Reparto
  <1> QED BY <1>2, <1>6, Reposa

-----------------------------------------------------------------------------
(***************************************************************************)
(* The bitmap and the metadata: compaction                                 *)
(***************************************************************************)
LEMMA PrimeroEsMenor ==
  ASSUME bitmap \subseteq Bloque, bitmap # Bloque
  PROVE  /\ PrimeroLibre \in Nat /\ PrimeroLibre \in Bloque \ bitmap
         /\ 0 .. PrimeroLibre - 1 \subseteq bitmap
  <1>1. Bloque \subseteq Nat /\ CantBloques \in Nat
      BY ConstantesOK DEF Bloque
  <1>2. Bloque \ bitmap # {} /\ Bloque \ bitmap \subseteq Nat
      BY <1>1
  <1>3. \E b \in Bloque \ bitmap : \A c \in Bloque \ bitmap : b <= c
      BY <1>2, HayMenor
  <1>4. PICK p : p = PrimeroLibre /\ p \in Bloque \ bitmap /\ \A c \in Bloque \ bitmap : p <= c
      BY <1>3 DEF PrimeroLibre
  <1>5. p \in Nat /\ p <= CantBloques - 1
      BY <1>1, <1>4 DEF Bloque
  <1>6. ASSUME NEW c \in 0 .. p - 1
        PROVE  c \in bitmap
    <2>1. c \in Bloque /\ ~(p <= c)
        BY <1>1, <1>5, <1>6 DEF Bloque
    <2> QED BY <1>4, <2>1
  <1> QED BY <1>4, <1>5, <1>6

(* What the disk has room for is counted with the blocks of one file apart. *)
LEMMA CuentaConUno ==
  ASSUME NEW O, NEW E, O \subseteq Bloque, E \subseteq Bloque, O \cap E = {}
  PROVE  /\ Cardinality(O) \in Nat /\ Cardinality(E) \in Nat
         /\ Cardinality(O \cup E) = Cardinality(O) + Cardinality(E)
  <1>1. IsFiniteSet(O) /\ IsFiniteSet(E)
      BY BloqueCardinal, FS_Subset
  <1>2. Cardinality(O \cup E) = Cardinality(O) + Cardinality(E) - Cardinality(O \cap E)
      BY <1>1, FS_Union
  <1>3. Cardinality({}) = 0
      BY FS_EmptySet
  <1>4. PICK c \in Nat, d \in Nat : c = Cardinality(O) /\ d = Cardinality(E)
      BY <1>1, FS_CardinalityType
  <1>5. Cardinality(O \cup E) = c + d - 0
      BY <1>1, <1>2, <1>3, <1>4
  <1> QED BY <1>4, <1>5

(* A file does not have a block that is free: it is before or after.       *)
LEMMA AntesODespues ==
  ASSUME NEW m \in [inicio: Nat, tam: Nat], NEW b \in Nat, b \notin Extension(m)
  PROVE  Fin(m) <= b \/ m.inicio >= b + 1
  <1>1. PICK n \in Nat : n = BloquesDe(m.tam) /\ Fin(m) = m.inicio + n /\ m.inicio \in Nat
                         /\ Extension(m) = m.inicio .. m.inicio + n - 1
      BY ExtensionEs
  <1> QED BY <1>1

LEMMA FinDeSacarBitmap ==
  ASSUME BInv, Tipos', FinDeSacar
  PROVE  BInv'
  <1>1. /\ fase = "sacar" /\ fase' = "recorrer" /\ lazo.i >= lazo.hasta /\ UNCHANGED <<bitmap, metadata>>
        /\ compacta' = [compacta EXCEPT !.libre = IF bitmap = Bloque THEN 0 ELSE PrimeroLibre]
      BY DEF FinDeSacar
  <1>2. PICK l \in UnLazo : l = lazo
      BY <1>1, LazoEs DEF BInv
  <1>3. PICK x \in DOMAIN metadata, t \in Nat : x = compacta.archivo /\ t = compacta.tam
      BY <1>1, ConstantesOK DEF BInv, Tipos, CompactaOK, FaseDeCompactar
  <1>4. /\ l.archivo = x /\ Suelta(l) /\ Caben({x}, 0) /\ t > 0
        /\ metadata[x].inicio \notin DeOtros(metadata, {x})
    <2>1. l.archivo = x /\ Suelta(l) /\ Caben({x}, 0) /\ metadata[x].inicio \notin DeOtros(metadata, {x})
        BY <1>1, <1>2, <1>3 DEF BInv, AlSoltar, AlSacar
    <2>2. t > 0
        BY <1>1, <1>3 DEF BInv, ConTamanio
    <2> QED BY <2>1, <2>2
  <1>5. Reparto({x}, {}) /\ bitmap \subseteq Bloque
    <2>1. l.i .. l.hasta - 1 = {}
      <3>1. l.i \in Nat /\ l.hasta \in Nat /\ l.i >= l.hasta
          BY <1>1, <1>2 DEF UnLazo
      <3> QED BY <3>1
    <2>2. Reparto({x}, l.i .. l.hasta - 1)
        BY <1>4 DEF Suelta
    <2> QED BY <2>1, <2>2 DEF BInv, Tipos, DiscoOK
  <1>6. bitmap = DeOtros(metadata, {x}) /\ Separados(metadata, {x})
      BY <1>5 DEF Reparto
  <1>7. bitmap # Bloque
    <2>1. PICK c \in Nat : c = Cardinality(bitmap)
        BY <1>5, BloqueCardinal, FS_Subset, FS_CardinalityType
    <2>2. c + 0 + BloquesDe(t) <= CantBloques /\ BloquesDe(t) \in Nat /\ BloquesDe(t) >= 1
        BY <1>3, <1>4, <1>6, <2>1, BloquesPositivo DEF Caben
    <2>3. c # CantBloques
        BY <2>2, ConstantesOK
    <2> QED BY <2>1, <2>3, BloqueCardinal
  <1>8. PICK b \in Nat : b = PrimeroLibre /\ b \in Bloque \ bitmap /\ 0 .. b - 1 \subseteq bitmap
      BY <1>5, <1>7, PrimeroEsMenor
  <1>9. compacta'.archivo = x /\ compacta'.tam = t /\ compacta'.libre = b
    <2>1. CompactaOK
        BY DEF BInv, Tipos
    <2> QED BY <1>1, <1>3, <1>7, <1>8, <2>1 DEF CompactaOK, FaseDeCompactar
  <1>10. Partidos(metadata, {x}, x, b, b + 1)
    <2> SUFFICES ASSUME NEW g \in DOMAIN metadata \ {x}
                 PROVE  Fin(metadata[g]) <= b
                        \/ (metadata[g].inicio >= b + 1 /\ metadata[x].inicio \notin Extension(metadata[g]))
        BY DEF Partidos
    <2>1. Extension(metadata[g]) \subseteq bitmap
        BY <1>6, DeUno
    <2>2. metadata[g] \in [inicio: Nat, tam: Nat]
        BY DEF BInv, Tipos, DiscoOK
    <2>3. Fin(metadata[g]) <= b \/ metadata[g].inicio >= b + 1
        BY <1>8, <2>1, <2>2, AntesODespues
    <2>4. metadata[x].inicio \notin Extension(metadata[g])
        BY <1>4, <1>6, <2>1
    <2> QED BY <2>3, <2>4
  <1>11. Recorre(x, b)'
    <2>1. Partidos(metadata, {x}, x, b, b + 1)'
        BY <1>1, <1>10 DEF Partidos
    <2>2. Caben({x}, 0)'
        BY <1>1, <1>3, <1>4, <1>9 DEF Caben
    <2>3. Reparto({x}, {})' /\ Lugar({x}, {b})' /\ (0 .. b - 1 \subseteq DeOtros(metadata, {x}))'
        BY <1>1, <1>5, <1>6, <1>8 DEF Reparto, Lugar
    <2> QED BY <2>1, <2>2, <2>3 DEF Recorre
  <1>12. AlRecorrer'
      BY <1>9, <1>11 DEF AlRecorrer
  <1>13. ConTamanio'
      BY <1>4, <1>9 DEF ConTamanio
  <1> QED BY <1>1, <1>12, <1>13, EstaRecorriendo

(* The first block taken after the first free one is where a file starts,  *)
(* and only one: what the walk finds is that file.                         *)
LEMMA EncuentraUno ==
  ASSUME NEW x, NEW b \in Nat, Recorre(x, b), DiscoOK,
         NEW s \in bitmap, s >= b, \A c \in bitmap : c >= b => s <= c
  PROVE  \E g \in DOMAIN metadata \ {x} :
           /\ metadata[g].inicio = s /\ metadata[x].inicio # s /\ b < s
           /\ \A f \in DOMAIN metadata \ {x} : metadata[f].inicio = s => f = g
  <1>1. bitmap = DeOtros(metadata, {x}) /\ Separados(metadata, {x}) /\ b \notin bitmap /\ bitmap \subseteq Nat
    <2>1. bitmap \subseteq Nat
        BY ConstantesOK DEF DiscoOK, Bloque
    <2> QED BY <2>1 DEF Recorre, Reparto, Lugar
  <1>2. PICK g \in DOMAIN metadata \ {x} : s \in Extension(metadata[g])
      BY <1>1 DEF DeOtros
  <1>3. PICK m \in [inicio: Nat, tam: Nat] : m = metadata[g]
      BY DEF DiscoOK
  <1>4. PICK n \in Nat : n >= 1 /\ Fin(m) = m.inicio + n /\ m.inicio \in Nat
                         /\ Extension(m) = m.inicio .. m.inicio + n - 1 /\ m.inicio \in Extension(m)
      BY ExtensionEs
  <1>5. s \in Nat /\ m.inicio <= s /\ ~(Fin(m) <= b)
      BY <1>1, <1>2, <1>3, <1>4
  <1>6. m.inicio >= b + 1 /\ metadata[x].inicio \notin Extension(m)
      BY <1>3, <1>5 DEF Recorre, Partidos
  <1>7. m.inicio \in bitmap
      BY <1>1, <1>3, <1>4, DeUno
  <1>8. m.inicio = s /\ b < s
    <2>1. m.inicio >= b
        BY <1>4, <1>6
    <2>2. s <= m.inicio
        BY <1>7, <2>1
    <2> QED BY <1>4, <1>5, <1>6, <2>2
  <1>9. metadata[x].inicio # s
      BY <1>2, <1>3, <1>6
  <1>10. ASSUME NEW f \in DOMAIN metadata \ {x}, metadata[f].inicio = s
         PROVE  f = g
    <2>1. metadata[f] \in [inicio: Nat, tam: Nat]
        BY DEF DiscoOK
    <2>2. s \in Extension(metadata[f])
        BY <1>10, <2>1, ExtensionEs
    <2> QED BY <1>1, <1>2, <2>2 DEF Separados
  <1> QED BY <1>3, <1>8, <1>9, <1>10

(* The walk sets out to move it, over what is free and its own blocks.     *)
LEMMA EmpiezaAMudar ==
  ASSUME NEW x, NEW b \in Nat, Recorre(x, b), DiscoOK, NEW f \in DOMAIN metadata \ {x},
         NEW m \in [inicio: Nat, tam: Nat], m = metadata[f], NEW s \in bitmap, s = m.inicio, b < s,
         \A c \in bitmap : c >= b => s <= c, NEW n \in Nat, n = BloquesDe(m.tam)
  PROVE  Muda(f, x, b, s, n) /\ Reparto({f, x}, s .. s + n - 1)
  <1>1. bitmap = DeOtros(metadata, {x}) /\ Separados(metadata, {x}) /\ b \notin bitmap /\ b \in Bloque
        /\ bitmap \subseteq Bloque /\ s \in Nat
      BY DEF DiscoOK, Recorre, Reparto, Lugar
  <1>2. Extension(m) = s .. s + n - 1 /\ n >= 1
      BY ExtensionEs
  <1> DEFINE O == DeOtros(metadata, {f, x})
             E == Extension(m)
  <1>3. bitmap = O \cup E /\ O \cap E = {} /\ Separados(metadata, {f, x})
    <2>1. {x} \cup {f} = {f, x}
        OBVIOUS
    <2>2. /\ DeOtros(metadata, {x}) = DeOtros(metadata, {x} \cup {f}) \cup Extension(metadata[f])
          /\ Separados(metadata, {x}) <=> Separados(metadata, {x} \cup {f})
                                            /\ Extension(metadata[f]) \cap DeOtros(metadata, {x} \cup {f}) = {}
        BY DeMas
    <2> QED BY <1>1, <2>1, <2>2
  <1>4. Caben({f, x}, n)
    <2> HIDE DEF O, E
    <2>1. Cardinality(O) \in Nat /\ Cardinality(O \cup E) = Cardinality(O) + n
      <3>1. O \subseteq Bloque /\ E \subseteq Bloque /\ O \cap E = {} /\ E = s .. s + n - 1
          BY <1>1, <1>2, <1>3 DEF E
      <3>2. Cardinality(E) = n
          BY <1>1, <3>1, RangoCardinal
      <3>3. /\ Cardinality(O) \in Nat
            /\ Cardinality(O \cup E) = Cardinality(O) + Cardinality(E)
          BY <3>1, CuentaConUno, Zenon
      <3> QED BY <3>2, <3>3
    <2>2. Caben({x}, 0)
        BY DEF Recorre
    <2>3. PICK t, d : t = BloquesDe(compacta.tam) /\ d = Cardinality(O)
        OBVIOUS
    <2>4. Cardinality(DeOtros(metadata, {x})) = d + n
        BY <1>1, <1>3, <2>1, <2>3
    <2>5. d + n + 0 + t <= CantBloques
        BY <2>2, <2>3, <2>4 DEF Caben
    <2>6. d + n + 0 = d + n
        BY <2>1, <2>3
    <2> QED BY <2>3, <2>5, <2>6 DEF Caben, O
  <1>5. Partidos(metadata, {f, x}, x, b, s + n)
    <2> SUFFICES ASSUME NEW g \in DOMAIN metadata \ {f, x}
                 PROVE  Fin(metadata[g]) <= b
                        \/ (metadata[g].inicio >= s + n /\ metadata[x].inicio \notin Extension(metadata[g]))
        BY DEF Partidos
    <2>1. PICK k \in [inicio: Nat, tam: Nat] : k = metadata[g]
        BY DEF DiscoOK
    <2>2. Fin(k) <= b \/ (k.inicio >= b + 1 /\ metadata[x].inicio \notin Extension(k))
        BY <2>1 DEF Recorre, Partidos
    <2>3. k.inicio \in Nat /\ k.inicio \in Extension(k) /\ Extension(k) \subseteq O
      <3>1. Extension(metadata[g]) \subseteq O
          BY DeUno
      <3> QED BY <2>1, <3>1, ExtensionEs
    <2>4. k.inicio \in bitmap /\ k.inicio \notin s .. s + n - 1
        BY <1>2, <1>3, <2>3
    <2> HIDE DEF O, E
    <2>5. k.inicio >= b + 1 => k.inicio >= s
      <3>1. k.inicio >= b + 1 => k.inicio >= b
          BY <2>3
      <3> QED BY <1>1, <2>3, <2>4, <3>1
    <2>6. k.inicio >= b + 1 => k.inicio >= s + n
        BY <1>1, <2>3, <2>4, <2>5
    <2> QED BY <2>1, <2>2, <2>6
  <1>6. 0 .. b - 1 \subseteq O
    <2>1. 0 .. b - 1 \subseteq O \cup E
        BY <1>1, <1>3 DEF Recorre
    <2>2. (0 .. b - 1) \cap (s .. s + n - 1) = {}
        BY <1>1
    <2> QED BY <1>2, <2>1, <2>2
  <1>7. b .. s + n - 1 \subseteq Bloque \ O
    <2> SUFFICES ASSUME NEW c \in b .. s + n - 1 PROVE c \in Bloque /\ c \notin O
        OBVIOUS
    <2> HIDE DEF O, E
    <2>1. CASE c >= s
      <3>1. c \in E
          BY <1>1, <1>2, <2>1 DEF E
      <3> QED BY <1>1, <1>3, <3>1
    <2>2. CASE c < s
      <3>1. c \notin bitmap
          BY <1>1, <2>2
      <3>2. s \in 0 .. CantBloques - 1 /\ CantBloques \in Nat
          BY <1>1, ConstantesOK DEF Bloque
      <3>3. c \in 0 .. CantBloques - 1
          BY <1>1, <2>2, <3>2
      <3> QED BY <1>3, <3>1, <3>3 DEF Bloque
    <2>3. c \in Int /\ s \in Int
        BY <1>1
    <2> QED BY <2>1, <2>2, <2>3
  <1> QED BY <1>2, <1>3, <1>4, <1>5, <1>6, <1>7 DEF Muda, Reparto, Lugar

LEMMA MudarArchivoBitmap ==
  ASSUME BInv, Tipos', MudarArchivo
  PROVE  BInv'
  <1>1. fase = "recorrer" /\ Ocupados # {} /\ UNCHANGED <<bitmap, metadata>>
      BY DEF MudarArchivo, disco
  <1>2. PICK x \in DOMAIN metadata, b \in Nat : x = compacta.archivo /\ b = compacta.libre
      BY <1>1 DEF BInv, Tipos, CompactaOK, FaseDeCompactar
  <1>3. Recorre(x, b) /\ DiscoOK
      BY <1>1, <1>2 DEF BInv, AlRecorrer, Tipos
  <1>4. bitmap # Bloque /\ bitmap \subseteq Nat /\ bitmap \subseteq Bloque
    <2>1. b \in Bloque /\ b \notin bitmap
        BY <1>3 DEF Recorre, Reparto, Lugar
    <2> QED BY <1>3, <2>1, ConstantesOK DEF DiscoOK, Bloque
  <1>5. Ocupados = {c \in bitmap : c >= b}
      BY <1>2, <1>4 DEF Ocupados
  <1>6. PICK s \in Ocupados : s = (CHOOSE d \in Ocupados : \A c \in Ocupados : d <= c) /\ \A c \in Ocupados : s <= c
    <2>1. Ocupados \subseteq Nat /\ Ocupados # {}
        BY <1>1, <1>4, <1>5
    <2>2. \E d \in Ocupados : \A c \in Ocupados : d <= c
        BY <2>1, HayMenor
    <2> QED BY <2>2
  <1>7. s \in bitmap /\ s >= b /\ \A c \in bitmap : c >= b => s <= c
      BY <1>5, <1>6
  <1>8. PICK g \in DOMAIN metadata \ {x} :
          /\ metadata[g].inicio = s /\ metadata[x].inicio # s /\ b < s
          /\ \A f \in DOMAIN metadata \ {x} : metadata[f].inicio = s => f = g
      BY <1>2, <1>3, <1>7, EncuentraUno
  <1>9. PorInicio(s) = {g}
      BY <1>8 DEF PorInicio
  <1>10. CASE Morir
      BY <1>10, NadaDice DEF Morir
  <1>11. CASE /\ fase' = "mudar" /\ lazo' = Lazo(g, compacta.libre, metadata[g].inicio, metadata[g])
              /\ compacta' = [compacta EXCEPT !.movio = TRUE, !.movido = Leido(metadata[g])]
    <2>1. PICK m \in [inicio: Nat, tam: Nat] : m = metadata[g]
        BY <1>3 DEF DiscoOK
    <2>2. PICK n \in Nat : n = BloquesDe(m.tam)
        BY ExtensionEs
    <2>3. s = m.inicio
        BY <1>8, <2>1
    <2>4. Muda(g, x, b, s, n) /\ Reparto({g, x}, s .. s + n - 1)
        BY <1>2, <1>3, <1>7, <1>8, <2>1, <2>2, <2>3, EmpiezaAMudar
    <2>5. compacta'.tam = compacta.tam /\ compacta'.archivo = x /\ compacta'.libre = b
      <3>1. CompactaOK
          BY DEF BInv, Tipos
      <3> QED BY <1>1, <1>2, <1>11, <3>1 DEF CompactaOK, FaseDeCompactar
    <2>6. Muda(g, x, b, s, n)'
        BY <1>1, <1>2, <2>4, <2>5, MudaIgual
    <2>7. Mudado(g, x, b, s, n, b, s, m)'
      <3>1. Reparto({g, x}, s .. s + n - 1)'
          BY <1>1, <2>4 DEF Reparto
      <3> QED BY <1>1, <1>11, <2>1, <3>1 DEF Mudado
    <2>8. lazo'.archivo = g /\ lazo'.i = b /\ lazo'.hasta = s /\ lazo'.meta = m
        BY <1>2, <1>8, <1>11, <2>1 DEF Lazo
    <2>9. AlMudar'
        BY <2>2, <2>3, <2>5, <2>6, <2>7, <2>8 DEF AlMudar
    <2>10. ConTamanio'
        BY <1>1, <2>5 DEF BInv, ConTamanio
    <2>11. fase' \in FaseDeMudar
        BY <1>11 DEF FaseDeMudar
    <2> QED BY <2>9, <2>10, <2>11, EstaMudando
  <1> QED BY <1>6, <1>9, <1>10, <1>11 DEF MudarArchivo

LEMMA MudarMetadataBitmap ==
  ASSUME BInv, Tipos', MudarMetadata
  PROVE  BInv'
  <1>1. fase = "mudar" /\ fase' = "mudar ocupar" /\ fase \in FaseDeMudar /\ fase' \in FaseDeMudar
        /\ bitmap' = bitmap /\ compacta' = compacta /\ lazo' = lazo
        /\ Guardar(lazo.archivo, [lazo.meta EXCEPT !.inicio = compacta.libre])
      BY DEF MudarMetadata, Seguir, FaseDeMudar
  <1>2. PICK l \in UnLazo, x \in DOMAIN metadata, b \in Nat, s \in Nat, n \in Nat :
          /\ l = lazo /\ x = compacta.archivo /\ b = compacta.libre
          /\ s = l.meta.inicio /\ n = BloquesDe(l.meta.tam) /\ n >= 1
          /\ Muda(l.archivo, x, b, s, n)
          /\ Mudado(l.archivo, x, b, s, n, l.i, l.hasta, l.meta)
      BY <1>1, MudanzaEs
  <1>3. PICK f \in Archivo, i \in Nat, h \in Nat : f = l.archivo /\ i = l.i /\ h = l.hasta
      BY DEF UnLazo
  <1>4. Muda(f, x, b, s, n) /\ Mudado(f, x, b, s, n, i, h, l.meta)
      BY <1>2, <1>3
  <1>5. Reparto({f, x}, s .. s + n - 1) /\ i = b /\ h = s
      BY <1>1, <1>4 DEF Mudado
  <1>6. metadata' = [g \in DOMAIN metadata \cup {f} |-> IF g = f THEN [l.meta EXCEPT !.inicio = b] ELSE metadata[g]]
      BY <1>1, <1>2, <1>3 DEF Guardar
  <1>7. f \in DOMAIN metadata
      BY <1>1, <1>2, <1>3 DEF BInv, Tipos, LazoOK
  <1>8. DOMAIN metadata' = DOMAIN metadata /\ metadata'[f] = [l.meta EXCEPT !.inicio = b]
        /\ \A g \in DOMAIN metadata \ {f} : metadata'[g] = metadata[g]
      BY <1>6, <1>7
  <1>9. /\ Muda(f, x, b, s, n)'
        /\ DeOtros(metadata, {f, x})' = DeOtros(metadata, {f, x})
        /\ Separados(metadata, {f, x})' /\ Separados(metadata, {f, x})
      BY <1>1, <1>2, <1>4, <1>8, MudaIgual
  <1>10. (b .. i - 1) \cup (s .. s + n - 1) = s .. s + n - 1
      BY <1>5
  <1>11. Reparto({f, x}, (b .. i - 1) \cup (s .. s + n - 1))'
      BY <1>1, <1>5, <1>9, <1>10 DEF Reparto
  <1>12. b <= i /\ i <= s
      BY <1>4, <1>5 DEF Muda
  <1>13. Mudado(f, x, b, s, n, i, h, l.meta)'
      BY <1>1, <1>5, <1>8, <1>11, <1>12 DEF Mudado
  <1>14. Muda(l.archivo, x, b, s, n)' /\ Mudado(l.archivo, x, b, s, n, l.i, l.hasta, l.meta)'
      BY <1>3, <1>9, <1>13
  <1> QED BY <1>1, <1>2, <1>14, SigueMudando DEF BInv

LEMMA MudarDatosBitmap ==
  ASSUME BInv, Tipos', MudarDatos
  PROVE  BInv'
  <1>1. fase = "mudar escribir" /\ fase' = "mudar liberar" /\ fase \in FaseDeMudar /\ fase' \in FaseDeMudar
        /\ bitmap' = bitmap /\ metadata' = metadata /\ compacta' = compacta
      BY DEF MudarDatos, Seguir, FaseDeMudar
  <1>2. PICK l \in UnLazo, x \in DOMAIN metadata, b \in Nat, s \in Nat, n \in Nat :
          /\ l = lazo /\ x = compacta.archivo /\ b = compacta.libre
          /\ s = l.meta.inicio /\ n = BloquesDe(l.meta.tam) /\ n >= 1
          /\ Muda(l.archivo, x, b, s, n)
          /\ Mudado(l.archivo, x, b, s, n, l.i, l.hasta, l.meta)
      BY <1>1, MudanzaEs
  <1>3. PICK f \in Archivo : f = l.archivo
      BY DEF UnLazo
  <1>4. metadata[f] = [l.meta EXCEPT !.inicio = b] /\ Reparto({f, x}, b .. s + n - 1)
      BY <1>1, <1>2, <1>3 DEF Mudado
  <1>5. PICK i \in Nat, h \in Nat : i = b + n /\ h = s + n
      OBVIOUS
  <1>6. b < s /\ Muda(f, x, b, s, n)
      BY <1>2, <1>3 DEF Muda
  <1>7. b + n <= i /\ i <= s + n /\ (b .. b + n - 1) \cup (i .. s + n - 1) = b .. s + n - 1
      BY <1>5, <1>6
  <1>8. Reparto({f, x}, (b .. b + n - 1) \cup (i .. s + n - 1))'
      BY <1>1, <1>4, <1>7 DEF Reparto
  <1>9. Muda(f, x, b, s, n)'
      BY <1>1, <1>2, <1>6, MudaIgual
  <1>10. Mudado(f, x, b, s, n, i, h, l.meta)'
      BY <1>1, <1>4, <1>5, <1>7, <1>8 DEF Mudado
  <1>11. PICK k \in UnLazo : k = lazo' /\ k.archivo = f /\ k.i = i /\ k.hasta = h /\ k.meta = l.meta
    <2>1. lazo' = [l EXCEPT !.i = i, !.hasta = h]
        BY <1>2, <1>5 DEF MudarDatos, Seguir
    <2>2. [l EXCEPT !.i = i, !.hasta = h] \in UnLazo
        BY DEF UnLazo
    <2>3. lazo'.archivo = f /\ lazo'.i = i /\ lazo'.hasta = h /\ lazo'.meta = l.meta
        BY <1>3, <2>1 DEF UnLazo
    <2> QED BY <2>1, <2>2, <2>3
  <1>12. Muda(k.archivo, x, b, s, n)' /\ Mudado(k.archivo, x, b, s, n, k.i, k.hasta, k.meta)'
      BY <1>9, <1>10, <1>11
  <1>13. s = k.meta.inicio /\ n = BloquesDe(k.meta.tam)
      BY <1>2, <1>11
  <1> QED BY <1>1, <1>2, <1>11, <1>12, <1>13, SigueMudando DEF BInv

LEMMA FinDeMudanzaBitmap ==
  ASSUME BInv, Tipos', FinDeMudanza
  PROVE  BInv'
  <1>1. fase = "mudar liberar" /\ fase' = "recorrer" /\ fase \in FaseDeMudar
        /\ bitmap' = bitmap /\ metadata' = metadata /\ lazo.i >= lazo.hasta
      BY DEF FinDeMudanza, FaseDeMudar
  <1>2. PICK l \in UnLazo, x \in DOMAIN metadata, b \in Nat, s \in Nat, n \in Nat :
          /\ l = lazo /\ x = compacta.archivo /\ b = compacta.libre
          /\ s = l.meta.inicio /\ n = BloquesDe(l.meta.tam) /\ n >= 1
          /\ Muda(l.archivo, x, b, s, n)
          /\ Mudado(l.archivo, x, b, s, n, l.i, l.hasta, l.meta)
      BY <1>1, MudanzaEs
  <1>3. PICK f \in Archivo, i \in Nat, h \in Nat : f = l.archivo /\ i = l.i /\ h = l.hasta /\ i >= h
      BY <1>1, <1>2 DEF UnLazo
  <1>4. Muda(f, x, b, s, n) /\ Mudado(f, x, b, s, n, i, h, l.meta)
      BY <1>2, <1>3
  <1>5. /\ metadata[f] = [l.meta EXCEPT !.inicio = b]
        /\ Reparto({f, x}, (b .. b + n - 1) \cup (i .. s + n - 1)) /\ h = s + n
      BY <1>1, <1>4 DEF Mudado
  <1>6. (b .. b + n - 1) \cup (i .. s + n - 1) = b .. b + n - 1
      BY <1>3, <1>5
  <1>7. PICK m \in [inicio: Nat, tam: Nat] : m = metadata[f] /\ m.inicio = b /\ BloquesDe(m.tam) = n
    <2>1. l.meta \in [inicio: Nat, tam: Nat]
        BY DEF UnLazo
    <2>2. [l.meta EXCEPT !.inicio = b] \in [inicio: Nat, tam: Nat] /\ [l.meta EXCEPT !.inicio = b].inicio = b
          /\ [l.meta EXCEPT !.inicio = b].tam = l.meta.tam
        BY <2>1
    <2> QED BY <1>2, <1>5, <2>2
  <1>8. Extension(m) = b .. b + n - 1 /\ Fin(m) = b + n
      BY <1>7, ExtensionEs
  <1>9. PICK p \in Nat : p = b + n /\ p - 1 = b + n - 1
      OBVIOUS
  <1> DEFINE O == DeOtros(metadata, {f, x})
             E == b .. b + n - 1
  <1>10. bitmap = O \cup E /\ Separados(metadata, {f, x}) /\ b .. s + n - 1 \subseteq Bloque \ O /\ b < s /\ f # x
         /\ bitmap \subseteq Bloque /\ f \in DOMAIN metadata
    <2>1. bitmap = O \cup E /\ Separados(metadata, {f, x})
        BY <1>5, <1>6 DEF Reparto
    <2>2. bitmap \subseteq Bloque /\ f \in DOMAIN metadata
        BY <1>1, <1>2, <1>3 DEF BInv, Tipos, DiscoOK, LazoOK
    <2> QED BY <1>4, <2>1, <2>2 DEF Muda, Lugar
  <1>11. E \subseteq b .. s + n - 1 /\ p \in b .. s + n - 1 /\ p \notin E /\ s + n >= p + 1
      BY <1>2, <1>9, <1>10
  <1>12. O \cap E = {} /\ E \subseteq Bloque /\ O \subseteq Bloque /\ p \in Bloque /\ p \notin O
      BY <1>10, <1>11
  <1>13. bitmap = DeOtros(metadata, {x}) /\ Separados(metadata, {x})
    <2>1. f \in DOMAIN metadata \ {x} /\ {x} \cup {f} = {f, x} /\ Extension(metadata[f]) = E
        BY <1>7, <1>8, <1>10
    <2>2. /\ DeOtros(metadata, {x}) = DeOtros(metadata, {x} \cup {f}) \cup Extension(metadata[f])
          /\ Separados(metadata, {x}) <=> Separados(metadata, {x} \cup {f})
                                            /\ Extension(metadata[f]) \cap DeOtros(metadata, {x} \cup {f}) = {}
        BY <2>1, DeMas
    <2>3. E \cap O = {}
        BY <1>12
    <2> QED BY <1>10, <2>1, <2>2, <2>3
  <1>14. compacta'.archivo = x /\ compacta'.libre = p /\ compacta'.tam = compacta.tam
    <2>1. CompactaOK
        BY DEF BInv, Tipos
    <2>2. compacta' = [compacta EXCEPT !.libre = @ + BloquesDe(lazo.meta.tam), !.movido = <<>>]
        BY DEF FinDeMudanza
    <2>3. compacta.libre + BloquesDe(lazo.meta.tam) = p
        BY <1>2, <1>9
    <2> QED BY <1>1, <1>2, <2>1, <2>2, <2>3 DEF CompactaOK, FaseDeMudar, FaseDeCompactar
  <1>15. Caben({x}, 0)'
    <2> HIDE DEF O, E
    <2>1. Cardinality(E) = n
        BY RangoCardinal DEF E
    <2>2. Cardinality(O) \in Nat /\ Cardinality(O \cup E) = Cardinality(O) + n
        BY <1>12, <2>1, CuentaConUno
    <2>3. PICK c \in Nat, t \in {BloquesDe(compacta.tam)} : c = Cardinality(O) /\ t = BloquesDe(compacta.tam)
        BY <2>2
    <2>4. c + n + t <= CantBloques
        BY <1>4, <2>3 DEF Muda, Caben, O
    <2>5. Cardinality(DeOtros(metadata, {x})) = c + n
        BY <1>10, <1>13, <2>2, <2>3
    <2>6. Cardinality(DeOtros(metadata', {x})) = c + n
        BY <1>1, <2>5
    <2>7. BloquesDe(compacta'.tam) = t
        BY <1>14, <2>3
    <2>8. c + n + 0 = c + n
        BY <2>3
    <2>9. Cardinality(DeOtros(metadata', {x})) + 0 + BloquesDe(compacta'.tam) <= CantBloques
        BY <2>4, <2>6, <2>7, <2>8
    <2> QED BY <2>9 DEF Caben
  <1>16. Partidos(metadata, {x}, x, p, p + 1)
    <2> SUFFICES ASSUME NEW g \in DOMAIN metadata \ {x}
                 PROVE  Fin(metadata[g]) <= p
                        \/ (metadata[g].inicio >= p + 1 /\ metadata[x].inicio \notin Extension(metadata[g]))
        BY DEF Partidos
    <2>1. CASE g = f
        BY <1>7, <1>8, <1>9, <2>1
    <2>2. CASE g # f
      <3>1. PICK k \in [inicio: Nat, tam: Nat] : k = metadata[g]
          BY DEF BInv, Tipos, DiscoOK
      <3>2. Fin(k) <= b \/ (k.inicio >= s + n /\ metadata[x].inicio \notin Extension(k))
          BY <1>4, <2>2, <3>1 DEF Muda, Partidos
      <3>3. Fin(k) \in Nat /\ k.inicio \in Nat
          BY ExtensionEs
      <3>4. (Fin(k) <= b => Fin(k) <= p) /\ (k.inicio >= s + n => k.inicio >= p + 1)
          BY <1>9, <1>11, <3>3
      <3> QED BY <3>1, <3>2, <3>4
    <2> QED BY <2>1, <2>2
  <1>17. 0 .. p - 1 \subseteq O \cup E
    <2>1. 0 .. b - 1 \subseteq O
        BY <1>4 DEF Muda
    <2>2. 0 .. p - 1 = (0 .. b - 1) \cup (b .. b + n - 1)
        BY <1>9
    <2> QED BY <2>1, <2>2
  <1>18. Recorre(x, p)'
    <2>1. Partidos(metadata, {x}, x, p, p + 1)'
        BY <1>1, <1>16
    <2>2. p \notin bitmap
        BY <1>10, <1>11, <1>12
    <2> HIDE DEF O, E
    <2>3. Reparto({x}, {})' /\ Lugar({x}, {p})' /\ (0 .. p - 1 \subseteq DeOtros(metadata, {x}))'
        BY <1>1, <1>10, <1>12, <1>13, <1>17, <2>2 DEF Reparto, Lugar
    <2> QED BY <1>15, <2>1, <2>3 DEF Recorre
  <1>19. AlRecorrer'
      BY <1>14, <1>18 DEF AlRecorrer
  <1>20. ConTamanio'
      BY <1>1, <1>14 DEF BInv, ConTamanio
  <1> QED BY <1>1, <1>19, <1>20, EstaRecorriendo

(* At the end of the walk the disk is full up to the first free block, and *)
(* the rest has room for the file that was taken out.                      *)
LEMMA FinDeRecorridoBitmap ==
  ASSUME BInv, Tipos', FinDeRecorrido
  PROVE  BInv'
  <1>1. fase = "recorrer" /\ Ocupados = {} /\ UNCHANGED <<bitmap, metadata>>
      BY DEF FinDeRecorrido, disco
  <1>2. PICK x \in DOMAIN metadata, b \in Nat, t \in Nat :
          x = compacta.archivo /\ b = compacta.libre /\ t = compacta.tam /\ t > 0
    <2>1. compacta.archivo \in DOMAIN metadata /\ compacta.libre \in Nat /\ compacta.tam \in Nat
        BY <1>1, ConstantesOK DEF BInv, Tipos, CompactaOK, FaseDeCompactar
    <2>2. compacta.tam > 0
        BY <1>1 DEF BInv, ConTamanio
    <2> QED BY <2>1, <2>2
  <1>3. Recorre(x, b) /\ bitmap \subseteq Bloque
      BY <1>1, <1>2 DEF BInv, AlRecorrer, Tipos, DiscoOK
  <1>4. bitmap = DeOtros(metadata, {x}) /\ Separados(metadata, {x}) /\ b \in Bloque /\ b \notin bitmap
        /\ 0 .. b - 1 \subseteq bitmap
      BY <1>3 DEF Recorre, Reparto, Lugar
  <1>5. bitmap = 0 .. b - 1
    <2>1. Ocupados = {c \in bitmap : c >= b}
        BY <1>2, <1>4 DEF Ocupados
    <2>2. \A c \in bitmap : ~(c >= b)
        BY <1>1, <2>1
    <2>3. bitmap \subseteq Nat
        BY <1>3, ConstantesOK DEF Bloque
    <2>4. bitmap \subseteq 0 .. b - 1
        BY <2>2, <2>3
    <2> QED BY <1>4, <2>4
  <1>6. PICK n \in Nat : n = BloquesDe(t) /\ n >= 1 /\ n = Techo(t)
      BY <1>2, BloquesPositivo
  <1>7. b + n <= CantBloques
    <2>1. Cardinality(bitmap) = b
      <3>1. 0 .. b - 1 = 0 .. 0 + b - 1
          OBVIOUS
      <3> QED BY <1>5, <3>1, RangoCardinal
    <2>2. b + 0 + n <= CantBloques
        BY <1>2, <1>3, <1>4, <1>6, <2>1 DEF Recorre, Caben
    <2> QED BY <2>2
  <1>8. CASE Morir
      BY <1>8, NadaDice DEF Morir
  <1>9. CASE Seguir("poner ocupar", Lazo(x, b, b + Techo(t), [inicio |-> b, tam |-> t]))
    <2>1. PICK m \in [inicio: Nat, tam: Nat] : m = [inicio |-> b, tam |-> t] /\ m.inicio = b /\ m.tam = t
      <3>1. [inicio |-> b, tam |-> t] \in [inicio: Nat, tam: Nat]
            /\ [inicio |-> b, tam |-> t].inicio = b /\ [inicio |-> b, tam |-> t].tam = t
          OBVIOUS
      <3> QED BY <3>1
    <2>2. PICK h \in Nat : h = b + n /\ h = b + Techo(t) /\ Fin(m) = h /\ Extension(m) = b .. h - 1
      <3>1. Fin(m) = b + n /\ Extension(m) = b .. b + n - 1 /\ b + n \in Nat /\ b + n = b + Techo(t)
          BY <1>6, <2>1, ExtensionEs
      <3> QED BY <3>1
    <2>3. b .. h - 1 \subseteq Bloque \ bitmap
        BY <1>5, <1>7, <2>2, ConstantesOK DEF Bloque
    <2>4. b .. b - 1 = {}
        OBVIOUS
    <2>5. Reparto({x}, b .. b - 1)' /\ Lugar({x}, Extension(m))'
        BY <1>1, <1>4, <2>2, <2>3, <2>4 DEF Reparto, Lugar
    <2>6. lazo'.archivo = x /\ lazo'.i = b /\ lazo'.hasta = h /\ lazo'.meta = m /\ fase' = "poner ocupar"
        BY <1>9, <2>1, <2>2 DEF Seguir, Lazo
    <2>7. b <= h /\ b <= b /\ h = Fin(m) /\ m.inicio = b
        BY <2>1, <2>2
    <2>8. PICK k \in Nat : k = b
        OBVIOUS
    <2>9. Reparto({x}, m.inicio .. k - 1)'
        BY <2>1, <2>5, <2>8
    <2>10. lazo'.i = k /\ lazo'.archivo = x /\ lazo'.hasta = h /\ lazo'.meta = m
        BY <2>6, <2>8
    <2>11. m.inicio <= k /\ k <= h
        BY <2>7, <2>8
    <2>12. Crece(lazo)'
        BY <2>5, <2>7, <2>9, <2>10, <2>11 DEF Crece
    <2> QED BY <2>6, <2>12, EstaCreciendo DEF FaseDeCrecer
  <1>10. Morir \/ Seguir("poner ocupar", Lazo(x, b, b + Techo(t), [inicio |-> b, tam |-> t]))
    <2>1. Morir \/ Seguir("poner ocupar",
                          Lazo(compacta.archivo, compacta.libre, compacta.libre + Techo(compacta.tam),
                               [inicio |-> compacta.libre, tam |-> compacta.tam]))
        BY DEF FinDeRecorrido
    <2> QED BY <1>2, <2>1
  <1> QED BY <1>8, <1>9, <1>10

-----------------------------------------------------------------------------
(* No step of an interface that is not started again breaks it.            *)
LEMMA PasoBitmap ==
  ASSUME SinBorrarVacios, ~Reinicios, BInv, [Next]_vars
  PROVE  BInv'
  <1>1. Tipos'
      BY PasoTipos DEF BInv
  <1>2. CASE Pedido
    <2>1. PICK f \in Archivo :
            \/ crear_archivo(f) \/ borrar_archivo(f) \/ archivo_inexistente(f)
            \/ \E tam \in Tamanios : agrandar_archivo(f, tam) \/ achicar_archivo(f, tam)
            \/ \E k \in Punteros, n \in Largos :
                 leer_en_archivo(f, k, n) \/ \E d \in Dato : escribir_en_archivo(f, k, n, d)
        BY <1>2 DEF Pedido
    <2>2. CASE crear_archivo(f)
        BY <1>1, <2>2, CrearBitmap
    <2>3. CASE borrar_archivo(f)
        BY <1>1, <2>3, BorrarBitmap
    <2>4. ASSUME NEW tam \in Tamanios, agrandar_archivo(f, tam)
          PROVE  BInv'
        BY <1>1, <2>4, AgrandarBitmap
    <2>5. CASE \/ archivo_inexistente(f)
               \/ \E tam \in Tamanios : achicar_archivo(f, tam)
               \/ \E k \in Punteros, n \in Largos :
                    leer_en_archivo(f, k, n) \/ \E d \in Dato : escribir_en_archivo(f, k, n, d)
        BY <1>1, <2>5, OtrasOrdenesBitmap
    <2> QED BY <2>1, <2>2, <2>3, <2>4, <2>5
  <1>3. CASE Paso
      BY <1>1, <1>3, OcuparBitmap, LiberarBitmap, LimpiarBitmap, FinDeLazoBitmap, AbrirBitmap, GuardarBitmap,
         QuitarBitmap, FinDeSacarBitmap, MudarArchivoBitmap, MudarMetadataBitmap, MudarDatosBitmap,
         FinDeMudanzaBitmap, FinDeRecorridoBitmap DEF Paso
  <1>4. CASE Caer \/ CaerAlGuardar
      BY <1>1, <1>4, NadaDice DEF Caer, CaerAlGuardar, Morir
  <1>5. CASE Reiniciar
      BY <1>5 DEF Reiniciar
  <1>6. CASE UNCHANGED vars
    <2>1. UNCHANGED <<bitmap, metadata, fase, lazo, compacta>>
        BY <1>6 DEF vars
    <2> QED BY <1>1, <2>1, ZenonT(60) DEF BInv, EnReposo, AlCrecer, AlSoltar, ConTamanio, AlSacar, AlRecorrer, AlMudar,
               Crece, Suelta, Recorre, Muda, Mudado, Reparto, Lugar, Caben
  <1> QED BY <1>2, <1>3, <1>4, <1>5, <1>6 DEF Next

(* Without restarts, and while nobody asks to delete an empty file, which  *)
(* leaves its block taken, an idle interface has in its bitmap the blocks  *)
(* that the metadata of its files say and no other: growing in place,      *)
(* deleting and any number of compactions (every file moved to the first   *)
(* free block, over its own old place, and the one that grew put at the    *)
(* end) lose none and leave none taken, on a disk of any size.             *)
THEOREM SiempreBitmapCoherente == SinBorrarVacios /\ ~Reinicios => (Spec => []BitmapCoherente)
  <1> SUFFICES ASSUME SinBorrarVacios, ~Reinicios PROVE Spec => []BitmapCoherente
      OBVIOUS
  <1>1. Init => BInv
      BY InicioBitmap
  <1>2. BInv /\ [Next]_vars => BInv'
      BY PasoBitmap
  <1>3. BInv => BitmapCoherente
      BY DEF BInv, EnReposo, Reparto, DeOtros, BitmapCoherente
  <1> QED BY <1>1, <1>2, <1>3, PTL DEF Spec

-----------------------------------------------------------------------------
(***************************************************************************)
(* Bytes of a file                                                         *)
(***************************************************************************)
(* The blocks of a file hold its size, and each of its bytes is in one.    *)
LEMMA TamanioCabe ==
  ASSUME NEW t \in Nat
  PROVE  t <= BloquesDe(t) * TamBloque
  <1> DEFINE q == (t + TamBloque - 1) \div TamBloque
  <1>1. TamBloque \in Nat /\ TamBloque >= 1
      BY ConstantesOK
  <1>2. CASE t = 0
    <2>1. BloquesDe(t) * TamBloque = TamBloque
        BY <1>1, <1>2 DEF BloquesDe
    <2> QED BY <1>1, <1>2, <2>1
  <1>3. CASE t > 0
    <2>1. q \in Int /\ t + TamBloque - 1 < (q + 1) * TamBloque
        BY <1>1, SMTT(30)
    <2>2. (q + 1) * TamBloque = q * TamBloque + TamBloque /\ q * TamBloque \in Int
        BY <1>1, <2>1, SMTT(30)
    <2>3. BloquesDe(t) = q
        BY <1>3 DEF BloquesDe, Techo
    <2> HIDE DEF q
    <2> QED BY <1>1, <2>1, <2>2, <2>3
  <1> QED BY <1>2, <1>3

LEMMA BloqueDelByte ==
  ASSUME NEW x \in Nat, NEW n \in Nat, NEW k \in Nat, k < n * TamBloque
  PROVE  (x * TamBloque + k) \div TamBloque \in x .. x + n - 1
  <1> DEFINE y == x * TamBloque + k
             d == y \div TamBloque
  <1>1. TamBloque \in Nat /\ TamBloque >= 1 /\ y \in Nat
      BY ConstantesOK, SMTT(30)
  <1>2. d \in Int /\ d * TamBloque <= y /\ y < (d + 1) * TamBloque
    <2> HIDE DEF y
    <2> QED BY <1>1, SMTT(30)
  <1> HIDE DEF d
  <1>3. x <= d
    <2>1. SUFFICES ASSUME d + 1 <= x PROVE FALSE
        BY <1>2
    <2>2. (d + 1) * TamBloque <= x * TamBloque
        BY <1>1, <1>2, <2>1, SMTT(30)
    <2>3. x * TamBloque \in Nat /\ (d + 1) * TamBloque \in Int
        BY <1>1, <1>2, SMTT(30)
    <2> QED BY <1>2, <2>2, <2>3
  <1>4. d <= x + n - 1
    <2>1. SUFFICES ASSUME x + n <= d PROVE FALSE
        BY <1>2
    <2>2. (x + n) * TamBloque <= d * TamBloque
        BY <1>1, <1>2, <2>1, SMTT(30)
    <2>3. (x + n) * TamBloque = x * TamBloque + n * TamBloque
        BY <1>1, SMTT(30)
    <2>4. x * TamBloque \in Nat /\ n * TamBloque \in Nat /\ d * TamBloque \in Int
        BY <1>1, <1>2, SMTT(30)
    <2> QED BY <1>2, <2>2, <2>3, <2>4
  <1> QED BY <1>2, <1>3, <1>4 DEF d

LEMMA ByteDeArchivo ==
  ASSUME NEW m \in [inicio: Nat, tam: Nat], NEW k \in 0 .. m.tam - 1
  PROVE  (m.inicio * TamBloque + k) \div TamBloque \in Extension(m)
  <1>1. k \in Nat /\ k < m.tam /\ m.tam \in Nat /\ m.inicio \in Nat
      OBVIOUS
  <1> DEFINE n == BloquesDe(m.tam)
  <1>2. n \in Nat /\ m.tam <= n * TamBloque
      BY <1>1, BloquesNat, TamanioCabe
  <1> HIDE DEF n
  <1>3. n * TamBloque \in Nat
      BY <1>2, ConstantesOK, SMTT(30)
  <1>4. k < n * TamBloque
      BY <1>1, <1>2, <1>3
  <1>5. (m.inicio * TamBloque + k) \div TamBloque \in m.inicio .. m.inicio + n - 1
      BY <1>1, <1>2, <1>4, BloqueDelByte
  <1> QED BY <1>5 DEF Extension, n

-----------------------------------------------------------------------------
(***************************************************************************)
(* The files from outside                                                  *)
(***************************************************************************)
\* The bytes d of the disk that the metadata m says are of its file, and the
\* contents A that the processes know of the files of M, but for those of F.
Bytes(d, m) == [k \in 0 .. m.tam - 1 |->
                  LET b == m.inicio * TamBloque + k IN IF b \in Byte THEN d[b] ELSE Cero]

Fiel(A, d, M, F) ==
  /\ A = [g \in DOMAIN M |-> A[g]]
  /\ \A g \in DOMAIN M : A[g] = [k \in 0 .. M[g].tam - 1 |-> A[g][k]]
  /\ \A g \in DOMAIN M \ F : A[g] = Bytes(d, M[g])

EsPrefijo(s, r) == \A k \in DOMAIN s : s[k] = r[k]

(* Files that the order under way has taken, whole or in part, off their   *)
(* place.                                                                  *)
EnMano ==
  CASE fase = "reposo" -> {}
    [] fase \in {"sacar", "recorrer", "mudar liberar"} -> {compacta.archivo}
    [] fase \in {"mudar", "mudar ocupar", "mudar escribir"} -> {compacta.archivo, lazo.archivo}
    [] OTHER -> {lazo.archivo}

Recuerda ==
  fase \notin {"muerto", "recortar"} =>
    /\ Fiel(antes, datos, metadata, EnMano)
    /\ vacias \subseteq IF fase = "guardar" THEN {lazo.archivo} ELSE {}

AlNacer ==
  fase \in {"reservar", "abrir"} \/ (fase = "guardar" /\ lazo.archivo \in vacias) => lazo.meta.tam = 0

AlEstirar ==
  fase = "ocupar" \/ (fase = "guardar" /\ lazo.archivo \notin vacias) =>
    /\ lazo.archivo \in DOMAIN metadata /\ metadata[lazo.archivo].tam < lazo.meta.tam
    /\ EsPrefijo(antes[lazo.archivo], Bytes(datos, lazo.meta))

AlOcupar ==
  fase = "ocupar" => /\ lazo.meta.inicio = metadata[lazo.archivo].inicio
                     /\ Fin(metadata[lazo.archivo]) <= lazo.i

AlBorrar ==
  fase \in {"liberar", "limpiar"} =>
    /\ Extension(metadata[lazo.archivo]) \cap DeOtros(metadata, {lazo.archivo}) = {}
    /\ lazo.hasta <= Fin(metadata[lazo.archivo])
    /\ fase = "limpiar" => metadata[lazo.archivo].inicio <= lazo.i

\* What a compaction keeps in memory is what the files had,
AlCompactar ==
  fase \in FaseDeCompactar => /\ compacta.buffer = antes[compacta.archivo]
                              /\ metadata[compacta.archivo].tam < compacta.tam

AlLlevar ==
  fase \in FaseDeMudar => /\ compacta.movido = antes[lazo.archivo]
                          /\ lazo.meta.tam = metadata[lazo.archivo].tam

\* and it is put after all the others.
AlPoner ==
  fase \in {"poner ocupar", "poner escribir"} =>
    lazo.archivo = compacta.archivo /\ lazo.meta = [inicio |-> compacta.libre, tam |-> compacta.tam]

DInv == Recuerda /\ AlNacer /\ AlEstirar /\ AlOcupar /\ AlBorrar /\ AlCompactar /\ AlLlevar /\ AlPoner

LEMMA InicioDatos == Init => DInv
  BY DEF Init, DInv, Recuerda, AlNacer, AlEstirar, AlOcupar, AlBorrar, AlCompactar, AlLlevar, AlPoner,
         Fiel, FaseDeCompactar, FaseDeMudar, EnMano

LEMMA NadaDeDatos ==
  ASSUME fase' \in {"muerto", "recortar"}
  PROVE  DInv'
  BY DEF DInv, Recuerda, AlNacer, AlEstirar, AlOcupar, AlBorrar, AlCompactar, AlLlevar, AlPoner,
         FaseDeCompactar, FaseDeMudar

(* An answer remembers what the files have.                                *)
LEMMA LeidoEs ==
  ASSUME NEW m
  PROVE  Leido(m) = Bytes(datos, m)
  BY DEF Leido, Bytes

LEMMA ContestarDatos ==
  ASSUME fase' = "reposo", antes' = Contenido', vacias' = {}
  PROVE  DInv'
  <1>1. EnMano' = {}
      BY DEF EnMano
  <1>2. Fiel(antes', datos', metadata', {})
      BY DEF Fiel, Contenido, Leido, Bytes
  <1> QED BY <1>1, <1>2 DEF DInv, Recuerda, AlNacer, AlEstirar, AlOcupar, AlBorrar, AlCompactar, AlLlevar, AlPoner,
               FaseDeCompactar, FaseDeMudar

LEMMA FielMenos ==
  ASSUME NEW A, NEW d, NEW M, NEW F, NEW G, Fiel(A, d, M, F), F \subseteq G
  PROVE  Fiel(A, d, M, G)
  BY DEF Fiel

(* A file is read from its blocks only,                                    *)
LEMMA BytesIguales ==
  ASSUME NEW m \in [inicio: Nat, tam: Nat], NEW d, NEW e,
         \A b \in Byte : b \div TamBloque \in Extension(m) => e[b] = d[b]
  PROVE  Bytes(e, m) = Bytes(d, m)
  <1>1. ASSUME NEW k \in 0 .. m.tam - 1, m.inicio * TamBloque + k \in Byte
        PROVE  e[m.inicio * TamBloque + k] = d[m.inicio * TamBloque + k]
      BY <1>1, ByteDeArchivo
  <1> QED BY <1>1 DEF Bytes

(* so what is written elsewhere leaves it as it was.                       *)
LEMMA FielSigue ==
  ASSUME NEW A, NEW d, NEW e, NEW M, NEW F, Fiel(A, d, M, F),
         \A g \in DOMAIN M : M[g] \in [inicio: Nat, tam: Nat],
         \A b \in Byte : b \div TamBloque \in DeOtros(M, F) => e[b] = d[b]
  PROVE  Fiel(A, e, M, F)
  <1>1. ASSUME NEW g \in DOMAIN M \ F
        PROVE  Bytes(e, M[g]) = Bytes(d, M[g])
    <2>1. \A b \in Byte : b \div TamBloque \in Extension(M[g]) => e[b] = d[b]
        BY DeUno
    <2> QED BY <2>1, BytesIguales
  <1> QED BY <1>1 DEF Fiel

LEMMA EnByte ==
  ASSUME NEW y \in Nat, y \div TamBloque \in Bloque
  PROVE  y \in Byte
  <1> DEFINE d == y \div TamBloque
  <1>1. TamBloque \in Nat /\ TamBloque >= 1 /\ CantBloques \in Nat
      BY ConstantesOK
  <1>2. d \in Int /\ y < (d + 1) * TamBloque
      BY <1>1, SMTT(30)
  <1>3. d + 1 <= CantBloques
      BY <1>1 DEF Bloque
  <1> HIDE DEF d
  <1>4. (d + 1) * TamBloque <= CantBloques * TamBloque
      BY <1>1, <1>2, <1>3, SMTT(30)
  <1>5. (d + 1) * TamBloque \in Int /\ CantBloques * TamBloque \in Int
      BY <1>1, <1>2, SMTT(30)
  <1> QED BY <1>2, <1>4, <1>5 DEF Byte

(* A file put in blocks of the disk is read back.                          *)
LEMMA EscritoSeLee ==
  ASSUME NEW m \in [inicio: Nat, tam: Nat], Extension(m) \subseteq Bloque,
         NEW s, NEW t \in Nat, DOMAIN s = 0 .. t - 1, t <= m.tam,
         EscribirBytes(m.inicio * TamBloque, s)
  PROVE  /\ EsPrefijo(s, Bytes(datos', m))
         /\ \A b \in Byte : b \div TamBloque \notin Extension(m) => datos'[b] = datos[b]
  <1>1. PICK x : x = m.inicio * TamBloque
      OBVIOUS
  <1>2. x \in Nat
    <2>1. m.inicio \in Nat /\ TamBloque \in Nat
        BY ConstantesOK
    <2> QED BY <1>1, <2>1, SMTT(30)
  <1>3. datos' = [b \in Byte |-> IF b - x \in DOMAIN s THEN s[b - x] ELSE datos[b]]
      BY <1>1 DEF EscribirBytes
  <1>4. ASSUME NEW k \in 0 .. t - 1
        PROVE  k \in 0 .. m.tam - 1 /\ x + k \in Byte /\ (x + k) \div TamBloque \in Extension(m) /\ (x + k) - x = k
    <2>1. k \in 0 .. m.tam - 1
        OBVIOUS
    <2>2. (x + k) \div TamBloque \in Extension(m)
        BY <1>1, <2>1, ByteDeArchivo
    <2>3. x + k \in Nat /\ (x + k) - x = k
        BY <1>2
    <2> QED BY <2>1, <2>2, <2>3, EnByte
  <1>5. EsPrefijo(s, Bytes(datos', m))
    <2> SUFFICES ASSUME NEW k \in DOMAIN s PROVE s[k] = Bytes(datos', m)[k]
        BY DEF EsPrefijo
    <2>1. k \in 0 .. m.tam - 1 /\ x + k \in Byte /\ (x + k) - x = k
        BY <1>4
    <2>2. datos'[x + k] = s[k]
        BY <1>3, <2>1
    <2> QED BY <1>1, <2>1, <2>2 DEF Bytes
  <1>6. ASSUME NEW b \in Byte, b \div TamBloque \notin Extension(m)
        PROVE  datos'[b] = datos[b]
    <2>1. b \in Int
        BY DEF Byte
    <2>2. ASSUME b - x \in 0 .. t - 1 PROVE FALSE
      <3>1. x + (b - x) = b
          BY <1>2, <2>1
      <3> QED BY <1>4, <1>6, <2>2, <3>1
    <2> QED BY <1>3, <2>2
  <1> QED BY <1>5, <1>6

-----------------------------------------------------------------------------
(***************************************************************************)
(* The files from outside: what the invariant says of each phase           *)
(***************************************************************************)
LEMMA EnReposoDatos ==
  ASSUME DInv, fase = "reposo"
  PROVE  Fiel(antes, datos, metadata, {}) /\ vacias = {}
  BY DEF DInv, Recuerda, EnMano

LEMMA EstaNaciendo ==
  ASSUME fase' \in {"reservar", "abrir"}, Fiel(antes', datos', metadata', {lazo'.archivo}),
         vacias' = {}, lazo'.meta.tam = 0
  PROVE  DInv'
  BY DEF DInv, Recuerda, AlNacer, AlEstirar, AlOcupar, AlBorrar, AlCompactar, AlLlevar, AlPoner,
         FaseDeCompactar, FaseDeMudar, EnMano

LEMMA EstaEstirando ==
  ASSUME fase' = "ocupar", Fiel(antes', datos', metadata', {lazo'.archivo}), vacias' = {},
         AlEstirar', AlOcupar'
  PROVE  DInv'
  BY DEF DInv, Recuerda, AlNacer, AlBorrar, AlCompactar, AlLlevar, AlPoner,
         FaseDeCompactar, FaseDeMudar, EnMano

LEMMA EstaGuardando ==
  ASSUME fase' = "guardar", Fiel(antes', datos', metadata', {lazo'.archivo}), vacias' \subseteq {lazo'.archivo},
         AlNacer', AlEstirar'
  PROVE  DInv'
  BY DEF DInv, Recuerda, AlOcupar, AlBorrar, AlCompactar, AlLlevar, AlPoner,
         FaseDeCompactar, FaseDeMudar, EnMano

LEMMA EstaQuitando ==
  ASSUME fase' \in {"liberar", "limpiar", "quitar"}, Fiel(antes', datos', metadata', {lazo'.archivo}), vacias' = {},
         AlBorrar'
  PROVE  DInv'
  BY DEF DInv, Recuerda, AlNacer, AlEstirar, AlOcupar, AlCompactar, AlLlevar, AlPoner,
         FaseDeCompactar, FaseDeMudar, EnMano

LEMMA EstaCompactando ==
  ASSUME fase' \in FaseDeCompactar, Fiel(antes', datos', metadata', EnMano'), vacias' = {},
         AlCompactar', AlLlevar', AlPoner'
  PROVE  DInv'
  BY DEF DInv, Recuerda, AlNacer, AlEstirar, AlOcupar, AlBorrar, FaseDeCompactar

(* What a step leaves alone is still as it was.                            *)
LEMMA FielSeguido ==
  ASSUME NEW F, NEW G, Fiel(antes, datos, metadata, F), F \subseteq G, DiscoOK,
         antes' = antes, DOMAIN metadata' = DOMAIN metadata,
         \A g \in DOMAIN metadata : metadata'[g].tam = metadata[g].tam,
         \A g \in DOMAIN metadata \ G : metadata'[g] = metadata[g],
         \A b \in Byte : b \div TamBloque \in DeOtros(metadata, G) => datos'[b] = datos[b]
  PROVE  Fiel(antes', datos', metadata', G)
  <1>1. Fiel(antes, datos, metadata, G)
      BY FielMenos
  <1>2. \A g \in DOMAIN metadata : metadata[g] \in [inicio: Nat, tam: Nat]
      BY DEF DiscoOK
  <1>3. Fiel(antes, datos', metadata, G)
      BY <1>1, <1>2, FielSigue
  <1> QED BY <1>3 DEF Fiel

LEMMA MismosDatos ==
  ASSUME NEW F, NEW G, Fiel(antes, datos, metadata, F), F \subseteq G,
         antes' = antes, datos' = datos, metadata' = metadata
  PROVE  Fiel(antes', datos', metadata', G)
  BY FielMenos

-----------------------------------------------------------------------------
(***************************************************************************)
(* The files from outside: orders                                          *)
(***************************************************************************)
LEMMA CrearDatos ==
  ASSUME BInv, DInv, Tipos', NEW f \in Archivo, crear_archivo(f)
  PROVE  DInv'
  <1>1. fase = "reposo" /\ UNCHANGED disco
      BY DEF crear_archivo
  <1>2. Fiel(antes, datos, metadata, {}) /\ vacias = {}
      BY <1>1, EnReposoDatos
  <1>3. CASE f \in DOMAIN metadata \cup vacias \/ bitmap = Bloque
    <2>1. fase' = "reposo" /\ antes' = Contenido' /\ vacias' = {}
        BY <1>1, <1>2, <1>3 DEF crear_archivo, Contestar, disco
    <2> QED BY <2>1, ContestarDatos
  <1>4. CASE ~(f \in DOMAIN metadata \cup vacias \/ bitmap = Bloque)
    <2>1. fase' = "reservar" /\ antes' = antes /\ vacias' = {} /\ datos' = datos /\ metadata' = metadata
          /\ lazo'.archivo = f /\ lazo'.meta.tam = 0
        BY <1>1, <1>2, <1>4 DEF crear_archivo, Seguir, Lazo, disco
    <2>2. Fiel(antes', datos', metadata', {lazo'.archivo})
        BY <1>2, <2>1, MismosDatos
    <2> QED BY <2>1, <2>2, EstaNaciendo
  <1> QED BY <1>3, <1>4

LEMMA BorrarDatos ==
  ASSUME SinBorrarVacios, BInv, DInv, Tipos', NEW f \in Archivo, borrar_archivo(f)
  PROVE  DInv'
  <1>1. fase = "reposo" /\ f \in DOMAIN metadata /\ UNCHANGED disco
      BY DEF borrar_archivo
  <1>2. Fiel(antes, datos, metadata, {}) /\ vacias = {} /\ Reparto({}, {})
      BY <1>1, EnReposoDatos DEF BInv, EnReposo
  <1>3. PICK m \in [inicio: Nat, tam: Nat] : m = metadata[f]
      BY <1>1 DEF BInv, Tipos, DiscoOK
  <1>4. m.tam # 0 /\ fase' = "liberar" /\ antes' = antes /\ lazo' = Lazo(f, m.inicio, m.inicio + Techo(m.tam), m)
      BY <1>3 DEF borrar_archivo, Seguir, SinBorrarVacios
  <1>5. m.tam > 0
      BY <1>4
  <1>6. BloquesDe(m.tam) = Techo(m.tam)
      BY <1>5, BloquesPositivo
  <1>7. lazo'.archivo = f /\ lazo'.hasta = Fin(m)
      BY <1>4, <1>6 DEF Lazo, Fin
  <1>8. Extension(metadata[f]) \cap DeOtros(metadata, {f}) = {}
      BY <1>1, <1>2, TodosYUno DEF Reparto
  <1>9. vacias' = {} /\ datos' = datos /\ metadata' = metadata
      BY <1>1, <1>2 DEF disco
  <1>10. Fiel(antes', datos', metadata', {lazo'.archivo})
      BY <1>2, <1>4, <1>9, MismosDatos
  <1>11. Fin(m) <= Fin(m)
      BY <1>3, ExtensionEs
  <1>12. AlBorrar'
    <2>1. Extension(metadata'[f]) \cap DeOtros(metadata', {f}) = {} /\ lazo'.hasta <= Fin(metadata'[f])
        BY <1>3, <1>7, <1>8, <1>9, <1>11
    <2> QED BY <1>4, <1>7, <2>1 DEF AlBorrar
  <1> QED BY <1>4, <1>9, <1>10, <1>12, EstaQuitando

LEMMA AgrandarDatos ==
  ASSUME BInv, DInv, Tipos', NEW f \in Archivo, NEW tam \in Tamanios, agrandar_archivo(f, tam)
  PROVE  DInv'
  <1>1. PICK m : m = metadata[f]
      OBVIOUS
  <1>2. PICK desde, agregar : desde = m.inicio + BloquesDe(m.tam) /\ agregar = BloquesDe(tam) - BloquesDe(m.tam)
      OBVIOUS
  <1>3. fase = "reposo" /\ f \in DOMAIN metadata /\ tam > m.tam /\ UNCHANGED disco
      BY <1>1 DEF agrandar_archivo
  <1>4. Fiel(antes, datos, metadata, {}) /\ vacias = {}
      BY <1>3, EnReposoDatos
  <1>5. m \in [inicio: Nat, tam: Nat] /\ tam \in Nat
      BY <1>1, <1>3, ConstantesOK DEF BInv, Tipos, DiscoOK
  <1>6. antes[f] = Bytes(datos, m)
      BY <1>1, <1>3, <1>4 DEF Fiel
  <1>7. vacias' = {} /\ datos' = datos /\ metadata' = metadata
      BY <1>3, <1>4 DEF disco
  <1>8. CASE Seguir("ocupar", Lazo(f, desde, desde + agregar, [m EXCEPT !.tam = tam]))
    <2>1. PICK n \in [inicio: Nat, tam: Nat] : n = [m EXCEPT !.tam = tam] /\ n.inicio = m.inicio /\ n.tam = tam
      <3>1. [m EXCEPT !.tam = tam] \in [inicio: Nat, tam: Nat] /\ [m EXCEPT !.tam = tam].inicio = m.inicio
            /\ [m EXCEPT !.tam = tam].tam = tam
          BY <1>5
      <3> QED BY <3>1
    <2>2. fase' = "ocupar" /\ antes' = antes /\ lazo'.archivo = f /\ lazo'.i = desde /\ lazo'.meta = n
        BY <1>8, <2>1 DEF Seguir, Lazo
    <2>3. EsPrefijo(antes[f], Bytes(datos, n))
        BY <1>3, <1>5, <1>6, <2>1 DEF EsPrefijo, Bytes
    <2>4. AlEstirar'
      <3>1. f \in DOMAIN metadata' /\ metadata'[f].tam < n.tam /\ EsPrefijo(antes'[f], Bytes(datos', n))
          BY <1>1, <1>3, <1>5, <1>7, <2>1, <2>2, <2>3
      <3> QED BY <2>2, <3>1 DEF AlEstirar
    <2>5. AlOcupar'
      <3>1. n.inicio = metadata'[f].inicio /\ Fin(metadata'[f]) <= desde
          BY <1>1, <1>2, <1>5, <1>7, <2>1, ExtensionEs
      <3> QED BY <2>2, <3>1 DEF AlOcupar
    <2>6. Fiel(antes', datos', metadata', {lazo'.archivo})
        BY <1>4, <1>7, <2>2, MismosDatos
    <2> QED BY <1>7, <2>2, <2>4, <2>5, <2>6, EstaEstirando
  <1>9. CASE /\ fase' = "sacar" /\ lazo' = Lazo(f, m.inicio, desde, m) /\ antes' = antes
             /\ compacta' = [archivo |-> f, tam |-> tam, buffer |-> Leido(m),
                             libre |-> 0, movio |-> FALSE, movido |-> <<>>]
    <2>1. compacta'.archivo = f /\ compacta'.tam = tam /\ compacta'.buffer = Leido(m)
        BY <1>9
    <2>2. compacta'.buffer = antes[f]
        BY <1>6, <2>1, LeidoEs
    <2>3. AlCompactar'
        BY <1>1, <1>3, <1>5, <1>7, <1>9, <2>1, <2>2 DEF AlCompactar
    <2>4. EnMano' = {f}
        BY <1>9, <2>1 DEF EnMano
    <2>5. Fiel(antes', datos', metadata', EnMano')
        BY <1>4, <1>7, <1>9, <2>4, MismosDatos
    <2>6. AlLlevar' /\ AlPoner'
        BY <1>9 DEF AlLlevar, AlPoner, FaseDeMudar
    <2> QED BY <1>7, <1>9, <2>3, <2>5, <2>6, EstaCompactando DEF FaseDeCompactar
  <1>10. CASE Contestar("agrandar", f, tam, FALSE)
      BY <1>7, <1>10, ContestarDatos DEF Contestar
  <1>11. \/ Seguir("ocupar", Lazo(f, desde, desde + agregar, [m EXCEPT !.tam = tam]))
         \/ /\ fase' = "sacar" /\ lazo' = Lazo(f, m.inicio, desde, m) /\ antes' = antes
            /\ compacta' = [archivo |-> f, tam |-> tam, buffer |-> Leido(m),
                            libre |-> 0, movio |-> FALSE, movido |-> <<>>]
         \/ Contestar("agrandar", f, tam, FALSE)
      BY <1>1, <1>2 DEF agrandar_archivo
  <1> QED BY <1>8, <1>9, <1>10, <1>11

LEMMA OtrasOrdenesDatos ==
  ASSUME DInv, NEW f \in Archivo,
         \/ archivo_inexistente(f)
         \/ \E tam \in Tamanios : achicar_archivo(f, tam)
         \/ \E k \in Punteros, n \in Largos :
              leer_en_archivo(f, k, n) \/ \E d \in Dato : escribir_en_archivo(f, k, n, d)
  PROVE  DInv'
  <1>1. CASE archivo_inexistente(f)
      BY <1>1, NadaDeDatos DEF archivo_inexistente, Morir
  <1>2. CASE \E tam \in Tamanios : achicar_archivo(f, tam)
      BY <1>2, NadaDeDatos DEF achicar_archivo
  <1>3. ASSUME NEW k \in Punteros, NEW n \in Largos, leer_en_archivo(f, k, n)
        PROVE  DInv'
    <2>1. vacias' = {}
        BY <1>3, EnReposoDatos DEF leer_en_archivo, disco
    <2> QED BY <1>3, <2>1, NadaDeDatos, ContestarDatos DEF leer_en_archivo, Morir, Contestar
  <1>4. ASSUME NEW k \in Punteros, NEW n \in Largos, NEW d \in Dato, escribir_en_archivo(f, k, n, d)
        PROVE  DInv'
    <2>1. vacias' = {}
        BY <1>4, EnReposoDatos DEF escribir_en_archivo
    <2> QED BY <1>4, <2>1, ContestarDatos DEF escribir_en_archivo, Contestar
  <1> QED BY <1>1, <1>2, <1>3, <1>4

-----------------------------------------------------------------------------
(***************************************************************************)
(* The files from outside: loops                                           *)
(***************************************************************************)
(* A block that is taken is zeroed if it was free: it was of no file.      *)
LEMMA OcuparDeja ==
  ASSUME ocupar_bloque, NEW S, S \subseteq bitmap
  PROVE  \A b \in Byte : b \div TamBloque \in S => datos'[b] = datos[b]
  BY DEF ocupar_bloque, LimpiarBloque

LEMMA OcuparDatos ==
  ASSUME BInv, DInv, Tipos', ocupar_bloque
  PROVE  DInv'
  <1>1. PICK l \in UnLazo : l = lazo
      BY LazoEs DEF BInv, ocupar_bloque
  <1>2. PICK k \in UnLazo : k = [l EXCEPT !.i = @ + 1] /\ k.i = l.i + 1 /\ k.hasta = l.hasta
                            /\ k.archivo = l.archivo /\ k.meta = l.meta
      BY OtroIndice
  <1>3. l.i < l.hasta /\ lazo' = k /\ fase' = fase /\ compacta' = compacta /\ antes' = antes
        /\ metadata' = metadata /\ vacias' = vacias
      BY <1>1, <1>2 DEF ocupar_bloque, Seguir
  <1>4. PICK f \in Archivo : f = l.archivo
      BY DEF UnLazo
  <1>5. DiscoOK
      BY DEF BInv, Tipos
  <1>6. fase \in {"reservar", "ocupar", "poner ocupar", "mudar ocupar"}
      BY DEF ocupar_bloque
  <1>7. vacias = {}
      BY <1>6 DEF DInv, Recuerda
  <1>8. CASE fase \in {"reservar", "ocupar", "poner ocupar"}
    <2>1. Crece(l)
        BY <1>1, <1>8 DEF BInv, AlCrecer, FaseDeCrecer
    <2>2. DeOtros(metadata, {f}) \subseteq bitmap
        BY <1>4, <2>1 DEF Crece, Reparto
    <2>3. Fiel(antes, datos, metadata, {f})
        BY <1>1, <1>4, <1>8 DEF DInv, Recuerda, EnMano
    <2>4. Fiel(antes', datos', metadata', {f})
        BY <1>3, <1>5, <2>2, <2>3, OcuparDeja, FielSeguido
    <2>5. CASE fase = "reservar"
        BY <1>1, <1>2, <1>3, <1>4, <1>7, <2>4, <2>5, EstaNaciendo DEF DInv, AlNacer
    <2>6. CASE fase = "poner ocupar"
      <3>1. AlCompactar' /\ AlLlevar' /\ AlPoner'
          BY <1>1, <1>2, <1>3, <2>6 DEF DInv, AlCompactar, AlLlevar, AlPoner, FaseDeMudar
      <3>2. EnMano' = {f}
          BY <1>2, <1>3, <1>4, <2>6 DEF EnMano
      <3> QED BY <1>3, <1>7, <2>4, <2>6, <3>1, <3>2, EstaCompactando DEF FaseDeCompactar
    <2>7. CASE fase = "ocupar"
      <3>1. PICK m \in [inicio: Nat, tam: Nat], n \in [inicio: Nat, tam: Nat] : m = metadata[f] /\ n = l.meta
          BY <1>1, <1>4, <1>5, <2>7 DEF DInv, AlEstirar, DiscoOK, UnLazo
      <3>2. f \in DOMAIN metadata /\ m.tam < n.tam /\ EsPrefijo(antes[f], Bytes(datos, n))
          BY <1>1, <1>4, <2>7, <3>1 DEF DInv, AlEstirar
      <3>3. n.inicio = m.inicio /\ Fin(m) <= l.i
          BY <1>1, <1>4, <2>7, <3>1 DEF DInv, AlOcupar
      <3>4. PICK i \in Nat : i = l.i /\ n.inicio .. i - 1 \subseteq bitmap
          BY <1>4, <2>1, <3>1 DEF Crece, Reparto, UnLazo
      <3>5. Extension(m) \subseteq bitmap
        <4>1. PICK z \in Nat, c \in Nat : z = Fin(m) /\ z = m.inicio + c /\ Extension(m) = m.inicio .. m.inicio + c - 1
            BY ExtensionEs
        <4>2. m.inicio \in Nat /\ z <= i /\ m.inicio + c - 1 = z - 1
          <5>1. m.inicio \in Nat
              BY ExtensionEs
          <5>2. z <= i
              BY <3>3, <3>4, <4>1
          <5> QED BY <4>1, <5>1, <5>2
        <4>3. m.inicio .. z - 1 \subseteq m.inicio .. i - 1
            BY <4>2
        <4>4. n.inicio = m.inicio
            BY <3>3
        <4> QED BY <3>4, <4>1, <4>2, <4>3, <4>4
      <3>6. Bytes(datos', m) = Bytes(datos, m)
          BY <3>5, OcuparDeja, BytesIguales
      <3>7. DOMAIN antes[f] = 0 .. m.tam - 1
          BY <2>3, <3>1, <3>2 DEF Fiel
      <3>8. EsPrefijo(antes[f], Bytes(datos', n))
        <4> SUFFICES ASSUME NEW j \in DOMAIN antes[f] PROVE antes[f][j] = Bytes(datos', n)[j]
            BY DEF EsPrefijo
        <4>1. j \in 0 .. m.tam - 1 /\ j \in 0 .. n.tam - 1
            BY <3>2, <3>7
        <4>2. Bytes(datos', n)[j] = Bytes(datos', m)[j] /\ Bytes(datos, n)[j] = Bytes(datos, m)[j]
            BY <3>3, <4>1 DEF Bytes
        <4> QED BY <3>2, <3>6, <4>2 DEF EsPrefijo
      <3>9. AlEstirar'
          BY <1>2, <1>3, <1>4, <3>1, <3>2, <3>8, <2>7 DEF AlEstirar
      <3>10. Fin(m) \in Nat /\ k.i = i + 1 /\ Fin(m) <= i
          BY <1>2, <3>3, <3>4, ExtensionEs
      <3>11. Fin(m) <= k.i
          BY <3>10
      <3>12. AlOcupar'
          BY <1>2, <1>3, <1>4, <3>1, <3>3, <3>11 DEF AlOcupar
      <3> QED BY <1>2, <1>3, <1>4, <1>7, <2>4, <2>7, <3>9, <3>12, EstaEstirando
    <2> QED BY <1>8, <2>5, <2>6, <2>7
  <1>9. CASE fase = "mudar ocupar"
    <2>1. fase \in FaseDeMudar
        BY <1>9 DEF FaseDeMudar
    <2>2. PICK x : x = compacta.archivo
        OBVIOUS
    <2>3. EnMano = {f, x}
        BY <1>1, <1>4, <1>9, <2>2 DEF EnMano
    <2>4. DeOtros(metadata, {f, x}) \subseteq bitmap
      <3>1. PICK b, s, n : Mudado(f, x, b, s, n, l.i, l.hasta, l.meta)
          BY <1>1, <1>4, <2>1, <2>2 DEF BInv, AlMudar
      <3> QED BY <1>9, <3>1 DEF Mudado, Reparto
    <2>5. Fiel(antes, datos, metadata, {f, x})
        BY <1>9, <2>3 DEF DInv, Recuerda
    <2>6. Fiel(antes', datos', metadata', {f, x})
        BY <1>3, <1>5, <2>4, <2>5, OcuparDeja, FielSeguido
    <2>7. EnMano' = {f, x}
        BY <1>2, <1>3, <1>4, <1>9, <2>2 DEF EnMano
    <2>8. AlCompactar' /\ AlLlevar' /\ AlPoner'
        BY <1>1, <1>2, <1>3, <1>9 DEF DInv, AlCompactar, AlLlevar, AlPoner, FaseDeMudar, FaseDeCompactar
    <2> QED BY <1>3, <1>7, <1>9, <2>6, <2>7, <2>8, EstaCompactando DEF FaseDeCompactar
  <1> QED BY <1>6, <1>8, <1>9

LEMMA LiberarDatos ==
  ASSUME BInv, DInv, Tipos', liberar_bloque
  PROVE  DInv'
  <1>1. PICK l \in UnLazo : l = lazo
      BY LazoEs DEF BInv, liberar_bloque
  <1>2. PICK k \in UnLazo : k = [l EXCEPT !.i = @ + 1] /\ k.i = l.i + 1 /\ k.hasta = l.hasta
                            /\ k.archivo = l.archivo /\ k.meta = l.meta
      BY OtroIndice
  <1>3. lazo' = k /\ fase' = fase /\ compacta' = compacta /\ antes' = antes
        /\ datos' = datos /\ metadata' = metadata /\ vacias' = vacias
      BY <1>1, <1>2 DEF liberar_bloque, Seguir
  <1>4. fase \in {"liberar", "sacar", "mudar liberar"}
      BY DEF liberar_bloque
  <1>5. vacias = {} /\ Fiel(antes, datos, metadata, EnMano)
      BY <1>4 DEF DInv, Recuerda
  <1>6. EnMano' = EnMano
      BY <1>1, <1>2, <1>3, <1>4 DEF EnMano
  <1>7. Fiel(antes', datos', metadata', EnMano')
      BY <1>3, <1>5, <1>6, MismosDatos
  <1>8. CASE fase = "liberar"
    <2>1. AlBorrar'
        BY <1>1, <1>2, <1>3, <1>8 DEF DInv, AlBorrar
    <2>2. EnMano' = {lazo'.archivo}
        BY <1>3, <1>8 DEF EnMano
    <2> QED BY <1>3, <1>5, <1>7, <1>8, <2>1, <2>2, EstaQuitando
  <1>9. CASE fase \in {"sacar", "mudar liberar"}
    <2>1. AlCompactar' /\ AlLlevar' /\ AlPoner'
        BY <1>1, <1>2, <1>3, <1>9 DEF DInv, AlCompactar, AlLlevar, AlPoner, FaseDeMudar, FaseDeCompactar
    <2> QED BY <1>3, <1>5, <1>7, <1>9, <2>1, EstaCompactando DEF FaseDeCompactar
  <1> QED BY <1>4, <1>8, <1>9

LEMMA LimpiarDatos ==
  ASSUME BInv, DInv, Tipos', RecortarBloque \/ FinDeRecorte \/ limpiar_bloque
  PROVE  DInv'
  <1>1. CASE RecortarBloque
      BY <1>1, NadaDeDatos DEF RecortarBloque, Seguir
  <1>2. CASE FinDeRecorte
      BY <1>2, NadaDeDatos DEF FinDeRecorte, Morir
  <1>3. CASE limpiar_bloque
    <2>1. PICK l \in UnLazo : l = lazo
        BY <1>3, LazoEs DEF BInv, limpiar_bloque
    <2>2. PICK k \in UnLazo : k = [l EXCEPT !.i = @ + 1] /\ k.i = l.i + 1 /\ k.hasta = l.hasta
                              /\ k.archivo = l.archivo /\ k.meta = l.meta
        BY OtroIndice
    <2>3. fase = "limpiar" /\ fase' = fase /\ UNCHANGED <<bitmap, metadata, vacias, antes>> /\ lazo' = k
          /\ l.i < l.hasta /\ LimpiarBloque(l.i)
        BY <1>3, <2>1, <2>2 DEF limpiar_bloque, Seguir
    <2>4. PICK f \in Archivo, i \in Nat, h \in Nat : f = l.archivo /\ i = l.i /\ h = l.hasta /\ i < h
        BY <2>3 DEF UnLazo
    <2>5. DiscoOK /\ f \in DOMAIN metadata
        BY <2>1, <2>3, <2>4 DEF BInv, Tipos, LazoOK
    <2>6. PICK m \in [inicio: Nat, tam: Nat] : m = metadata[f]
        BY <2>5 DEF DiscoOK
    <2>7. Extension(m) \cap DeOtros(metadata, {f}) = {} /\ h <= Fin(m) /\ m.inicio <= i
        BY <2>1, <2>3, <2>4, <2>6 DEF DInv, AlBorrar
    <2>8. i \notin DeOtros(metadata, {f})
      <3>1. i \in Extension(m)
          BY <2>4, <2>7, ExtensionEs
      <3> QED BY <2>7, <3>1
    <2>9. Fiel(antes, datos, metadata, {f}) /\ vacias = {}
        BY <2>1, <2>3, <2>4 DEF DInv, Recuerda, EnMano
    <2>10. \A b \in Byte : b \div TamBloque \in DeOtros(metadata, {f}) => datos'[b] = datos[b]
        BY <2>3, <2>4, <2>8 DEF LimpiarBloque
    <2>11. Fiel(antes', datos', metadata', {f})
        BY <2>3, <2>5, <2>9, <2>10, FielSeguido
    <2>12. k.i \in Nat /\ m.inicio <= k.i
        BY <2>2, <2>4, <2>7
    <2>13. AlBorrar'
        BY <2>2, <2>3, <2>4, <2>6, <2>7, <2>12 DEF AlBorrar
    <2> QED BY <2>2, <2>3, <2>4, <2>9, <2>11, <2>13, EstaQuitando
  <1> QED BY <1>1, <1>2, <1>3

LEMMA FinDeLazoDatos ==
  ASSUME BInv, DInv, Tipos', FinDeLazo
  PROVE  DInv'
  <1>1. PICK l \in UnLazo : l = lazo
      BY LazoEs DEF BInv, FinDeLazo
  <1>2. UNCHANGED <<bitmap, datos, metadata, vacias, antes>> /\ compacta' = compacta
      BY <1>1 DEF FinDeLazo, Seguir, disco
  <1>3. \/ fase = "reservar" /\ fase' = "abrir" /\ lazo' = l
        \/ fase = "ocupar" /\ fase' = "guardar" /\ lazo' = l
        \/ fase = "poner ocupar" /\ fase' = "poner escribir" /\ lazo' = l
        \/ fase = "limpiar" /\ fase' = "quitar" /\ lazo' = l
        \/ fase = "mudar ocupar" /\ fase' = "mudar escribir" /\ lazo' = l
        \/ fase = "liberar" /\ fase' = "limpiar" /\ lazo' = [l EXCEPT !.i = metadata[l.archivo].inicio]
      BY <1>1 DEF FinDeLazo, Seguir, Luego
  <1>4. lazo'.archivo = l.archivo /\ lazo'.meta = l.meta
      BY <1>3 DEF UnLazo
  <1>5. vacias = {} /\ Fiel(antes, datos, metadata, EnMano)
      BY <1>3 DEF DInv, Recuerda
  <1>6. EnMano' = EnMano
      BY <1>1, <1>2, <1>3, <1>4 DEF EnMano
  <1>7. Fiel(antes', datos', metadata', EnMano') /\ vacias' = {}
      BY <1>2, <1>5, <1>6, MismosDatos
  <1>8. CASE fase = "reservar"
    <2>1. EnMano' = {lazo'.archivo} /\ l.meta.tam = 0
        BY <1>1, <1>3, <1>8 DEF EnMano, DInv, AlNacer
    <2> QED BY <1>3, <1>4, <1>7, <1>8, <2>1, EstaNaciendo
  <1>9. CASE fase = "ocupar"
    <2>1. EnMano' = {lazo'.archivo}
        BY <1>3, <1>9 DEF EnMano
    <2>2. AlNacer'
        BY <1>3, <1>7, <1>9 DEF AlNacer
    <2>3. AlEstirar'
        BY <1>1, <1>2, <1>3, <1>4, <1>9 DEF DInv, AlEstirar
    <2> QED BY <1>3, <1>7, <1>9, <2>1, <2>2, <2>3, EstaGuardando
  <1>10. CASE fase \in {"poner ocupar", "mudar ocupar"}
    <2>1. AlCompactar' /\ AlLlevar' /\ AlPoner'
        BY <1>1, <1>2, <1>3, <1>4, <1>10 DEF DInv, AlCompactar, AlLlevar, AlPoner, FaseDeMudar, FaseDeCompactar
    <2> QED BY <1>3, <1>7, <1>10, <2>1, EstaCompactando DEF FaseDeCompactar
  <1>11. CASE fase = "limpiar"
    <2>1. EnMano' = {lazo'.archivo} /\ AlBorrar'
        BY <1>3, <1>11 DEF EnMano, AlBorrar
    <2> QED BY <1>3, <1>7, <1>11, <2>1, EstaQuitando
  <1>12. CASE fase = "liberar"
    <2>1. EnMano' = {lazo'.archivo} /\ fase' = "limpiar"
        BY <1>3, <1>12 DEF EnMano
    <2>2. PICK f \in DOMAIN metadata : f = l.archivo
        BY <1>1, <1>12 DEF BInv, Tipos, LazoOK
    <2>3. PICK m \in [inicio: Nat, tam: Nat] : m = metadata[f]
        BY DEF BInv, Tipos, DiscoOK
    <2>4. lazo'.i = m.inicio /\ lazo'.hasta = l.hasta /\ lazo'.archivo = f
        BY <1>3, <1>12, <2>2, <2>3 DEF UnLazo
    <2>5. Extension(m) \cap DeOtros(metadata, {f}) = {} /\ l.hasta <= Fin(m) /\ m.inicio <= m.inicio
        BY <1>1, <1>12, <2>2, <2>3 DEF DInv, AlBorrar
    <2>6. AlBorrar'
        BY <1>2, <2>3, <2>4, <2>5 DEF AlBorrar
    <2> QED BY <1>7, <2>1, <2>6, EstaQuitando
  <1> QED BY <1>3, <1>8, <1>9, <1>10, <1>11, <1>12

LEMMA AbrirDatos ==
  ASSUME DInv, Tipos, AbrirMetadata
  PROVE  DInv'
  <1>1. PICK l : l = lazo
      OBVIOUS
  <1>2. fase = "abrir" /\ fase' = "guardar" /\ lazo' = l /\ vacias' = vacias \cup {l.archivo}
        /\ datos' = datos /\ metadata' = metadata /\ antes' = antes
      BY <1>1 DEF AbrirMetadata, Seguir
  <1>3. vacias = {} /\ Fiel(antes, datos, metadata, {l.archivo}) /\ l.meta.tam = 0
      BY <1>1, <1>2 DEF DInv, Recuerda, EnMano, AlNacer
  <1>4. vacias' = {lazo'.archivo} /\ AlNacer' /\ AlEstirar'
      BY <1>2, <1>3 DEF AlNacer, AlEstirar
  <1>5. Fiel(antes', datos', metadata', {lazo'.archivo})
      BY <1>2, <1>3, MismosDatos
  <1> QED BY <1>2, <1>4, <1>5, EstaGuardando

LEMMA GuardarDatos ==
  ASSUME DInv, GuardarMetadata \/ QuitarMetadata
  PROVE  DInv'
  <1>1. fase' = "reposo" /\ antes' = Contenido'
      BY DEF GuardarMetadata, QuitarMetadata, Contestar
  <1>2. vacias' = {}
    <2>1. CASE GuardarMetadata
        BY <2>1 DEF GuardarMetadata, DInv, Recuerda
    <2>2. CASE QuitarMetadata
        BY <2>2 DEF QuitarMetadata, DInv, Recuerda
    <2> QED BY <2>1, <2>2
  <1> QED BY <1>1, <1>2, ContestarDatos

-----------------------------------------------------------------------------
(***************************************************************************)
(* The files from outside: compaction                                      *)
(***************************************************************************)
LEMMA FinDeSacarDatos ==
  ASSUME BInv, DInv, FinDeSacar
  PROVE  DInv'
  <1>1. fase = "sacar" /\ fase' = "recorrer" /\ antes' = antes /\ datos' = datos /\ metadata' = metadata
        /\ vacias' = vacias
        /\ compacta' = [compacta EXCEPT !.libre = IF bitmap = Bloque THEN 0 ELSE PrimeroLibre]
      BY DEF FinDeSacar
  <1>2. PICK x : x = compacta.archivo
      OBVIOUS
  <1>3. compacta'.archivo = x /\ compacta'.tam = compacta.tam /\ compacta'.buffer = compacta.buffer
    <2>1. DOMAIN compacta = {"archivo", "tam", "buffer", "libre", "movio", "movido"}
        BY <1>1 DEF BInv, Tipos, CompactaOK, FaseDeCompactar
    <2> QED BY <1>1, <1>2, <2>1
  <1>4. Fiel(antes, datos, metadata, {x}) /\ vacias = {}
      BY <1>1, <1>2 DEF DInv, Recuerda, EnMano
  <1>5. EnMano' = {x}
      BY <1>1, <1>3 DEF EnMano
  <1>6. Fiel(antes', datos', metadata', EnMano')
      BY <1>1, <1>4, <1>5, MismosDatos
  <1>7. AlCompactar'
      BY <1>1, <1>2, <1>3 DEF DInv, AlCompactar, FaseDeCompactar
  <1>8. AlLlevar' /\ AlPoner'
      BY <1>1 DEF AlLlevar, AlPoner, FaseDeMudar
  <1> QED BY <1>1, <1>4, <1>6, <1>7, <1>8, EstaCompactando DEF FaseDeCompactar

LEMMA MudarArchivoDatos ==
  ASSUME BInv, DInv, BInv', MudarArchivo
  PROVE  DInv'
  <1>1. fase = "recorrer" /\ UNCHANGED disco
      BY DEF MudarArchivo
  <1>2. CASE Morir
      BY <1>2, NadaDeDatos DEF Morir
  <1>3. ASSUME NEW f, fase' = "mudar", lazo' = Lazo(f, compacta.libre, metadata[f].inicio, metadata[f]),
               compacta' = [compacta EXCEPT !.movio = TRUE, !.movido = Leido(metadata[f])], antes' = antes
        PROVE  DInv'
    <2>1. PICK x : x = compacta.archivo
        OBVIOUS
    <2>2. compacta'.archivo = x /\ compacta'.tam = compacta.tam /\ compacta'.buffer = compacta.buffer
          /\ compacta'.movido = Leido(metadata[f])
      <3>1. DOMAIN compacta = {"archivo", "tam", "buffer", "libre", "movio", "movido"}
          BY <1>1 DEF BInv, Tipos, CompactaOK, FaseDeCompactar
      <3> QED BY <1>3, <2>1, <3>1
    <2>3. lazo'.archivo = f /\ lazo'.meta = metadata[f]
        BY <1>3 DEF Lazo
    <2>4. f # x
        BY <1>3, <2>2, <2>3 DEF BInv, AlMudar, Muda, FaseDeMudar
    <2>5. f \in DOMAIN metadata
        BY <1>1, <1>3, <2>3 DEF BInv, Tipos, LazoOK, FaseDeMudar, disco
    <2>6. Fiel(antes, datos, metadata, {x}) /\ vacias = {}
        BY <1>1, <2>1 DEF DInv, Recuerda, EnMano
    <2>7. antes[f] = Leido(metadata[f])
        BY <2>4, <2>5, <2>6, LeidoEs DEF Fiel
    <2>8. EnMano' = {x, f}
        BY <1>3, <2>2, <2>3 DEF EnMano
    <2>9. vacias' = {} /\ datos' = datos /\ metadata' = metadata
        BY <1>1, <2>6 DEF disco
    <2>10. Fiel(antes', datos', metadata', EnMano')
        BY <1>3, <2>6, <2>8, <2>9, MismosDatos
    <2>11. AlCompactar'
        BY <1>1, <1>3, <2>1, <2>2, <2>9 DEF DInv, AlCompactar, FaseDeCompactar
    <2>12. AlLlevar' /\ AlPoner'
        BY <1>3, <2>2, <2>3, <2>7, <2>9 DEF AlLlevar, AlPoner
    <2> QED BY <1>3, <2>9, <2>10, <2>11, <2>12, EstaCompactando DEF FaseDeCompactar
  <1> QED BY <1>2, <1>3 DEF MudarArchivo

LEMMA MudarMetadataDatos ==
  ASSUME BInv, DInv, MudarMetadata
  PROVE  DInv'
  <1>1. fase = "mudar" /\ fase' = "mudar ocupar" /\ fase \in FaseDeMudar /\ fase \in FaseDeCompactar
        /\ compacta' = compacta /\ lazo' = lazo /\ antes' = antes /\ datos' = datos /\ vacias' = vacias
        /\ Guardar(lazo.archivo, [lazo.meta EXCEPT !.inicio = compacta.libre])
      BY DEF MudarMetadata, Seguir, FaseDeMudar, FaseDeCompactar
  <1>2. PICK l \in UnLazo : l = lazo
      BY <1>1, LazoEs DEF BInv
  <1>3. PICK f, x, b : f = l.archivo /\ x = compacta.archivo /\ b = compacta.libre
      OBVIOUS
  <1>4. f \in DOMAIN metadata /\ x \in DOMAIN metadata /\ DiscoOK
      BY <1>1, <1>2, <1>3 DEF BInv, Tipos, LazoOK, CompactaOK
  <1>5. Fiel(antes, datos, metadata, {f, x}) /\ vacias = {}
      BY <1>1, <1>2, <1>3 DEF DInv, Recuerda, EnMano
  <1>6. metadata' = [g \in DOMAIN metadata \cup {f} |-> IF g = f THEN [l.meta EXCEPT !.inicio = b] ELSE metadata[g]]
      BY <1>1, <1>2, <1>3 DEF Guardar
  <1>7. l.meta.tam = metadata[f].tam
      BY <1>1, <1>2, <1>3 DEF DInv, AlLlevar
  <1>8. metadata'[f].tam = metadata[f].tam
    <2>1. metadata'[f] = [l.meta EXCEPT !.inicio = b]
        BY <1>6
    <2>2. [l.meta EXCEPT !.inicio = b].tam = l.meta.tam
        BY DEF UnLazo
    <2> QED BY <1>7, <2>1, <2>2
  <1>9. DOMAIN metadata' = DOMAIN metadata /\ \A g \in DOMAIN metadata \ {f} : metadata'[g] = metadata[g]
      BY <1>4, <1>6
  <1>10. \A g \in DOMAIN metadata : metadata'[g].tam = metadata[g].tam
      BY <1>8, <1>9
  <1>11. Fiel(antes', datos', metadata', {f, x})
      BY <1>1, <1>4, <1>5, <1>9, <1>10, FielSeguido
  <1>12. EnMano' = {f, x}
      BY <1>1, <1>2, <1>3 DEF EnMano
  <1>13. AlCompactar' /\ AlLlevar' /\ AlPoner'
    <2>1. AlCompactar'
        BY <1>1, <1>3, <1>4, <1>10 DEF DInv, AlCompactar
    <2>2. AlLlevar'
        BY <1>1, <1>2, <1>3, <1>4, <1>10 DEF DInv, AlLlevar
    <2> QED BY <1>1, <2>1, <2>2 DEF AlPoner
  <1> QED BY <1>1, <1>5, <1>11, <1>12, <1>13, EstaCompactando DEF FaseDeCompactar

(* The file is in its new place, whatever of the old one it has covered.   *)
LEMMA MudarDatosDatos ==
  ASSUME BInv, DInv, MudarDatos
  PROVE  DInv'
  <1>1. fase = "mudar escribir" /\ fase' = "mudar liberar" /\ fase \in FaseDeMudar /\ fase \in FaseDeCompactar
        /\ compacta' = compacta /\ antes' = antes /\ metadata' = metadata /\ vacias' = vacias
        /\ EscribirBytes(compacta.libre * TamBloque, compacta.movido)
      BY DEF MudarDatos, Seguir, FaseDeMudar, FaseDeCompactar
  <1>2. PICK l \in UnLazo, x \in DOMAIN metadata, b \in Nat, s \in Nat, n \in Nat :
          /\ l = lazo /\ x = compacta.archivo /\ b = compacta.libre
          /\ s = l.meta.inicio /\ n = BloquesDe(l.meta.tam) /\ n >= 1
          /\ Muda(l.archivo, x, b, s, n)
          /\ Mudado(l.archivo, x, b, s, n, l.i, l.hasta, l.meta)
      BY <1>1, MudanzaEs
  <1>3. PICK f \in DOMAIN metadata : f = l.archivo
      BY <1>1, <1>2 DEF BInv, Tipos, LazoOK
  <1>4. metadata[f] = [l.meta EXCEPT !.inicio = b] /\ Muda(f, x, b, s, n)
      BY <1>1, <1>2, <1>3 DEF Mudado
  <1>5. PICK m \in [inicio: Nat, tam: Nat] : m = metadata[f] /\ m.inicio = b /\ m.tam = l.meta.tam
    <2>1. l.meta \in [inicio: Nat, tam: Nat]
        BY DEF UnLazo
    <2>2. [l.meta EXCEPT !.inicio = b] \in [inicio: Nat, tam: Nat] /\ [l.meta EXCEPT !.inicio = b].inicio = b
          /\ [l.meta EXCEPT !.inicio = b].tam = l.meta.tam
        BY <2>1
    <2> QED BY <1>4, <2>2
  <1>6. Extension(m) \subseteq Bloque \ DeOtros(metadata, {f, x})
    <2>1. Extension(m) = b .. b + n - 1
        BY <1>2, <1>5, ExtensionEs
    <2>2. b < s /\ b .. s + n - 1 \subseteq Bloque \ DeOtros(metadata, {f, x})
        BY <1>4 DEF Muda, Lugar
    <2>3. b .. b + n - 1 \subseteq b .. s + n - 1
        BY <2>2
    <2> QED BY <2>1, <2>2, <2>3
  <1>7. Fiel(antes, datos, metadata, {f, x}) /\ vacias = {} /\ DiscoOK
      BY <1>1, <1>2, <1>3 DEF DInv, Recuerda, EnMano, BInv, Tipos
  <1>8. compacta.movido = antes[f]
      BY <1>1, <1>2, <1>3 DEF DInv, AlLlevar
  <1>9. DOMAIN antes[f] = 0 .. m.tam - 1 /\ m.tam <= m.tam /\ m.tam \in Nat
      BY <1>5, <1>7 DEF Fiel
  <1>10. EscribirBytes(m.inicio * TamBloque, antes[f])
      BY <1>1, <1>2, <1>5, <1>8
  <1>11. /\ EsPrefijo(antes[f], Bytes(datos', m))
         /\ \A c \in Byte : c \div TamBloque \notin Extension(m) => datos'[c] = datos[c]
      BY <1>6, <1>9, <1>10, EscritoSeLee
  <1>12. Fiel(antes', datos', metadata', {f, x})
    <2>1. \A c \in Byte : c \div TamBloque \in DeOtros(metadata, {f, x}) => datos'[c] = datos[c]
        BY <1>6, <1>11
    <2> QED BY <1>1, <1>7, <2>1, FielSeguido
  <1>13. antes[f] = Bytes(datos', m)
    <2>1. antes[f] = [k \in 0 .. m.tam - 1 |-> antes[f][k]]
        BY <1>5, <1>7 DEF Fiel
    <2>2. \A k \in 0 .. m.tam - 1 : antes[f][k] = Bytes(datos', m)[k]
        BY <1>9, <1>11 DEF EsPrefijo
    <2> QED BY <2>1, <2>2 DEF Bytes
  <1>14. Fiel(antes', datos', metadata', {x})
      BY <1>1, <1>5, <1>12, <1>13 DEF Fiel
  <1>15. EnMano' = {x}
      BY <1>1, <1>2 DEF EnMano
  <1>16. lazo'.archivo = l.archivo /\ lazo'.meta = l.meta
      BY <1>2 DEF MudarDatos, Seguir, UnLazo
  <1>17. AlCompactar' /\ AlLlevar' /\ AlPoner'
      BY <1>1, <1>2, <1>16 DEF DInv, AlCompactar, AlLlevar, AlPoner
  <1> QED BY <1>1, <1>7, <1>14, <1>15, <1>17, EstaCompactando DEF FaseDeCompactar

LEMMA FinDeMudanzaDatos ==
  ASSUME BInv, DInv, FinDeMudanza
  PROVE  DInv'
  <1>1. fase = "mudar liberar" /\ fase' = "recorrer" /\ fase \in FaseDeCompactar
        /\ antes' = antes /\ datos' = datos /\ metadata' = metadata /\ vacias' = vacias
        /\ compacta' = [compacta EXCEPT !.libre = @ + BloquesDe(lazo.meta.tam), !.movido = <<>>]
      BY DEF FinDeMudanza, FaseDeCompactar
  <1>2. PICK x : x = compacta.archivo
      OBVIOUS
  <1>3. compacta'.archivo = x /\ compacta'.tam = compacta.tam /\ compacta'.buffer = compacta.buffer
    <2>1. DOMAIN compacta = {"archivo", "tam", "buffer", "libre", "movio", "movido"}
        BY <1>1 DEF BInv, Tipos, CompactaOK
    <2> QED BY <1>1, <1>2, <2>1
  <1>4. Fiel(antes, datos, metadata, {x}) /\ vacias = {}
      BY <1>1, <1>2 DEF DInv, Recuerda, EnMano
  <1>5. EnMano' = {x}
      BY <1>1, <1>3 DEF EnMano
  <1>6. Fiel(antes', datos', metadata', EnMano')
      BY <1>1, <1>4, <1>5, MismosDatos
  <1>7. AlCompactar'
      BY <1>1, <1>2, <1>3 DEF DInv, AlCompactar
  <1>8. AlLlevar' /\ AlPoner'
      BY <1>1 DEF AlLlevar, AlPoner, FaseDeMudar
  <1> QED BY <1>1, <1>4, <1>6, <1>7, <1>8, EstaCompactando DEF FaseDeCompactar

LEMMA FinDeRecorridoDatos ==
  ASSUME BInv, DInv, FinDeRecorrido
  PROVE  DInv'
  <1>1. fase = "recorrer" /\ fase \in FaseDeCompactar /\ UNCHANGED disco
      BY DEF FinDeRecorrido, FaseDeCompactar
  <1>2. PICK x, b, t : x = compacta.archivo /\ b = compacta.libre /\ t = compacta.tam
      OBVIOUS
  <1>3. CASE Morir
      BY <1>3, NadaDeDatos DEF Morir
  <1>4. CASE Seguir("poner ocupar", Lazo(x, b, b + Techo(t), [inicio |-> b, tam |-> t]))
    <2>1. fase' = "poner ocupar" /\ lazo'.archivo = x /\ lazo'.meta = [inicio |-> b, tam |-> t]
          /\ compacta' = compacta /\ antes' = antes
        BY <1>4 DEF Seguir, Lazo
    <2>2. Fiel(antes, datos, metadata, {x}) /\ vacias = {}
        BY <1>1, <1>2 DEF DInv, Recuerda, EnMano
    <2>3. EnMano' = {x} /\ datos' = datos /\ metadata' = metadata /\ vacias' = {}
        BY <1>1, <2>1, <2>2 DEF EnMano, disco
    <2>4. Fiel(antes', datos', metadata', EnMano')
        BY <2>1, <2>2, <2>3, MismosDatos
    <2>5. AlCompactar' /\ AlLlevar' /\ AlPoner'
        BY <1>1, <1>2, <2>1, <2>3 DEF DInv, AlCompactar, AlLlevar, AlPoner, FaseDeMudar
    <2> QED BY <2>1, <2>3, <2>4, <2>5, EstaCompactando DEF FaseDeCompactar
  <1>5. Morir \/ Seguir("poner ocupar", Lazo(x, b, b + Techo(t), [inicio |-> b, tam |-> t]))
    <2>1. Morir \/ Seguir("poner ocupar",
                          Lazo(compacta.archivo, compacta.libre, compacta.libre + Techo(compacta.tam),
                               [inicio |-> compacta.libre, tam |-> compacta.tam]))
        BY DEF FinDeRecorrido
    <2> QED BY <1>2, <2>1
  <1> QED BY <1>3, <1>4, <1>5

LEMMA PonerDatosDatos ==
  ASSUME BInv, DInv, PonerDatos
  PROVE  DInv'
  <1>1. fase = "poner escribir" /\ fase' = "guardar" /\ lazo' = lazo /\ fase \in FaseDeCompactar
        /\ antes' = antes /\ metadata' = metadata /\ vacias' = vacias
        /\ EscribirBytes(compacta.libre * TamBloque, compacta.buffer)
      BY DEF PonerDatos, Seguir, FaseDeCompactar
  <1>2. PICK l \in UnLazo : l = lazo
      BY <1>1, LazoEs DEF BInv
  <1>3. PICK x \in DOMAIN metadata, b \in Nat, t \in Nat :
          x = compacta.archivo /\ b = compacta.libre /\ t = compacta.tam
      BY <1>1, ConstantesOK DEF BInv, Tipos, CompactaOK
  <1>4. l.archivo = x /\ l.meta = [inicio |-> b, tam |-> t]
      BY <1>1, <1>2, <1>3 DEF DInv, AlPoner
  <1>5. PICK m \in [inicio: Nat, tam: Nat] : m = l.meta /\ m.inicio = b /\ m.tam = t
    <2>1. [inicio |-> b, tam |-> t] \in [inicio: Nat, tam: Nat]
          /\ [inicio |-> b, tam |-> t].inicio = b /\ [inicio |-> b, tam |-> t].tam = t
        OBVIOUS
    <2> QED BY <1>4, <2>1
  <1>6. Extension(m) \subseteq Bloque \ DeOtros(metadata, {x})
      BY <1>1, <1>2, <1>4, <1>5 DEF BInv, AlCrecer, FaseDeCrecer, Crece, Lugar
  <1>7. Fiel(antes, datos, metadata, {x}) /\ vacias = {} /\ DiscoOK
      BY <1>1, <1>2, <1>4 DEF DInv, Recuerda, EnMano, BInv, Tipos
  <1>8. PICK v \in [inicio: Nat, tam: Nat] : v = metadata[x]
      BY <1>7 DEF DiscoOK
  <1>9. compacta.buffer = antes[x] /\ v.tam < t
      BY <1>1, <1>3, <1>8 DEF DInv, AlCompactar
  <1>10. DOMAIN antes[x] = 0 .. v.tam - 1 /\ v.tam <= m.tam /\ v.tam \in Nat
      BY <1>5, <1>7, <1>8, <1>9 DEF Fiel
  <1>11. EscribirBytes(m.inicio * TamBloque, antes[x])
      BY <1>1, <1>3, <1>5, <1>9
  <1>12. /\ EsPrefijo(antes[x], Bytes(datos', m))
         /\ \A c \in Byte : c \div TamBloque \notin Extension(m) => datos'[c] = datos[c]
      BY <1>6, <1>10, <1>11, EscritoSeLee
  <1>13. Fiel(antes', datos', metadata', {x})
    <2>1. \A c \in Byte : c \div TamBloque \in DeOtros(metadata, {x}) => datos'[c] = datos[c]
        BY <1>6, <1>12
    <2> QED BY <1>1, <1>7, <2>1, FielSeguido
  <1>14. AlNacer'
      BY <1>1, <1>7 DEF AlNacer
  <1>15. AlEstirar'
    <2>1. lazo'.archivo = x /\ lazo'.meta = m
        BY <1>1, <1>2, <1>4, <1>5
    <2>2. x \in DOMAIN metadata' /\ metadata'[x].tam < m.tam /\ EsPrefijo(antes'[x], Bytes(datos', m))
        BY <1>1, <1>5, <1>8, <1>9, <1>12
    <2> QED BY <2>1, <2>2 DEF AlEstirar
  <1> QED BY <1>1, <1>2, <1>4, <1>7, <1>13, <1>14, <1>15, EstaGuardando

-----------------------------------------------------------------------------
LEMMA PasoDatos ==
  ASSUME SinBorrarVacios, ~Reinicios, BInv, BInv', DInv, [Next]_vars
  PROVE  DInv'
  <1>1. Tipos'
      BY DEF BInv
  <1>2. CASE UNCHANGED vars
    <2>1. DInv' = DInv
        BY <1>2 DEF vars, DInv, Recuerda, AlNacer, AlEstirar, AlOcupar, AlBorrar, AlCompactar, AlLlevar, AlPoner,
                    EnMano
    <2> QED BY <2>1
  <1>3. CASE Pedido
    <2> SUFFICES ASSUME NEW f \in Archivo,
                        \/ crear_archivo(f) \/ borrar_archivo(f) \/ archivo_inexistente(f)
                        \/ \E tam \in Tamanios : agrandar_archivo(f, tam) \/ achicar_archivo(f, tam)
                        \/ \E k \in Punteros, n \in Largos :
                             leer_en_archivo(f, k, n) \/ \E d \in Dato : escribir_en_archivo(f, k, n, d)
                 PROVE  DInv'
        BY <1>3 DEF Pedido
    <2>1. CASE \E tam \in Tamanios : agrandar_archivo(f, tam)
        BY <1>1, <2>1, AgrandarDatos
    <2> QED BY <1>1, <2>1, CrearDatos, BorrarDatos, OtrasOrdenesDatos
  <1>4. CASE Paso
      BY <1>1, <1>4, OcuparDatos, LiberarDatos, LimpiarDatos, FinDeLazoDatos, AbrirDatos, GuardarDatos,
         FinDeSacarDatos, MudarArchivoDatos, MudarMetadataDatos, MudarDatosDatos, FinDeMudanzaDatos,
         FinDeRecorridoDatos, PonerDatosDatos DEF Paso, BInv
  <1>5. CASE Caer \/ CaerAlGuardar
      BY <1>5, NadaDeDatos DEF Caer, CaerAlGuardar, Morir
  <1>6. CASE Reiniciar
      BY <1>6 DEF Reiniciar
  <1> QED BY <1>2, <1>3, <1>4, <1>5, <1>6 DEF Next

-----------------------------------------------------------------------------
(***************************************************************************)
(* The files from outside: each answer is a step of Archivos               *)
(***************************************************************************)
(* The blocks that Archivos counts, by the number each has in its file,    *)
Pares(A) == UNION {{f} \X (1 .. BloquesDe(Cardinality(DOMAIN A[f]))) : f \in DOMAIN A}

LEMMA CardinalDice == \A S : PromesaDeArchivos!Cardinality(S) = Cardinality(S)
  BY DEF PromesaDeArchivos!Cardinality, Cardinality

LEMMA TomadosDice ==
  /\ PromesaDeArchivos!Tomados = Cardinality(Pares(antes))
  /\ PromesaDeArchivos!Tomados' = Cardinality(Pares(antes'))
  /\ \A f : PromesaDeArchivos!Tam(f) = Cardinality(DOMAIN antes[f])
  /\ \A t : PromesaDeArchivos!BloquesDe(t) = BloquesDe(t)
  <1>1. \A f : PromesaDeArchivos!Tam(f) = Cardinality(DOMAIN antes[f])
      BY CardinalDice DEF PromesaDeArchivos!Tam
  <1>2. \A t : PromesaDeArchivos!BloquesDe(t) = BloquesDe(t)
      BY DEF PromesaDeArchivos!BloquesDe, BloquesDe, Techo
  <1>3. PromesaDeArchivos!Tomados = Cardinality(Pares(antes))
      BY <1>1, <1>2, CardinalDice DEF PromesaDeArchivos!Tomados, Pares
  <1>4. PromesaDeArchivos!Tomados' = Cardinality(Pares(antes'))
    <2>1. \A f : PromesaDeArchivos!Tam(f)' = Cardinality(DOMAIN antes'[f])
        BY CardinalDice DEF PromesaDeArchivos!Tam
    <2> QED BY <1>2, <2>1, CardinalDice DEF PromesaDeArchivos!Tomados, Pares
  <1> QED BY <1>1, <1>2, <1>3, <1>4

LEMMA TamEs ==
  ASSUME NEW A, NEW d, NEW M, NEW F, Fiel(A, d, M, F), NEW f \in DOMAIN M, M[f].tam \in Nat
  PROVE  Cardinality(DOMAIN A[f]) = M[f].tam
  <1>1. DOMAIN A[f] = 0 .. M[f].tam - 1
      BY DEF Fiel
  <1>2. PICK t \in Nat : t = M[f].tam
      OBVIOUS
  <1>3. 0 .. t - 1 = 0 .. 0 + t - 1
      OBVIOUS
  <1> QED BY <1>1, <1>2, <1>3, RangoCardinal

(* are as many as those of the disk that are of a file.                    *)
LEMMA ParesSonBloques ==
  ASSUME NEW A, NEW d, NEW M, NEW F, Fiel(A, d, M, F),
         \A g \in DOMAIN M : M[g] \in [inicio: Nat, tam: Nat],
         Separados(M, {}), DeOtros(M, {}) \subseteq Bloque
  PROVE  Cardinality(Pares(A)) = Cardinality(DeOtros(M, {}))
  <1> DEFINE S == Pares(A)
             T == DeOtros(M, {})
             G == [p \in S |-> M[p[1]].inicio + p[2] - 1]
  <1>1. DOMAIN A = DOMAIN M
      BY DEF Fiel
  <1>2. ASSUME NEW f \in DOMAIN M
        PROVE  /\ M[f].inicio \in Nat /\ BloquesDe(M[f].tam) \in Nat
               /\ BloquesDe(Cardinality(DOMAIN A[f])) = BloquesDe(M[f].tam)
               /\ Extension(M[f]) = M[f].inicio .. M[f].inicio + BloquesDe(M[f].tam) - 1
    <2>1. M[f] \in [inicio: Nat, tam: Nat] /\ Cardinality(DOMAIN A[f]) = M[f].tam
        BY TamEs
    <2> QED BY <2>1, ExtensionEs
  <1>3. ASSUME NEW p \in S
        PROVE  \E f \in DOMAIN M, i \in Nat : /\ p = <<f, i>> /\ i >= 1 /\ i <= BloquesDe(M[f].tam)
                                              /\ G[p] = M[f].inicio + i - 1 /\ G[p] \in Extension(M[f])
    <2>0. PICK f \in DOMAIN M : p \in {f} \X (1 .. BloquesDe(Cardinality(DOMAIN A[f])))
        BY <1>1 DEF Pares
    <2>1. PICK i \in 1 .. BloquesDe(Cardinality(DOMAIN A[f])) : p = <<f, i>>
        BY <2>0
    <2>2. i \in Nat /\ i >= 1 /\ i <= BloquesDe(M[f].tam)
        BY <1>2, <2>1
    <2>3. G[p] = M[f].inicio + i - 1
        BY <2>1
    <2>4. M[f].inicio + i - 1 \in Extension(M[f])
        BY <1>2, <2>2
    <2> QED BY <2>1, <2>2, <2>3, <2>4
  <1>4. ASSUME NEW f \in DOMAIN M, NEW i \in Nat, i >= 1, i <= BloquesDe(M[f].tam)
        PROVE  <<f, i>> \in S
    <2>1. i \in 1 .. BloquesDe(Cardinality(DOMAIN A[f]))
        BY <1>2, <1>4
    <2> QED BY <1>1, <2>1 DEF Pares
  <1> HIDE DEF S
  <1>5. G \in [S -> T]
    <2>1. ASSUME NEW p \in S PROVE M[p[1]].inicio + p[2] - 1 \in T
      <3>1. PICK f \in DOMAIN M : G[p] \in Extension(M[f])
          BY <1>3
      <3>2. Extension(M[f]) \subseteq T
          BY DeUno
      <3> QED BY <3>1, <3>2
    <2> HIDE DEF T
    <2> QED BY <2>1
  <1>6. ASSUME NEW p \in S, NEW q \in S, G[p] = G[q]
        PROVE  p = q
    <2>1. PICK f \in DOMAIN M, i \in Nat : p = <<f, i>> /\ G[p] = M[f].inicio + i - 1 /\ G[p] \in Extension(M[f])
        BY <1>3
    <2>2. PICK g \in DOMAIN M, j \in Nat : q = <<g, j>> /\ G[q] = M[g].inicio + j - 1 /\ G[q] \in Extension(M[g])
        BY <1>3
    <2>3. f = g
        BY <1>6, <2>1, <2>2 DEF Separados
    <2>4. i = j
      <3>1. PICK s \in Nat : s = M[f].inicio
          BY <1>2
      <3>2. s + i - 1 = s + j - 1
          BY <1>6, <2>1, <2>2, <2>3, <3>1
      <3> QED BY <3>2
    <2> QED BY <2>1, <2>2, <2>3, <2>4
  <1>7. ASSUME NEW c \in T
        PROVE  \E p \in S : G[p] = c
    <2>1. PICK f \in DOMAIN M : c \in Extension(M[f])
        BY DEF DeOtros
    <2>2. PICK s \in Nat, n \in Nat : s = M[f].inicio /\ n = BloquesDe(M[f].tam) /\ c \in s .. s + n - 1
        BY <1>2, <2>1
    <2>3. PICK i \in Nat : i = c - s + 1 /\ i >= 1 /\ i <= n /\ s + i - 1 = c
        BY <2>2
    <2>4. <<f, i>> \in S
        BY <1>4, <2>2, <2>3
    <2>5. G[<<f, i>>] = c
        BY <2>2, <2>3, <2>4
    <2> QED BY <2>4, <2>5
  <1> HIDE DEF G, T
  <1>8. G \in Bijection(S, T)
      BY <1>5, <1>6, <1>7, Fun_IsBij
  <1>9. ExistsBijection(T, S)
      BY <1>8, Fun_ExistsBij, Fun_ExistsBijSymmetric
  <1>10. IsFiniteSet(T)
      BY BloqueCardinal, FS_Subset DEF T
  <1>11. Cardinality(S) = Cardinality(T)
      BY <1>9, <1>10, FS_Bijection
  <1> QED BY <1>11 DEF S, T

(* They never are more than the disk has, and all of them when it is full. *)
LEMMA TomadosCaben ==
  ASSUME NEW A, NEW d, NEW M, NEW F, Fiel(A, d, M, F), NEW B, B \subseteq Bloque,
         \A g \in DOMAIN M : M[g] \in [inicio: Nat, tam: Nat], Separados(M, {}), B = DeOtros(M, {})
  PROVE  /\ Cardinality(Pares(A)) = Cardinality(B)
         /\ Cardinality(B) \in Nat /\ Cardinality(B) <= CantBloques
         /\ B = Bloque => Cardinality(B) = CantBloques
         /\ Cardinality(Bloque \ B) = CantBloques - Cardinality(B)
  <1>1. Cardinality(Pares(A)) = Cardinality(B)
      BY ParesSonBloques
  <1>2. IsFiniteSet(B) /\ Cardinality(B) <= CantBloques
      BY BloqueCardinal, FS_Subset
  <1>3. Cardinality(B) \in Nat
      BY <1>2, FS_CardinalityType
  <1>4. Cardinality(Bloque \ B) = Cardinality(Bloque) - Cardinality(Bloque \cap B) /\ Bloque \cap B = B
      BY BloqueCardinal, FS_Difference
  <1> QED BY <1>1, <1>2, <1>3, <1>4, BloqueCardinal

LEMMA AlReposar ==
  ASSUME BInv, DInv, fase = "reposo"
  PROVE  /\ Fiel(antes, datos, metadata, {}) /\ vacias = {} /\ DOMAIN antes = DOMAIN metadata
         /\ DiscoOK /\ Separados(metadata, {}) /\ bitmap = DeOtros(metadata, {})
         /\ PromesaDeArchivos!Tomados = Cardinality(bitmap)
         /\ Cardinality(bitmap) \in Nat /\ Cardinality(bitmap) <= CantBloques
         /\ bitmap = Bloque => Cardinality(bitmap) = CantBloques
         /\ Cardinality(Bloque \ bitmap) = CantBloques - Cardinality(bitmap)
         /\ \A f \in DOMAIN metadata : metadata[f].tam \in Nat /\ PromesaDeArchivos!Tam(f) = metadata[f].tam
  <1>1. Fiel(antes, datos, metadata, {}) /\ vacias = {}
      BY EnReposoDatos
  <1>2. DiscoOK /\ Separados(metadata, {}) /\ bitmap = DeOtros(metadata, {})
      BY DEF BInv, Tipos, EnReposo, Reparto
  <1>3. bitmap \subseteq Bloque /\ \A g \in DOMAIN metadata : metadata[g] \in [inicio: Nat, tam: Nat]
      BY <1>2 DEF DiscoOK
  <1>4. DOMAIN antes = DOMAIN metadata
      BY <1>1 DEF Fiel
  <1>5. \A f \in DOMAIN metadata : metadata[f].tam \in Nat /\ PromesaDeArchivos!Tam(f) = metadata[f].tam
      BY <1>1, <1>3, TamEs, TomadosDice
  <1>6. /\ Cardinality(Pares(antes)) = Cardinality(bitmap)
        /\ Cardinality(bitmap) \in Nat /\ Cardinality(bitmap) <= CantBloques
        /\ bitmap = Bloque => Cardinality(bitmap) = CantBloques
        /\ Cardinality(Bloque \ bitmap) = CantBloques - Cardinality(bitmap)
      BY <1>1, <1>2, <1>3, TomadosCaben
  <1> QED BY <1>1, <1>2, <1>4, <1>5, <1>6, TomadosDice

LEMMA TomadosDespues ==
  ASSUME BInv', DInv', fase' = "reposo"
  PROVE  /\ Fiel(antes', datos', metadata', {})
         /\ PromesaDeArchivos!Tomados' <= CantBloques
  <1>1. Fiel(antes', datos', metadata', {})
      BY DEF DInv, Recuerda, EnMano
  <1>2. DiscoOK' /\ Separados(metadata', {}) /\ bitmap' = DeOtros(metadata', {})
      BY DEF BInv, Tipos, EnReposo, Reparto
  <1>3. bitmap' \subseteq Bloque /\ \A g \in DOMAIN metadata' : metadata'[g] \in [inicio: Nat, tam: Nat]
      BY <1>2 DEF DiscoOK
  <1>4. Cardinality(Pares(antes')) = Cardinality(bitmap') /\ Cardinality(bitmap') <= CantBloques
      BY <1>1, <1>2, <1>3, TomadosCaben
  <1> QED BY <1>1, <1>4, TomadosDice

LEMMA FielUnica ==
  ASSUME NEW A, NEW C, NEW d, NEW M, Fiel(A, d, M, {}), Fiel(C, d, M, {})
  PROVE  A = C
  <1>1. A = [g \in DOMAIN M |-> A[g]] /\ C = [g \in DOMAIN M |-> C[g]]
      BY DEF Fiel
  <1>2. \A g \in DOMAIN M : A[g] = C[g]
      BY DEF Fiel
  <1> QED BY <1>1, <1>2

LEMMA CrearVisto ==
  ASSUME BInv, DInv, BInv', DInv', NEW f \in Archivo, crear_archivo(f), fase' = "reposo"
  PROVE  PromesaDeArchivos!Crear(f)
  <1>1. /\ fase = "reposo" /\ UNCHANGED disco
        /\ f \in DOMAIN metadata \cup vacias \/ bitmap = Bloque
        /\ respuesta' = [tipo |-> "crear", archivo |-> f, tam |-> 0, hecho |-> FALSE]
      BY DEF crear_archivo, Contestar, Seguir
  <1>2. antes' = antes
      BY <1>1, AlReposar, TomadosDespues, FielUnica DEF disco
  <1>3. f \in DOMAIN antes \/ PromesaDeArchivos!Tomados = CantBloques
      BY <1>1, AlReposar
  <1> QED BY <1>1, <1>2, <1>3 DEF PromesaDeArchivos!Crear, PromesaDeArchivos!Contestar

LEMMA NegarVisto ==
  ASSUME BInv, DInv, BInv', DInv', NEW f \in Archivo, NEW tam \in Tamanios, agrandar_archivo(f, tam),
         fase' = "reposo"
  PROVE  PromesaDeArchivos!NegarAgrandar(f, tam)
  <1>1. PICK t \in Nat : t = metadata[f].tam /\ PromesaDeArchivos!Tam(f) = t
      BY AlReposar DEF agrandar_archivo
  <1>2. /\ fase = "reposo" /\ f \in DOMAIN metadata /\ UNCHANGED disco
        /\ ~hay_espacio_suficiente(BloquesDe(tam) - BloquesDe(t))
        /\ respuesta' = [tipo |-> "agrandar", archivo |-> f, tam |-> tam, hecho |-> FALSE]
      BY <1>1 DEF agrandar_archivo, Contestar, Seguir
  <1>3. antes' = antes
      BY <1>2, AlReposar, TomadosDespues, FielUnica DEF disco
  <1>4. PICK c \in Nat, p \in Nat, q \in Nat :
          c = Cardinality(bitmap) /\ p = BloquesDe(t) /\ q = BloquesDe(tam)
      BY <1>2, AlReposar, BloquesPositivo, ConstantesOK
  <1>5. ~(q - p <= CantBloques - c)
      BY <1>2, <1>4, AlReposar DEF hay_espacio_suficiente
  <1>6. c - p + q > CantBloques
      BY <1>4, <1>5, ConstantesOK
  <1>7. PromesaDeArchivos!Tomados = c /\ PromesaDeArchivos!BloquesDe(PromesaDeArchivos!Tam(f)) = p
        /\ PromesaDeArchivos!BloquesDe(tam) = q /\ f \in DOMAIN antes
      BY <1>1, <1>2, <1>4, AlReposar, TomadosDice
  <1> QED BY <1>2, <1>3, <1>6, <1>7 DEF PromesaDeArchivos!NegarAgrandar, PromesaDeArchivos!Contestar

LEMMA LeerVisto ==
  ASSUME BInv, DInv, BInv', DInv', NEW f \in Archivo, NEW k \in Punteros, NEW n \in Largos,
         leer_en_archivo(f, k, n), fase' = "reposo"
  PROVE  PromesaDeArchivos!Leer(f, k, n)
  <1>1. /\ fase = "reposo" /\ f \in DOMAIN metadata /\ UNCHANGED disco
        /\ k + n <= metadata[f].tam
        /\ respuesta' = [tipo |-> "leer", archivo |-> f, tam |-> n, hecho |-> TRUE]
      BY DEF leer_en_archivo, Contestar, Morir
  <1>2. antes' = antes
      BY <1>1, AlReposar, TomadosDespues, FielUnica DEF disco
  <1>3. PICK t \in Nat : t = metadata[f].tam /\ PromesaDeArchivos!Tam(f) = t /\ f \in DOMAIN antes
      BY <1>1, AlReposar
  <1>4. k + n <= t
      BY <1>1, <1>3, ConstantesOK
  <1> QED BY <1>1, <1>2, <1>3, <1>4 DEF PromesaDeArchivos!Leer, PromesaDeArchivos!Contestar

(* The bytes of the stretch change, and those of no other file.            *)
LEMMA TramoEscrito ==
  ASSUME NEW m \in [inicio: Nat, tam: Nat], Extension(m) \subseteq Bloque,
         NEW k \in Nat, NEW n \in Nat, k + n <= m.tam, NEW d, NEW e,
         EscribirBytes(m.inicio * TamBloque + k, [j \in 0 .. n - 1 |-> d])
  PROVE  /\ \A j \in 0 .. m.tam - 1 :
              Bytes(datos', m)[j] = IF j \in k .. k + n - 1 THEN d ELSE Bytes(datos, m)[j]
         /\ \A b \in Byte : b \div TamBloque \notin Extension(m) => datos'[b] = datos[b]
  <1>1. PICK x \in Nat : x = m.inicio * TamBloque
    <2>1. m.inicio \in Nat /\ TamBloque \in Nat
        BY ConstantesOK
    <2>2. m.inicio * TamBloque \in Nat
        BY <2>1, SMTT(30)
    <2> QED BY <2>2
  <1>2. datos' = [b \in Byte |-> IF b - (x + k) \in 0 .. n - 1 THEN d ELSE datos[b]]
      BY <1>1 DEF EscribirBytes
  <1>3. m.tam \in Nat
      OBVIOUS
  <1>4. ASSUME NEW j \in 0 .. m.tam - 1
        PROVE  /\ x + j \in Byte /\ (x + j) \div TamBloque \in Extension(m)
               /\ x + j - (x + k) \in 0 .. n - 1 <=> j \in k .. k + n - 1
    <2>1. (x + j) \div TamBloque \in Extension(m)
        BY <1>1, ByteDeArchivo
    <2>2. x + j \in Nat
        BY <1>1, <1>3
    <2>3. x + j \in Byte
        BY <2>1, <2>2, EnByte
    <2>4. x + j - (x + k) \in 0 .. n - 1 <=> j \in k .. k + n - 1
        BY <1>1, <1>3
    <2> QED BY <2>1, <2>3, <2>4
  <1>5. ASSUME NEW j \in 0 .. m.tam - 1
        PROVE  Bytes(datos', m)[j] = IF j \in k .. k + n - 1 THEN d ELSE Bytes(datos, m)[j]
    <2>1. Bytes(datos', m)[j] = datos'[x + j] /\ Bytes(datos, m)[j] = datos[x + j]
        BY <1>1, <1>4 DEF Bytes
    <2>2. datos'[x + j] = IF j \in k .. k + n - 1 THEN d ELSE datos[x + j]
        BY <1>2, <1>4
    <2> QED BY <2>1, <2>2
  <1>6. ASSUME NEW b \in Byte, b \div TamBloque \notin Extension(m)
        PROVE  datos'[b] = datos[b]
    <2>1. b \in Int
        BY DEF Byte
    <2>2. ASSUME b - (x + k) \in 0 .. n - 1 PROVE FALSE
      <3>1. b - x \in 0 .. m.tam - 1 /\ x + (b - x) = b
          BY <1>1, <1>3, <2>1, <2>2
      <3> QED BY <1>4, <1>6, <3>1
    <2> QED BY <1>2, <2>2
  <1> QED BY <1>5, <1>6

LEMMA EscribirVisto ==
  ASSUME BInv, DInv, BInv', DInv', NEW f \in Archivo, NEW k \in Punteros, NEW n \in Largos, NEW d \in Dato,
         escribir_en_archivo(f, k, n, d)
  PROVE  PromesaDeArchivos!Escribir(f, k, n, d)
  <1>1. fase = "reposo" /\ fase' = "reposo" /\ f \in DOMAIN metadata /\ metadata' = metadata
      BY DEF escribir_en_archivo, Contestar
  <1>2. PICK m \in [inicio: Nat, tam: Nat] : m = metadata[f] /\ PromesaDeArchivos!Tam(f) = m.tam
    <2>1. metadata[f] \in [inicio: Nat, tam: Nat]
        BY <1>1, AlReposar DEF DiscoOK
    <2> QED BY <1>1, <2>1, AlReposar
  <1>3. k \in Nat /\ n \in Nat /\ m.tam \in Nat
      BY ConstantesOK
  <1>4. respuesta' = [tipo |-> "escribir", archivo |-> f, tam |-> n, hecho |-> k + n <= m.tam]
      BY <1>2 DEF escribir_en_archivo, Contestar
  <1>5. f \in DOMAIN antes
      BY <1>1, AlReposar
  <1>6. CASE k + n > m.tam
    <2>1. datos' = datos /\ ~(k + n <= m.tam)
        BY <1>2, <1>3, <1>6 DEF escribir_en_archivo
    <2>2. antes' = antes
        BY <1>1, <2>1, AlReposar, TomadosDespues, FielUnica
    <2> QED BY <1>2, <1>4, <1>5, <2>1, <2>2 DEF PromesaDeArchivos!Escribir, PromesaDeArchivos!Contestar
  <1>7. CASE k + n <= m.tam
    <2>1. EscribirBytes(m.inicio * TamBloque + k, [j \in 0 .. n - 1 |-> d])
      <3>1. ~(k + n > m.tam)
          BY <1>3, <1>7
      <3> QED BY <1>2, <3>1 DEF escribir_en_archivo
    <2>2. Extension(m) \subseteq bitmap /\ bitmap \subseteq Bloque /\ Separados(metadata, {})
      <3>1. f \in DOMAIN metadata \ {}
          BY <1>1
      <3>2. Extension(m) \subseteq DeOtros(metadata, {})
          BY <1>2, <3>1, DeUno
      <3> QED BY <1>1, <3>2, AlReposar DEF DiscoOK
    <2>3. /\ \A j \in 0 .. m.tam - 1 :
               Bytes(datos', m)[j] = IF j \in k .. k + n - 1 THEN d ELSE Bytes(datos, m)[j]
          /\ \A b \in Byte : b \div TamBloque \notin Extension(m) => datos'[b] = datos[b]
        BY <1>3, <1>7, <2>1, <2>2, TramoEscrito
    <2>4. ASSUME NEW g \in DOMAIN metadata \ {f}
          PROVE  antes'[g] = antes[g]
      <3>1. metadata[g] \in [inicio: Nat, tam: Nat] /\ Extension(metadata[g]) \cap Extension(m) = {}
          BY <1>1, <1>2, <2>2, AlReposar DEF DiscoOK, Separados
      <3>2. \A b \in Byte : b \div TamBloque \in Extension(metadata[g]) => datos'[b] = datos[b]
          BY <2>3, <3>1
      <3>3. Bytes(datos', metadata[g]) = Bytes(datos, metadata[g])
          BY <3>1, <3>2, BytesIguales
      <3>4. antes'[g] = Bytes(datos', metadata[g]) /\ antes[g] = Bytes(datos, metadata[g])
          BY <1>1, AlReposar, TomadosDespues DEF Fiel
      <3> QED BY <3>3, <3>4
    <2>5. antes'[f] = Bytes(datos', m) /\ antes[f] = Bytes(datos, m)
        BY <1>1, <1>2, AlReposar, TomadosDespues DEF Fiel
    <2>6. antes'[f] = [j \in DOMAIN antes[f] |-> IF j \in k .. k + n - 1 THEN d ELSE antes[f][j]]
      <3>1. DOMAIN Bytes(datos', m) = 0 .. m.tam - 1 /\ DOMAIN Bytes(datos, m) = 0 .. m.tam - 1
            /\ Bytes(datos', m) = [j \in 0 .. m.tam - 1 |-> Bytes(datos', m)[j]]
          BY DEF Bytes
      <3> QED BY <2>3, <2>5, <3>1
    <2>7. antes' = [antes EXCEPT ![f] = [j \in DOMAIN @ |-> IF j \in k .. k + n - 1 THEN d ELSE @[j]]]
      <3>1. antes' = [g \in DOMAIN metadata |-> antes'[g]] /\ antes = [g \in DOMAIN metadata |-> antes[g]]
          BY <1>1, AlReposar, TomadosDespues DEF Fiel
      <3> QED BY <1>1, <2>4, <2>6, <3>1
    <2> QED BY <1>2, <1>4, <1>5, <1>7, <2>7 DEF PromesaDeArchivos!Escribir, PromesaDeArchivos!Contestar
  <1> QED BY <1>3, <1>6, <1>7

LEMMA GuardarVisto ==
  ASSUME BInv, DInv, BInv', DInv', GuardarMetadata
  PROVE  \E f \in Archivo : PromesaDeArchivos!Crear(f) \/ PromesaDeArchivos!Agrandar(f)
  <1>1. fase = "guardar" /\ fase' = "reposo" /\ datos' = datos /\ Guardar(lazo.archivo, lazo.meta)
        /\ respuesta' = [tipo |-> IF lazo.archivo \in vacias THEN "crear" ELSE "agrandar",
                         archivo |-> lazo.archivo, tam |-> lazo.meta.tam, hecho |-> TRUE]
      BY DEF GuardarMetadata, Contestar
  <1>2. PICK l \in UnLazo : l = lazo
      BY <1>1, LazoEs DEF BInv
  <1>3. PICK f \in Archivo, m \in [inicio: Nat, tam: Nat] : f = l.archivo /\ m = l.meta
      BY DEF UnLazo
  <1>4. metadata' = [g \in DOMAIN metadata \cup {f} |-> IF g = f THEN m ELSE metadata[g]]
      BY <1>1, <1>2, <1>3 DEF Guardar
  <1>5. Fiel(antes, datos, metadata, {f}) /\ DiscoOK
      BY <1>1, <1>2, <1>3 DEF DInv, Recuerda, EnMano, BInv, Tipos
  <1>6. Fiel(antes', datos', metadata', {}) /\ PromesaDeArchivos!Tomados' <= CantBloques
      BY <1>1, TomadosDespues
  <1>7. DOMAIN antes = DOMAIN metadata /\ DOMAIN antes' = DOMAIN metadata'
        /\ antes' = [g \in DOMAIN metadata' |-> antes'[g]]
      BY <1>5, <1>6 DEF Fiel
  <1>8. \A g \in DOMAIN metadata \ {f} : antes'[g] = antes[g]
      BY <1>1, <1>4, <1>5, <1>6 DEF Fiel
  <1>9. antes'[f] = Bytes(datos, m)
    <2>1. f \in DOMAIN metadata' \ {} /\ metadata'[f] = m
        BY <1>4
    <2> QED BY <1>1, <1>6, <2>1 DEF Fiel
  <1>10. CASE f \in vacias
    <2>1. f \notin DOMAIN metadata /\ m.tam = 0
        BY <1>1, <1>2, <1>3, <1>5, <1>10 DEF DInv, AlNacer, DiscoOK
    <2>2. antes'[f] = [k \in {} |-> Cero]
      <3>1. 0 .. m.tam - 1 = {}
          BY <2>1
      <3> QED BY <1>9, <3>1 DEF Bytes
    <2>3. antes' = [g \in DOMAIN antes \cup {f} |-> IF g = f THEN [k \in {} |-> Cero] ELSE antes[g]]
        BY <1>4, <1>7, <1>8, <2>2
    <2>4. respuesta' = [tipo |-> "crear", archivo |-> f, tam |-> 0, hecho |-> TRUE]
        BY <1>1, <1>2, <1>3, <1>10, <2>1
    <2>5. PromesaDeArchivos!Crear(f)
        BY <1>6, <1>7, <2>1, <2>3, <2>4 DEF PromesaDeArchivos!Crear, PromesaDeArchivos!Contestar
    <2> QED BY <2>5
  <1>11. CASE f \notin vacias
    <2>1. f \in DOMAIN metadata /\ metadata[f].tam < m.tam /\ EsPrefijo(antes[f], Bytes(datos, m))
        BY <1>1, <1>2, <1>3, <1>11 DEF DInv, AlEstirar
    <2>2. PICK v \in [inicio: Nat, tam: Nat] : v = metadata[f]
        BY <1>5, <2>1 DEF DiscoOK
    <2>3. DOMAIN antes[f] = 0 .. v.tam - 1 /\ DOMAIN antes'[f] = 0 .. m.tam - 1
        BY <1>5, <1>9, <2>1, <2>2 DEF Fiel, Bytes
    <2>4. \A k \in DOMAIN antes[f] : k \in DOMAIN antes'[f] /\ antes'[f][k] = antes[f][k]
      <3>1. 0 .. v.tam - 1 \subseteq 0 .. m.tam - 1
          BY <2>1, <2>2
      <3> QED BY <1>9, <2>1, <2>3, <3>1 DEF EsPrefijo
    <2>5. Cardinality(DOMAIN antes'[f]) = m.tam
      <3>1. f \in DOMAIN metadata' /\ metadata'[f] = m /\ m.tam \in Nat
          BY <1>4
      <3> QED BY <1>6, <3>1, TamEs
    <2>6. PromesaDeArchivos!Tam(f) = v.tam
        BY <1>5, <2>1, <2>2, TamEs, TomadosDice
    <2>7. m.tam > v.tam
        BY <2>1, <2>2
    <2>8. DOMAIN antes' = DOMAIN antes
        BY <1>4, <1>7, <2>1
    <2>9. respuesta' = [tipo |-> "agrandar", archivo |-> f, tam |-> m.tam, hecho |-> TRUE]
        BY <1>1, <1>2, <1>3, <1>11
    <2>10. PromesaDeArchivos!Cardinality(DOMAIN antes'[f]) = m.tam
        BY <2>5, CardinalDice
    <2>11. PromesaDeArchivos!Agrandar(f)
        BY <1>6, <1>7, <1>8, <2>1, <2>4, <2>6, <2>7, <2>8, <2>9, <2>10
           DEF PromesaDeArchivos!Agrandar, PromesaDeArchivos!Contestar
    <2> QED BY <2>11
  <1> QED BY <1>10, <1>11

LEMMA QuitarVisto ==
  ASSUME BInv, DInv, BInv', DInv', QuitarMetadata
  PROVE  \E f \in Archivo : PromesaDeArchivos!Borrar(f)
  <1>1. fase = "quitar" /\ fase' = "reposo" /\ datos' = datos
        /\ metadata' = [g \in DOMAIN metadata \ {lazo.archivo} |-> metadata[g]]
        /\ respuesta' = [tipo |-> "borrar", archivo |-> lazo.archivo, tam |-> 0, hecho |-> TRUE]
      BY DEF QuitarMetadata, Contestar
  <1>2. PICK f \in Archivo : f = lazo.archivo /\ f \in DOMAIN metadata
      BY <1>1 DEF BInv, Tipos, LazoOK
  <1>3. Fiel(antes, datos, metadata, {f})
      BY <1>1, <1>2 DEF DInv, Recuerda, EnMano
  <1>4. Fiel(antes', datos', metadata', {})
      BY <1>1, TomadosDespues
  <1>5. DOMAIN antes = DOMAIN metadata /\ DOMAIN metadata' = DOMAIN metadata \ {f}
        /\ antes' = [g \in DOMAIN metadata' |-> antes'[g]]
      BY <1>1, <1>2, <1>3, <1>4 DEF Fiel
  <1>6. \A g \in DOMAIN metadata \ {f} : antes'[g] = antes[g]
      BY <1>1, <1>2, <1>3, <1>4 DEF Fiel
  <1>7. antes' = [g \in DOMAIN antes \ {f} |-> antes[g]]
      BY <1>5, <1>6
  <1>8. PromesaDeArchivos!Borrar(f)
      BY <1>1, <1>2, <1>5, <1>7 DEF PromesaDeArchivos!Borrar, PromesaDeArchivos!Contestar
  <1> QED BY <1>8

(* While an order is served nothing is seen of it: only its answer is.     *)
LEMMA PasoVisto ==
  ASSUME BInv, DInv, BInv', DInv', ~Reinicios, [Next]_vars
  PROVE  [PromesaDeArchivos!Next]_(PromesaDeArchivos!vars)
  <1> DEFINE Igual == UNCHANGED <<antes, respuesta>>
  <1>1. Igual => UNCHANGED PromesaDeArchivos!vars
      BY DEF PromesaDeArchivos!vars
  <1>2. SUFFICES ASSUME Next, ~Igual PROVE PromesaDeArchivos!Next
      BY <1>1 DEF vars
  <1>3. ~Morir /\ \A fs, l : ~Seguir(fs, l)
      BY <1>2 DEF Morir, Seguir
  <1>4. CASE Pedido
    <2>1. PICK f \in Archivo :
            \/ crear_archivo(f) \/ borrar_archivo(f) \/ archivo_inexistente(f)
            \/ \E tam \in Tamanios : agrandar_archivo(f, tam) \/ achicar_archivo(f, tam)
            \/ \E k \in Punteros, n \in Largos :
                 leer_en_archivo(f, k, n) \/ \E d \in Dato : escribir_en_archivo(f, k, n, d)
        BY <1>4 DEF Pedido
    <2>2. CASE crear_archivo(f)
      <3>1. fase' = "reposo"
          BY <1>3, <2>2 DEF crear_archivo, Contestar
      <3> QED BY <2>2, <3>1, CrearVisto DEF PromesaDeArchivos!Next
    <2>3. CASE borrar_archivo(f) \/ archivo_inexistente(f)
        BY <1>3, <2>3 DEF borrar_archivo, archivo_inexistente
    <2>4. ASSUME NEW tam \in Tamanios, agrandar_archivo(f, tam)
          PROVE  PromesaDeArchivos!Next
      <3>1. fase' = "reposo"
          BY <1>2, <1>3, <2>4 DEF agrandar_archivo, Contestar
      <3> QED BY <2>4, <3>1, NegarVisto DEF PromesaDeArchivos!Next
    <2>5. ASSUME NEW tam \in Tamanios, achicar_archivo(f, tam)
          PROVE  PromesaDeArchivos!Next
        BY <1>2, <2>5 DEF achicar_archivo
    <2>6. ASSUME NEW k \in Punteros, NEW n \in Largos, leer_en_archivo(f, k, n)
          PROVE  PromesaDeArchivos!Next
      <3>1. fase' = "reposo"
          BY <1>3, <2>6 DEF leer_en_archivo, Contestar
      <3> QED BY <2>6, <3>1, LeerVisto DEF PromesaDeArchivos!Next
    <2>7. ASSUME NEW k \in Punteros, NEW n \in Largos, NEW d \in Dato, escribir_en_archivo(f, k, n, d)
          PROVE  PromesaDeArchivos!Next
        BY <2>7, EscribirVisto DEF PromesaDeArchivos!Next
    <2> QED BY <2>1, <2>2, <2>3, <2>4, <2>5, <2>6, <2>7
  <1>5. CASE Paso
    <2>1. CASE GuardarMetadata
        BY <2>1, GuardarVisto DEF PromesaDeArchivos!Next
    <2>2. CASE QuitarMetadata
        BY <2>2, QuitarVisto DEF PromesaDeArchivos!Next
    <2>3. CASE ocupar_bloque \/ liberar_bloque \/ RecortarBloque \/ limpiar_bloque \/ FinDeLazo
               \/ FinDeRecorte \/ AbrirMetadata
        BY <1>3, <2>3 DEF ocupar_bloque, liberar_bloque, RecortarBloque, limpiar_bloque, FinDeLazo,
                          FinDeRecorte, AbrirMetadata
    <2>4. CASE FinDeSacar \/ MudarArchivo \/ MudarMetadata \/ MudarDatos \/ FinDeMudanza
               \/ FinDeRecorrido \/ PonerDatos
        BY <1>2, <1>3, <2>4 DEF FinDeSacar, MudarArchivo, MudarMetadata, MudarDatos, FinDeMudanza,
                                FinDeRecorrido, PonerDatos
    <2> QED BY <1>5, <2>1, <2>2, <2>3, <2>4 DEF Paso
  <1>6. CASE Caer \/ CaerAlGuardar
      BY <1>3, <1>6 DEF Caer, CaerAlGuardar
  <1>7. CASE Reiniciar
      BY <1>7 DEF Reiniciar
  <1> QED BY <1>2, <1>4, <1>5, <1>6, <1>7 DEF Next

(* What the processes see of an interface that is not started again and is *)
(* not asked to delete an empty file is Archivos: files with contents of   *)
(* their own, whole orders, every byte kept by the compactions, and no     *)
(* order refused for lack of space while the disk has it, for any blocks,  *)
(* files, sizes and orders.                                                *)
THEOREM DialFSImplementa == SinBorrarVacios /\ ~Reinicios => (Spec => Implementa)
  <1> SUFFICES ASSUME SinBorrarVacios, ~Reinicios PROVE Spec => PromesaDeArchivos!Spec
      BY DEF Implementa
  <1>1. Init => BInv /\ DInv
      BY InicioBitmap, InicioDatos
  <1>2. BInv /\ DInv /\ [Next]_vars => BInv' /\ DInv'
      BY PasoBitmap, PasoDatos
  <1>3. Init => PromesaDeArchivos!Init
      BY DEF Init, PromesaDeArchivos!Init
  <1>4. BInv /\ DInv /\ BInv' /\ DInv' /\ [Next]_vars => [PromesaDeArchivos!Next]_(PromesaDeArchivos!vars)
      BY PasoVisto
  <1> QED BY <1>1, <1>2, <1>3, <1>4, PTL DEF Spec, PromesaDeArchivos!Spec
=============================================================================
