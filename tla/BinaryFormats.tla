---- MODULE BinaryFormats ----
(***************************************************************************)
(* The two runtimes behind one set of names: what packing a value of some  *)
(* kind appends, a string's, an array's or a map's being its head only, and*)
(* what a function of the reader returns.                                  *)
(***************************************************************************)
EXTENDS ByteWords

MP == INSTANCE MsgPackCodec
CB == INSTANCE CborCodec
Formats == {"msgpack", "cbor"}

MsgPacked(kind, v) ==
    CASE kind = "int" -> MP!PackInt(v) [] kind = "uint" -> MP!PackUint(v)
      [] kind = "float" -> MP!PackFloat(v) [] kind = "double" -> MP!PackDouble(v)
      [] kind = "bool" -> MP!PackBool(v) [] kind = "nil" -> MP!PackNil
      [] kind = "str" -> MP!StrHead(v) [] kind = "array" -> MP!ArrayHead(v)
      [] kind = "map" -> MP!MapHead(v)
CborPacked(kind, v) ==
    CASE kind = "int" -> CB!PackInt(v) [] kind = "uint" -> CB!PackUint(v)
      [] kind = "float" -> CB!PackFloat(v) [] kind = "double" -> CB!PackDouble(v)
      [] kind = "bool" -> CB!PackBool(v) [] kind = "nil" -> CB!PackNil
      [] kind = "str" -> CB!StrHead(v) [] kind = "array" -> CB!ArrayHead(v)
      [] kind = "map" -> CB!MapHead(v)
Pack(fmt, kind, v) == IF fmt = "msgpack" THEN MsgPacked(kind, v) ELSE CborPacked(kind, v)
PackedStr(fmt, s) == Pack(fmt, "str", Len(s)) \o s

MsgRead(how, d, p) ==
    CASE how = "int" -> MP!UnpackInt64(d, p) [] how = "uint" -> MP!UnpackUint64(d, p)
      [] how = "asint" -> MP!NumberAsInt64(d, p) [] how = "asuint" -> MP!NumberAsUint64(d, p)
      [] how = "double" -> MP!UnpackDouble(d, p) [] how = "bool" -> MP!UnpackBool(d, p)
      [] how = "nil" -> MP!UnpackNil(d, p) [] how = "str" -> MP!UnpackStr(d, p)
      [] how = "array" -> MP!UnpackArrayHead(d, p) [] how = "map" -> MP!UnpackMapHead(d, p)
      [] how = "skip" -> MP!Skip(d, p)
CborRead(how, d, p) ==
    CASE how = "int" -> CB!UnpackInt64(d, p) [] how = "uint" -> CB!UnpackUint64(d, p)
      [] how = "asint" -> CB!NumberAsInt64(d, p) [] how = "asuint" -> CB!NumberAsUint64(d, p)
      [] how = "double" -> CB!UnpackDouble(d, p) [] how = "bool" -> CB!UnpackBool(d, p)
      [] how = "nil" -> CB!UnpackNil(d, p) [] how = "str" -> CB!UnpackStr(d, p)
      [] how = "array" -> CB!UnpackArrayHead(d, p) [] how = "map" -> CB!UnpackMapHead(d, p)
      [] how = "skip" -> CB!Skip(d, p)
Read(fmt, how, d, p) == IF fmt = "msgpack" THEN MsgRead(how, d, p) ELSE CborRead(how, d, p)
IsNil(fmt, b) == IF fmt = "msgpack" THEN MP!IsNil(b) ELSE CB!IsNil(b)
====
