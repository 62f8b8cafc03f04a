--------------------------- MODULE MCFrameStream ---------------------------
EXTENDS FrameStream

CONSTANTS StreamLength, StreamBytes

\* An application's function that takes two bytes, of which one may be missing, if
\* the first is 0, waits if it is 1, and otherwise fails, takes nothing or claims
\* more than any stream has.
MCAnswers ==
  {[b \in StreamBytes |-> CASE b = 0 -> Result("kSuccess", 2)
                            [] b = 1 -> Result("kNeedMoreData", 0)
                            [] OTHER -> bad] :
     bad \in {Result("kError", 1), Result("kSuccess", 0), Result("kSuccess", StreamLength + 1)}}

\* A delimiter, two lengths, length fields of one and two bytes in either order,
\* at the beginning and inside of the header, and the functions above.
MCCodecs ==
  {[kind |-> "delimiter", delimiter |-> 0]}
  \cup [kind : {"fixed"}, fixed_length : {1, 3}]
  \cup {c \in [kind : {"length"}, length_field_offset : 0 .. 1, length_field_length : 1 .. 2,
               header_len : 1 .. 3, network_to_host : BOOLEAN] :
          c.length_field_offset + c.length_field_length <= c.header_len}
  \cup [kind : {"callback"}, answers : MCAnswers]

MCStreams == [1 .. StreamLength -> StreamBytes]
=============================================================================
