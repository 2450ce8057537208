-------------------------------- MODULE MCOsc --------------------------------
(***************************************************************************)
(* Model checking of OscTransport: two callers, so that every two calls of *)
(* Connect, Disconnect and Send overlap, and one Listen; and of            *)
(* OscPackets.  They share the codec and no variable, so a behaviour is    *)
(* one of the transport, or of a packet while no socket is in use.         *)
(***************************************************************************)
EXTENDS OscTransport, OscPackets

MCInit == Init /\ (NoPacket \/ PacketInit)

MCNext == \/ NoPacket /\ Next /\ UNCHANGED packetVars
          \/ PacketNext /\ UNCHANGED vars

MCSpec == MCInit /\ [][MCNext]_<<vars, packetVars>>

MCFairSpec == MCSpec /\ Fairness

-----------------------------------------------------------------------------
Message(addr, args) == [addr |-> addr, args |-> args]

\* Addresses and strings that leave one to four bytes of their last word to
\* the null and its padding, integers at both ends of 32 bits, blobs with and
\* without padding, every argument that has no bytes, and what the encoder
\* refuses.
MCSayings ==
  {Message(<<47>>, <<>>),
   Message(<<47, 97>>, << <<"int32", -1>>, <<"string", <<98, 99, 100>> >> >>),
   Message(<<47, 97, 98>>, << <<"blob", <<1, 2, 3>> >>,
                              <<"int64", (-2147483647) - 1>> >>),
   Message(<<47, 97, 98, 99>>, << <<"bool", TRUE>>, <<"nil", <<>> >>,
                                  <<"bool", FALSE>>,
                                  <<"blob", <<1, 0, 0, 4>> >> >>),
   Message(<<47, 97>>, << <<"string", <<>> >>, <<"float64", <<63, 0, 0, 0>> >>,
                          <<"int", 2147483647>>, <<"blob", <<>> >> >>),
   Message(<<97>>, <<>>),
   Message(<<>>, <<>>),
   Message(<<47>>, << <<"wide", <<>> >> >>),
   Message(<<47>>, << <<"map", <<>> >> >>)}

MCCompany == {Message(<<47>>, <<>>),
              Message(<<47, 97>>, << <<"int32", -1>>,
                                     <<"string", <<98, 99, 100>> >> >>)}

\* From the console: a message, a bundle of two, a bundle of none, noise.
MCPackets == LET answer == encodeMessage(Message(<<47, 97>>, << <<"int32", 1>> >>))
             IN  {answer, BundleOf(<<answer, answer>>), BundleOf(<<>>), <<1, 2>>}

\* The console of the single-message instance.
MCAnswers == {encodeMessage(Message(<<47>>, <<>>)), <<1, 2>>}
=============================================================================
