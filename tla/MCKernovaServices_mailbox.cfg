SPECIFICATION Spec
CONSTANTS
  ENCLAVE_SIZE = 5
  DATA_BUFFER_SIZE = 4
  VECTOR = 2
  WORD = 16
  Bytes = {1, 2}
  Messages <- MCMessages
  Params = {1, 15}
  Avx512 = {TRUE, FALSE}
  MaxSends = 2
INVARIANT ServicesTypeOK
INVARIANT MailboxKept
INVARIANT PackerAccepts
PROPERTY WipedBeforeFree
PROPERTY ImplementsMailbox
