------------------------------ MODULE JHTables ------------------------------
(***************************************************************************)
(* The constant tables of jh_hash in aux_hash.c, byte for byte: JH256_H0  *)
(* (line 423), the initial state, and E8_bitslice_roundconstant (lines    *)
(* 425-467), the 42 round constants of 32 bytes in the bitsliced layout.  *)
(***************************************************************************)
EXTENDS Naturals

JH256_H0 ==
  <<235, 152, 163, 65, 44, 32, 211, 235, 146, 205, 190, 123, 156, 178, 69, 193,
    28, 147, 81, 145, 96, 212, 199, 250, 38, 0, 130, 214, 126, 80, 138, 3,
    164, 35, 158, 38, 119, 38, 185, 69, 224, 251, 26, 72, 212, 26, 148, 119,
    205, 181, 171, 38, 2, 107, 23, 122, 86, 240, 36, 66, 15, 255, 47, 168,
    113, 163, 150, 137, 127, 46, 77, 117, 29, 20, 73, 8, 247, 125, 226, 98,
    39, 118, 149, 247, 118, 36, 143, 148, 135, 213, 182, 87, 71, 128, 41, 108,
    92, 94, 39, 45, 172, 142, 13, 108, 81, 132, 80, 198, 87, 5, 122, 15,
    123, 228, 211, 103, 112, 36, 18, 234, 137, 227, 171, 19, 211, 28, 215, 105>>

E8_bitslice_roundconstant ==
  <<<<114, 213, 222, 162, 223, 21, 248, 103, 123, 132, 21, 10, 183, 35, 21, 87, 129, 171, 214, 144, 77, 90, 135, 246, 78, 159, 79, 197, 195, 209, 43, 64>>,
    <<234, 152, 58, 224, 92, 69, 250, 156, 3, 197, 210, 153, 102, 178, 153, 154, 102, 2, 150, 180, 242, 187, 83, 138, 181, 86, 20, 26, 136, 219, 162, 49>>,
    <<3, 163, 90, 92, 154, 25, 14, 219, 64, 63, 178, 10, 135, 193, 68, 16, 28, 5, 25, 128, 132, 158, 149, 29, 111, 51, 235, 173, 94, 231, 205, 220>>,
    <<16, 186, 19, 146, 2, 191, 107, 65, 220, 120, 101, 21, 247, 187, 39, 208, 10, 44, 129, 57, 55, 170, 120, 80, 63, 26, 191, 210, 65, 0, 145, 211>>,
    <<66, 45, 90, 13, 246, 204, 126, 144, 221, 98, 159, 156, 146, 192, 151, 206, 24, 92, 167, 11, 199, 43, 68, 172, 209, 223, 101, 214, 99, 198, 252, 35>>,
    <<151, 110, 108, 3, 158, 224, 184, 26, 33, 5, 69, 126, 68, 108, 236, 168, 238, 241, 3, 187, 93, 142, 97, 250, 253, 150, 151, 178, 148, 131, 129, 151>>,
    <<74, 142, 133, 55, 219, 3, 48, 47, 42, 103, 141, 45, 251, 159, 106, 149, 138, 254, 115, 129, 248, 184, 105, 108, 138, 199, 114, 70, 192, 127, 66, 20>>,
    <<197, 244, 21, 143, 189, 199, 94, 196, 117, 68, 111, 167, 143, 17, 187, 128, 82, 222, 117, 183, 174, 228, 136, 188, 130, 184, 0, 30, 152, 166, 163, 244>>,
    <<142, 244, 143, 51, 169, 163, 99, 21, 170, 95, 86, 36, 213, 183, 249, 137, 182, 241, 237, 32, 124, 90, 224, 253, 54, 202, 233, 90, 6, 66, 44, 54>>,
    <<206, 41, 53, 67, 78, 254, 152, 61, 83, 58, 249, 116, 115, 154, 75, 167, 208, 245, 31, 89, 111, 78, 129, 134, 14, 157, 173, 129, 175, 216, 90, 159>>,
    <<167, 5, 6, 103, 238, 52, 98, 106, 139, 11, 40, 190, 110, 185, 23, 39, 71, 116, 7, 38, 198, 128, 16, 63, 224, 160, 126, 111, 198, 126, 72, 123>>,
    <<13, 85, 10, 165, 74, 248, 164, 192, 145, 227, 231, 159, 151, 142, 241, 158, 134, 118, 114, 129, 80, 96, 141, 212, 126, 158, 90, 65, 243, 229, 176, 98>>,
    <<252, 159, 31, 236, 64, 84, 32, 122, 227, 228, 26, 0, 206, 244, 201, 132, 79, 215, 148, 245, 157, 250, 149, 216, 85, 46, 126, 17, 36, 195, 84, 165>>,
    <<91, 223, 114, 40, 189, 254, 110, 40, 120, 245, 127, 226, 15, 165, 196, 178, 5, 137, 124, 239, 238, 73, 211, 46, 68, 126, 147, 133, 235, 40, 89, 127>>,
    <<112, 95, 105, 55, 179, 36, 49, 74, 94, 134, 40, 241, 29, 214, 228, 101, 199, 27, 119, 4, 81, 185, 32, 231, 116, 254, 67, 232, 35, 212, 135, 138>>,
    <<125, 41, 232, 163, 146, 118, 148, 242, 221, 203, 122, 9, 155, 48, 217, 193, 29, 27, 48, 251, 91, 220, 27, 224, 218, 36, 73, 79, 242, 156, 130, 191>>,
    <<164, 231, 186, 49, 180, 112, 191, 255, 13, 50, 68, 5, 222, 248, 188, 72, 59, 174, 252, 50, 83, 187, 211, 57, 69, 159, 195, 193, 224, 41, 139, 160>>,
    <<229, 201, 5, 253, 247, 174, 9, 15, 148, 112, 52, 18, 66, 144, 241, 52, 162, 113, 183, 1, 227, 68, 237, 149, 233, 59, 142, 54, 79, 47, 152, 74>>,
    <<136, 64, 29, 99, 160, 108, 246, 21, 71, 193, 68, 75, 135, 82, 175, 255, 126, 187, 74, 241, 226, 10, 198, 48, 70, 112, 182, 197, 204, 110, 140, 230>>,
    <<164, 213, 164, 86, 189, 79, 202, 0, 218, 157, 132, 75, 200, 62, 24, 174, 115, 87, 206, 69, 48, 100, 209, 173, 232, 166, 206, 104, 20, 92, 37, 103>>,
    <<163, 218, 140, 242, 203, 14, 225, 22, 51, 233, 6, 88, 154, 148, 153, 154, 31, 96, 178, 32, 194, 111, 132, 123, 209, 206, 172, 127, 160, 209, 133, 24>>,
    <<50, 89, 91, 161, 141, 221, 25, 211, 80, 154, 28, 192, 170, 165, 180, 70, 159, 61, 99, 103, 228, 4, 107, 186, 246, 202, 25, 171, 11, 86, 238, 126>>,
    <<31, 177, 121, 234, 169, 40, 33, 116, 233, 189, 247, 53, 59, 54, 81, 238, 29, 87, 172, 90, 117, 80, 211, 118, 58, 70, 194, 254, 163, 125, 112, 1>>,
    <<247, 53, 193, 175, 152, 164, 216, 66, 120, 237, 236, 32, 158, 107, 103, 121, 65, 131, 99, 21, 234, 58, 219, 168, 250, 195, 59, 77, 50, 131, 44, 131>>,
    <<167, 64, 59, 31, 28, 39, 71, 243, 89, 64, 240, 52, 183, 45, 118, 154, 231, 62, 78, 108, 210, 33, 79, 253, 184, 253, 141, 57, 220, 87, 89, 239>>,
    <<141, 155, 12, 73, 43, 73, 235, 218, 91, 162, 215, 73, 104, 243, 112, 13, 125, 59, 174, 208, 122, 141, 85, 132, 245, 165, 233, 240, 228, 248, 142, 101>>,
    <<160, 184, 162, 244, 54, 16, 59, 83, 12, 168, 7, 158, 117, 62, 236, 90, 145, 104, 148, 146, 86, 232, 136, 79, 91, 176, 92, 85, 248, 186, 188, 76>>,
    <<227, 187, 59, 153, 243, 135, 148, 123, 117, 218, 244, 214, 114, 107, 28, 93, 100, 174, 172, 40, 220, 52, 179, 109, 108, 52, 165, 80, 184, 40, 219, 113>>,
    <<248, 97, 226, 242, 16, 141, 81, 42, 227, 219, 100, 51, 89, 221, 117, 252, 28, 172, 188, 241, 67, 206, 63, 162, 103, 187, 209, 60, 2, 232, 67, 176>>,
    <<51, 10, 91, 202, 136, 41, 161, 117, 127, 52, 25, 77, 180, 22, 83, 92, 146, 59, 148, 195, 14, 121, 77, 30, 121, 116, 117, 215, 182, 238, 175, 63>>,
    <<234, 168, 212, 247, 190, 26, 57, 33, 92, 244, 126, 9, 76, 35, 39, 81, 38, 163, 36, 83, 186, 50, 60, 210, 68, 163, 23, 74, 109, 166, 213, 173>>,
    <<181, 29, 62, 166, 175, 242, 201, 8, 131, 89, 61, 152, 145, 107, 60, 86, 76, 248, 124, 161, 114, 134, 96, 77, 70, 226, 62, 204, 8, 110, 199, 246>>,
    <<47, 152, 51, 179, 177, 188, 118, 94, 43, 214, 102, 165, 239, 196, 230, 42, 6, 244, 182, 232, 190, 193, 212, 54, 116, 238, 130, 21, 188, 239, 33, 99>>,
    <<253, 193, 78, 13, 244, 83, 201, 105, 167, 125, 90, 196, 6, 88, 88, 38, 126, 193, 20, 22, 6, 224, 250, 22, 126, 144, 175, 61, 40, 99, 157, 63>>,
    <<210, 201, 242, 227, 0, 155, 210, 12, 95, 170, 206, 48, 183, 212, 12, 48, 116, 42, 81, 22, 242, 224, 50, 152, 13, 235, 48, 216, 227, 206, 248, 154>>,
    <<75, 197, 158, 123, 181, 241, 121, 146, 255, 81, 230, 110, 4, 134, 104, 211, 155, 35, 77, 87, 230, 150, 103, 49, 204, 230, 166, 243, 23, 10, 117, 5>>,
    <<177, 118, 129, 217, 19, 50, 108, 206, 60, 23, 82, 132, 248, 5, 162, 98, 244, 43, 203, 179, 120, 71, 21, 71, 255, 70, 84, 130, 35, 147, 106, 72>>,
    <<56, 223, 88, 7, 78, 94, 101, 101, 242, 252, 124, 137, 252, 134, 80, 142, 49, 112, 46, 68, 208, 11, 202, 134, 240, 64, 9, 162, 48, 120, 71, 78>>,
    <<101, 160, 238, 57, 209, 247, 56, 131, 247, 94, 233, 55, 228, 44, 58, 189, 33, 151, 178, 38, 1, 19, 248, 111, 163, 68, 237, 209, 239, 159, 222, 231>>,
    <<139, 160, 223, 21, 118, 37, 146, 217, 60, 133, 247, 246, 18, 220, 66, 190, 216, 167, 236, 124, 171, 39, 176, 126, 83, 141, 125, 218, 170, 62, 168, 222>>,
    <<170, 37, 206, 147, 189, 2, 105, 216, 90, 246, 67, 253, 26, 115, 8, 249, 192, 95, 239, 218, 23, 74, 25, 165, 151, 77, 102, 51, 76, 253, 33, 106>>,
    <<53, 180, 152, 49, 219, 65, 21, 112, 234, 30, 15, 187, 237, 205, 84, 155, 154, 208, 99, 161, 81, 151, 64, 114, 246, 117, 157, 191, 145, 71, 111, 226>>>>
==============================================================================
